------------------------------ MODULE FoldLemmas ------------------------------
(***************************************************************************)
(* What SumFunction computes, for every function of a finite set to the    *)
(* integers: its sum does not depend on the order CHOOSE takes the members *)
(* in, and changes by what one member changes.                             *)
(*                                                                         *)
(* The induction theorems of the library take an operator as a parameter.  *)
(* Here induction is over a set, from the minimal member that WFMin gives  *)
(* every subset of a well-founded order: the members for which a claim     *)
(* holds are collected in a set T, and T is shown to be everything.        *)
(***************************************************************************)
EXTENDS Integers, FiniteSets, Functions, FiniteSetTheorems, TLAPS

\* A set of naturals with 0 and the successor of each of its members is Nat.
LEMMA NatSetInduction ==
  ASSUME NEW T \in SUBSET Nat, 0 \in T, \A n \in T : n + 1 \in T
  PROVE  T = Nat
<1> DEFINE Rest == Nat \ T
<1> SUFFICES ASSUME Rest # {} PROVE FALSE
  OBVIOUS
<1>1. PICK x \in Rest : \A y \in Rest : <<y, x>> \notin OpToRel(<, Nat)
  <2>1. Rest \subseteq Nat
    OBVIOUS
  <2> HIDE DEF Rest
  <2> QED
    BY <2>1, NatLessThanWellFounded, WFMin
<1>2. x \in Nat /\ x # 0 /\ x - 1 \in Nat
  OBVIOUS
<1>3. x - 1 \notin Rest
  <2>1. OpToRel(<, Nat) = {ss \in Nat \X Nat : ss[1] < ss[2]}
    BY DEF OpToRel
  <2>2. <<x - 1, x>> \in {ss \in Nat \X Nat : ss[1] < ss[2]}
    BY <1>2
  <2> QED
    BY <1>1, <2>1, <2>2
<1> QED
  BY <1>2, <1>3

\* The recursion of FoldFunctionOnSet, written out for a sum.
Chosen(s) == CHOOSE x \in s : TRUE

SumStep(it, f, s) == IF s = {} THEN 0 ELSE f[Chosen(s)] + it[s \ {Chosen(s)}]

\* The subsets of at most n members.
Small(S, n) == {s \in SUBSET S : Cardinality(s) <= n}

\* The member that is taken out next is one of the set.
LEMMA ChosenIn == ASSUME NEW s, s # {} PROVE Chosen(s) \in s
  BY DEF Chosen

\* Without that member a set is smaller.
LEMMA SmallStep ==
  ASSUME NEW S, IsFiniteSet(S), NEW n \in Nat, NEW s \in Small(S, n + 1), s # {}
  PROVE  s \ {Chosen(s)} \in Small(S, n)
<1>1. IsFiniteSet(s) /\ Cardinality(s) \in Nat /\ Cardinality(s) <= n + 1
  BY FS_Subset, FS_CardinalityType DEF Small
<1>2. Cardinality(s \ {Chosen(s)}) = Cardinality(s) - 1
  BY <1>1, ChosenIn, FS_RemoveElement
<1> QED
  BY <1>1, <1>2 DEF Small

\* The recursion has a solution over the subsets of a finite set: by induction
\* on the size of the subsets it is defined for.
LEMMA SumExists ==
  ASSUME NEW S, IsFiniteSet(S), NEW f \in [S -> Int]
  PROVE  \E it : it = [s \in SUBSET S |-> SumStep(it, f, s)]
<1> DEFINE Sol(n) == \E it : it = [s \in Small(S, n) |-> SumStep(it, f, s)]
           T == {n \in Nat : Sol(n)}
<1>1. 0 \in T
  <2> DEFINE it == [s \in Small(S, 0) |-> 0]
  <2>1. \A s \in Small(S, 0) : s = {}
    BY FS_Subset, FS_EmptySet, FS_CardinalityType DEF Small
  <2>2. it = [s \in Small(S, 0) |-> SumStep(it, f, s)]
    BY <2>1 DEF SumStep
  <2> QED
    BY <2>2
<1>2. ASSUME NEW n \in T PROVE n + 1 \in T
  <2>1. PICK g : g = [s \in Small(S, n) |-> SumStep(g, f, s)]
    OBVIOUS
  <2> DEFINE h == [s \in Small(S, n + 1) |-> SumStep(g, f, s)]
  <2>2. Small(S, n) \subseteq Small(S, n + 1)
    <3> SUFFICES ASSUME NEW s \in Small(S, n) PROVE s \in Small(S, n + 1)
      OBVIOUS
    <3>1. Cardinality(s) \in Nat
      BY FS_Subset, FS_CardinalityType DEF Small
    <3> QED
      BY <3>1 DEF Small
  <2>3. \A s \in Small(S, n) : h[s] = g[s]
    BY <2>1, <2>2
  <2>4. \A s \in Small(S, n + 1) : SumStep(g, f, s) = SumStep(h, f, s)
    <3> SUFFICES ASSUME NEW s \in Small(S, n + 1) PROVE SumStep(g, f, s) = SumStep(h, f, s)
      OBVIOUS
    <3>1. CASE s = {}
      BY <3>1 DEF SumStep
    <3>2. CASE s # {}
      <4>1. s \ {Chosen(s)} \in Small(S, n)
        BY <3>2, SmallStep
      <4> QED
        BY <3>2, <4>1, <2>3 DEF SumStep
    <3> QED
      BY <3>1, <3>2
  <2>5. h = [s \in Small(S, n + 1) |-> SumStep(h, f, s)]
    BY <2>4
  <2> HIDE DEF h
  <2> QED
    BY <2>5
<1>3. T = Nat
  <2>1. T \in SUBSET Nat
    OBVIOUS
  <2> HIDE DEF T
  <2> QED
    BY <1>1, <1>2, <2>1, NatSetInduction
<1>4. Sol(Cardinality(S)) /\ Small(S, Cardinality(S)) = SUBSET S
  BY <1>3, FS_CardinalityType, FS_Subset DEF Small
<1> QED
  BY <1>4

\* The sums of f over all subsets of S.
SumOver(f, S) == CHOOSE it : it = [s \in SUBSET S |-> SumStep(it, f, s)]

\* They satisfy the recursion.
LEMMA SumOverDef ==
  ASSUME NEW S, IsFiniteSet(S), NEW f \in [S -> Int]
  PROVE  SumOver(f, S) = [s \in SUBSET S |-> SumStep(SumOver(f, S), f, s)]
  BY SumExists DEF SumOver

\* SumFunction is the sum over the whole domain.
LEMMA SumFunctionIs ==
  ASSUME NEW S, NEW f \in [S -> Int]
  PROVE  SumFunction(f) = SumOver(f, S)[S]
  BY DEF SumFunction, SumFunctionOnSet, FoldFunctionOnSet, MapThenFoldSet, SumOver, SumStep, Chosen

\* Induction over the subsets of a finite set.
LEMMA SubsetInduction ==
  ASSUME NEW S, IsFiniteSet(S), NEW T,
         \A s \in SUBSET S : (\A u \in SUBSET s : u # s => u \in T) => s \in T
  PROVE  \A s \in SUBSET S : s \in T
<1> DEFINE Rest == (SUBSET S) \ T
<1> SUFFICES ASSUME Rest # {} PROVE FALSE
  OBVIOUS
<1>1. IsWellFoundedOn(StrictSubsetOrdering(S), SUBSET S)
  <2>1. FiniteSubsetsOf(S) = SUBSET S
    BY FS_FiniteSubsetsOfFinite
  <2>2. IsWellFoundedOn(StrictSubsetOrdering(S), FiniteSubsetsOf(S))
    BY FS_StrictSubsetOrderingWellFounded
  <2> QED
    BY <2>1, <2>2
<1>2. PICK s \in Rest : \A u \in Rest : <<u, s>> \notin StrictSubsetOrdering(S)
  <2>1. Rest \subseteq SUBSET S
    OBVIOUS
  <2> HIDE DEF Rest
  <2> QED
    BY <1>1, <2>1, WFMin
<1>3. ASSUME NEW u \in SUBSET s, u # s PROVE u \in T
  <2>1. <<u, s>> \in StrictSubsetOrdering(S)
    BY <1>3 DEF StrictSubsetOrdering
  <2> QED
    BY <1>2, <2>1
<1> QED
  BY <1>3

\* Its values are integers, and any member of a set may be taken out first.
LEMMA SumOverAny ==
  ASSUME NEW S, IsFiniteSet(S), NEW f \in [S -> Int]
  PROVE  /\ SumOver(f, S)[{}] = 0
         /\ \A s \in SUBSET S :
               /\ SumOver(f, S)[s] \in Int
               /\ \A x \in s : SumOver(f, S)[s] = f[x] + SumOver(f, S)[s \ {x}]
<1> DEFINE it == SumOver(f, S)
           Good(s) == /\ it[s] \in Int
                      /\ \A x \in s : it[s] = f[x] + it[s \ {x}]
           T == {s \in SUBSET S : Good(s)}
<1>1. \A s \in SUBSET S : it[s] = SumStep(it, f, s)
  BY SumOverDef
<1>2. it[{}] = 0
  BY <1>1 DEF SumStep
<1> HIDE DEF it
<1>3. ASSUME NEW s \in SUBSET S, \A u \in SUBSET s : u # s => u \in T
      PROVE  s \in T
  <2>1. CASE s = {}
    BY <2>1, <1>2
  <2>2. CASE s # {}
    <3> DEFINE y == Chosen(s)
    <3>1. y \in s /\ it[s] = f[y] + it[s \ {y}]
      BY <1>1, <2>2, ChosenIn DEF SumStep
    <3> HIDE DEF y
    <3>2. \A z \in s : Good(s \ {z})
      BY <1>3
    <3>3. \A z \in s : f[z] \in Int
      OBVIOUS
    <3>4. it[s] \in Int
      <4>1. f[y] \in Int /\ it[s \ {y}] \in Int
        BY <3>1, <3>2, <3>3
      <4> QED
        BY <4>1, <3>1
    <3>5. ASSUME NEW x \in s, x # y PROVE it[s] = f[x] + it[s \ {x}]
      <4>1. x \in s \ {y} /\ y \in s \ {x}
        BY <3>5, <3>1
      <4>2. it[s \ {y}] = f[x] + it[(s \ {y}) \ {x}]
        BY <4>1, <3>1, <3>2
      <4>3. it[s \ {x}] = f[y] + it[(s \ {x}) \ {y}]
        BY <4>1, <3>2
      <4>4. (s \ {y}) \ {x} = (s \ {x}) \ {y}
        OBVIOUS
      <4>5. it[(s \ {x}) \ {y}] \in Int
        <5>1. (s \ {x}) \ {y} \in SUBSET s /\ (s \ {x}) \ {y} # s
          OBVIOUS
        <5> QED
          BY <5>1, <1>3
      <4>6. f[x] \in Int /\ f[y] \in Int
        BY <3>1, <3>3
      <4>7. it[s] = f[y] + (f[x] + it[(s \ {x}) \ {y}])
        BY <3>1, <4>2, <4>4
      <4> QED
        BY <4>3, <4>5, <4>6, <4>7
    <3> QED
      BY <3>1, <3>4, <3>5
  <2> QED
    BY <2>1, <2>2
<1>4. \A s \in SUBSET S : s \in T
  <2> HIDE DEF T
  <2> QED
    BY <1>3, SubsetInduction
<1> QED
  BY <1>2, <1>4 DEF it

\* Functions that agree on a set have the same sum over it.
LEMMA SumOverSame ==
  ASSUME NEW S, IsFiniteSet(S), NEW f \in [S -> Int], NEW g \in [S -> Int],
         NEW R \in SUBSET S, \A x \in R : f[x] = g[x]
  PROVE  SumOver(f, S)[R] = SumOver(g, S)[R]
<1> DEFINE F == SumOver(f, S)
           G == SumOver(g, S)
           T == {s \in SUBSET R : F[s] = G[s]}
<1>1. /\ F[{}] = 0 /\ G[{}] = 0
      /\ \A s \in SUBSET S : \A x \in s : F[s] = f[x] + F[s \ {x}]
      /\ \A s \in SUBSET S : \A x \in s : G[s] = g[x] + G[s \ {x}]
  BY SumOverAny
<1> HIDE DEF F, G
<1>2. ASSUME NEW s \in SUBSET R, \A u \in SUBSET s : u # s => u \in T
      PROVE  s \in T
  <2>1. CASE s = {}
    BY <2>1, <1>1
  <2>2. ASSUME NEW x \in s PROVE F[s] = G[s]
    <3>1. F[s \ {x}] = G[s \ {x}]
      BY <1>2
    <3>2. F[s] = f[x] + F[s \ {x}] /\ G[s] = g[x] + G[s \ {x}]
      BY <1>1
    <3> QED
      BY <3>1, <3>2
  <2> QED
    BY <2>1, <2>2
<1>3. \A s \in SUBSET R : s \in T
  <2>1. IsFiniteSet(R)
    BY FS_Subset
  <2> HIDE DEF T
  <2> QED
    BY <1>2, <2>1, SubsetInduction
<1> QED
  BY <1>3 DEF F, G

\* A sum of integers is an integer.
LEMMA SumIsInt ==
  ASSUME NEW S, IsFiniteSet(S), NEW f \in [S -> Int]
  PROVE  SumFunction(f) \in Int
<1>1. \A s \in SUBSET S : SumOver(f, S)[s] \in Int
  BY SumOverAny
<1>2. SumOver(f, S)[S] \in Int
  BY <1>1
<1> QED
  BY <1>2, SumFunctionIs

\* The sum of a function that is zero everywhere.
LEMMA SumZero ==
  ASSUME NEW S, IsFiniteSet(S), NEW f \in [S -> Int], \A x \in S : f[x] = 0
  PROVE  SumFunction(f) = 0
<1> DEFINE it == SumOver(f, S)
           T == {s \in SUBSET S : it[s] = 0}
<1>1. /\ it[{}] = 0
      /\ \A s \in SUBSET S : \A x \in s : it[s] = f[x] + it[s \ {x}]
  BY SumOverAny
<1> HIDE DEF it
<1>2. ASSUME NEW s \in SUBSET S, \A u \in SUBSET s : u # s => u \in T
      PROVE  s \in T
  <2>1. CASE s = {}
    BY <2>1, <1>1
  <2>2. ASSUME NEW x \in s PROVE it[s] = 0
    <3>1. it[s \ {x}] = 0
      BY <1>2
    <3>2. it[s] = f[x] + it[s \ {x}]
      BY <1>1
    <3> QED
      BY <3>1, <3>2
  <2> QED
    BY <2>1, <2>2
<1>3. \A s \in SUBSET S : s \in T
  <2> HIDE DEF T
  <2> QED
    BY <1>2, SubsetInduction
<1> QED
  BY <1>3, SumFunctionIs DEF it

\* The sum of a function changed in one place.
LEMMA SumUpdate ==
  ASSUME NEW S, IsFiniteSet(S), NEW f \in [S -> Int], NEW g \in [S -> Int],
         NEW c \in S, \A x \in S \ {c} : g[x] = f[x]
  PROVE  /\ SumFunction(f) \in Int /\ SumFunction(g) \in Int
         /\ SumFunction(g) = SumFunction(f) - f[c] + g[c]
<1> S \in SUBSET S /\ S \ {c} \in SUBSET S
  OBVIOUS
<1>1. /\ SumOver(f, S)[S] = f[c] + SumOver(f, S)[S \ {c}]
      /\ SumOver(f, S)[S \ {c}] \in Int
  <2>1. \A s \in SUBSET S :
          /\ SumOver(f, S)[s] \in Int
          /\ \A x \in s : SumOver(f, S)[s] = f[x] + SumOver(f, S)[s \ {x}]
    BY SumOverAny
  <2> QED
    BY <2>1
<1>2. /\ SumOver(g, S)[S] = g[c] + SumOver(g, S)[S \ {c}]
      /\ SumOver(g, S)[S \ {c}] \in Int
  <2>1. \A s \in SUBSET S :
          /\ SumOver(g, S)[s] \in Int
          /\ \A x \in s : SumOver(g, S)[s] = g[x] + SumOver(g, S)[s \ {x}]
    BY SumOverAny
  <2> QED
    BY <2>1
<1>3. SumOver(f, S)[S \ {c}] = SumOver(g, S)[S \ {c}]
  BY SumOverSame
<1>4. SumFunction(f) = SumOver(f, S)[S] /\ SumFunction(g) = SumOver(g, S)[S]
  BY SumFunctionIs
<1>5. f[c] \in Int /\ g[c] \in Int
  OBVIOUS
<1> QED
  BY <1>1, <1>2, <1>3, <1>4, <1>5
===============================================================================
