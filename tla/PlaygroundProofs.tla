-------------------------- MODULE PlaygroundProofs --------------------------
(***************************************************************************)
(* Proofs about the chat playground, for any number of generations, any    *)
(* bound on the chunks and any texts.                                      *)
(*                                                                         *)
(* The first part is about parseThinkTags: a fold over the tokens of a     *)
(* text, so what it returns is shown by induction on the set of positions  *)
(* read so far (SubsetInduction of FoldLemmas) and on the length of the    *)
(* text, up to its agreement with the reference definition.  The second    *)
(* part says what each callback makes of one message, the third what it    *)
(* makes of the list, the fourth sorts the steps by what they do and       *)
(* proves TypeOK.  Then comes the invariant of the page, PageInv, from     *)
(* which OneStream and ReloadSettles follow.  OneStream is inductive only  *)
(* with ModeInv (without streaming nothing is ever open, and the flag the  *)
(* guards read is always FALSE); ReloadSettles speaks of the stored list   *)
(* alone and needs ListInv, which ties that list to the page, and an       *)
(* unsettled message to the source, flag or request that will settle it.   *)
(* The last part adds ConnInv and ShownInv for ShowsWhatArrived, which     *)
(* speaks of finished messages only: what makes them true is that a live   *)
(* generation owns the last message, that this message is in step with     *)
(* what was delivered, and that the page a stale handler puts back holds   *)
(* no message of a generation that still delivers.                         *)
(***************************************************************************)
EXTENDS Playground, FoldLemmas, SequenceTheorems

-----------------------------------------------------------------------------
(* parseThinkTags                                                             *)

\* A set of positions has a last one.
LEMMA MaxIsLast ==
  ASSUME NEW n \in Nat, NEW I \in SUBSET (1..n), I # {}
  PROVE  Max(I) \in I /\ \A y \in I : Max(I) >= y
<1> DEFINE J == {n - i : i \in I}
<1>1. J \subseteq Nat /\ J # {}
  <2>1. \A i \in I : n - i \in Nat
    OBVIOUS
  <2> QED
    BY <2>1
<1> HIDE DEF J
<1>2. PICK j \in J : \A k \in J : <<k, j>> \notin OpToRel(<, Nat)
  BY <1>1, NatLessThanWellFounded, WFMin
<1>3. \A k \in J : ~(k < j)
  <2>1. OpToRel(<, Nat) = {ss \in Nat \X Nat : ss[1] < ss[2]}
    BY DEF OpToRel
  <2>2. ASSUME NEW k \in J, k < j PROVE FALSE
    <3>1. <<k, j>> \in {ss \in Nat \X Nat : ss[1] < ss[2]}
      BY <1>1, <2>2
    <3> QED
      BY <1>2, <2>1, <3>1
  <2> QED
    BY <2>2
<1>4. PICK i \in I : j = n - i
  BY DEF J
<1>5. \A y \in I : i >= y
  <2> SUFFICES ASSUME NEW y \in I PROVE i >= y
    OBVIOUS
  <2>1. n - y \in J
    BY DEF J
  <2>2. ~(n - y < n - i)
    BY <1>3, <1>4, <2>1
  <2> QED
    BY <2>2
<1> QED
  BY <1>5 DEF Max

\* What parseThinkTags starts from.
NoTags == [visibleContent |-> <<>>, reasoning |-> <<>>, hasUnclosedTag |-> FALSE]

\* One step of the fold: the last position of s is read after the others.
ParseStep(it, c, s) ==
  IF s = {} THEN NoTags ELSE ScanToken(it[s \ {Max(s)}], c[Max(s)])

\* The sets of positions the fold of a text of length n may visit.
Upto(n) == SUBSET (1..n)

\* The recursion of the fold has a solution: by induction on the length, a
\* solution for k positions extends to k + 1.
LEMMA ParseExists ==
  ASSUME NEW c, NEW n \in Nat
  PROVE  \E it : it = [s \in Upto(n) |-> ParseStep(it, c, s)]
<1> DEFINE Sol(k) == \E it : it = [s \in Upto(k) |-> ParseStep(it, c, s)]
           T == {k \in Nat : Sol(k)}
<1>1. 0 \in T
  <2> DEFINE it == [s \in Upto(0) |-> NoTags]
  <2>1. \A s \in Upto(0) : s = {}
    BY DEF Upto
  <2>2. it = [s \in Upto(0) |-> ParseStep(it, c, s)]
    BY <2>1 DEF ParseStep
  <2> HIDE DEF it
  <2> QED
    BY <2>2
<1>2. ASSUME NEW k \in T PROVE k + 1 \in T
  <2>1. PICK g : g = [s \in Upto(k) |-> ParseStep(g, c, s)]
    OBVIOUS
  <2> DEFINE f == [s \in Upto(k + 1) |-> IF s \in Upto(k) THEN g[s] ELSE ParseStep(g, c, s)]
  <2>2. Upto(k) \subseteq Upto(k + 1)
    BY DEF Upto
  <2>3. \A s \in Upto(k) : f[s] = g[s]
    BY <2>2
  <2>4. ASSUME NEW s \in Upto(k + 1), s # {} PROVE s \ {Max(s)} \in Upto(k)
    <3>0. k \in Nat /\ k + 1 \in Nat /\ s \in SUBSET (1..(k + 1))
      BY <2>4 DEF Upto
    <3>1. Max(s) \in s /\ \A y \in s : Max(s) >= y
      BY <2>4, <3>0, MaxIsLast
    <3>2. ASSUME NEW y \in s \ {Max(s)} PROVE y \in 1..k
      <4>1. y \in 1..(k + 1) /\ Max(s) \in 1..(k + 1) /\ y # Max(s) /\ Max(s) >= y
        BY <3>0, <3>1
      <4> QED
        BY <3>0, <4>1
    <3> QED
      BY <3>2 DEF Upto
  <2> HIDE DEF f
  <2>5. \A s \in Upto(k + 1) : ParseStep(f, c, s) = ParseStep(g, c, s)
    BY <2>3, <2>4 DEF ParseStep
  <2>6. \A s \in Upto(k + 1) : f[s] = ParseStep(f, c, s)
    <3> SUFFICES ASSUME NEW s \in Upto(k + 1) PROVE f[s] = ParseStep(f, c, s)
      OBVIOUS
    <3>1. CASE s \in Upto(k)
      BY <2>1, <2>3, <2>5, <3>1
    <3>2. CASE s \notin Upto(k)
      BY <2>5, <3>2 DEF f
    <3> QED
      BY <3>1, <3>2
  <2>7. f = [s \in Upto(k + 1) |-> ParseStep(f, c, s)]
    BY <2>6 DEF f
  <2> QED
    BY <2>7
<1>3. T = Nat
  <2>1. T \in SUBSET Nat
    OBVIOUS
  <2> HIDE DEF T
  <2> QED
    BY <1>1, <1>2, <2>1, NatSetInduction
<1> QED
  BY <1>3

\* The fold as the function its recursion defines.
Scan(c, n) == CHOOSE it : it = [s \in Upto(n) |-> ParseStep(it, c, s)]

\* parseThinkTags is that function at the set of all positions.
LEMMA ParseIsScan ==
  ASSUME NEW n \in Nat, NEW c, DOMAIN c = 1..n
  PROVE  parseThinkTags(c) = Scan(c, n)[1..n]
  BY DEF parseThinkTags, FoldLeft, MapThenFoldSet, Scan, ParseStep, NoTags, Upto

\* The result of parseThinkTags.
Parsed == [visibleContent: Seq(Token), reasoning: Seq(Token), hasUnclosedTag: BOOLEAN]

\* Scanning a token keeps what has been read so far well-formed.
LEMMA ScanTyped ==
  ASSUME NEW acc \in Parsed, NEW t \in Token
  PROVE  ScanToken(acc, t) \in Parsed
<1>1. /\ Append(acc.reasoning, t) \in Seq(Token)
      /\ Append(acc.visibleContent, t) \in Seq(Token)
  BY AppendProperties DEF Parsed
<1>2. /\ [acc EXCEPT !.hasUnclosedTag = FALSE] \in Parsed
      /\ [acc EXCEPT !.hasUnclosedTag = TRUE] \in Parsed
      /\ [acc EXCEPT !.reasoning = Append(@, t)] \in Parsed
      /\ [acc EXCEPT !.visibleContent = Append(@, t)] \in Parsed
  BY <1>1 DEF Parsed
<1> QED
  BY <1>2 DEF ScanToken

\* Parsing a text gives two texts and a flag, whatever the order of its tags.
LEMMA ParseTyped ==
  ASSUME NEW c \in Seq(Token)
  PROVE  parseThinkTags(c) \in Parsed
<1> DEFINE n == Len(c)
           it == Scan(c, n)
           T == {s \in SUBSET (1..n) : it[s] \in Parsed}
<1>1. n \in Nat /\ DOMAIN c = 1..n /\ \A i \in 1..n : c[i] \in Token
  BY LenProperties, ElementOfSeq
<1>2. it = [s \in Upto(n) |-> ParseStep(it, c, s)]
  <2> HIDE DEF n
  <2> QED
    BY <1>1, ParseExists DEF Scan
<1> HIDE DEF it, n
<1>3. ASSUME NEW s \in SUBSET (1..n), \A u \in SUBSET s : u # s => u \in T
      PROVE  s \in T
  <2>1. it[s] = ParseStep(it, c, s)
    BY <1>2 DEF Upto
  <2>2. CASE s = {}
    <3>1. NoTags \in Parsed
      BY EmptySeq DEF NoTags, Parsed
    <3> QED
      BY <2>1, <2>2, <3>1 DEF ParseStep
  <2>3. CASE s # {}
    <3>1. Max(s) \in s
      BY <1>1, <2>3, MaxIsLast
    <3>2. it[s \ {Max(s)}] \in Parsed
      BY <1>3, <3>1
    <3>3. c[Max(s)] \in Token
      BY <1>1, <3>1
    <3>4. ScanToken(it[s \ {Max(s)}], c[Max(s)]) \in Parsed
      BY <3>2, <3>3, ScanTyped
    <3> QED
      BY <2>1, <2>3, <3>4 DEF ParseStep
  <2> QED
    BY <2>2, <2>3
<1>4. IsFiniteSet(1..n)
  BY <1>1, FS_Interval
<1>5. \A s \in SUBSET (1..n) : s \in T
  <2> HIDE DEF T
  <2> QED
    BY <1>3, <1>4, SubsetInduction
<1>6. it[1..n] \in Parsed
  BY <1>5
<1> QED
  BY <1>1, <1>6, ParseIsScan DEF it

\* What the loop of parseThinkTags has read of a text does not depend on the
\* token that follows: reading one more token is one more step of the scan.
LEMMA ParseAppend ==
  ASSUME NEW c \in Seq(Token), NEW t \in Token
  PROVE  parseThinkTags(Append(c, t)) = ScanToken(parseThinkTags(c), t)
<1> DEFINE n == Len(c)
           d == Append(c, t)
           F == Scan(c, n)
           G == Scan(d, n + 1)
           T == {s \in SUBSET (1..n) : F[s] = G[s]}
<1>1. n \in Nat /\ DOMAIN c = 1..n /\ n + 1 \in Nat
  BY LenProperties
<1>2. /\ DOMAIN d = 1..(n + 1) /\ d[n + 1] = t
      /\ \A i \in 1..n : d[i] = c[i]
  <2>1. Len(d) = n + 1 /\ d \in Seq(Token)
    BY AppendProperties
  <2> QED
    BY <1>1, <2>1, AppendProperties, LenProperties
<1> HIDE DEF n, d
<1>3. F = [s \in Upto(n) |-> ParseStep(F, c, s)]
  BY <1>1, ParseExists DEF Scan
<1>4. G = [s \in Upto(n + 1) |-> ParseStep(G, d, s)]
  BY <1>1, ParseExists DEF Scan
<1>f. parseThinkTags(c) = F[1..n] /\ parseThinkTags(d) = G[1..(n + 1)]
  BY <1>1, <1>2, ParseIsScan
<1> HIDE DEF F, G
<1>5. ASSUME NEW s \in SUBSET (1..n), \A u \in SUBSET s : u # s => u \in T
      PROVE  s \in T
  <2>1. s \in SUBSET (1..(n + 1))
    BY <1>1
  <2>2. F[s] = ParseStep(F, c, s) /\ G[s] = ParseStep(G, d, s)
    BY <1>3, <1>4, <2>1 DEF Upto
  <2>3. CASE s = {}
    BY <2>2, <2>3 DEF ParseStep
  <2>4. CASE s # {}
    <3>1. Max(s) \in s
      BY <1>1, <2>4, MaxIsLast
    <3>2. F[s \ {Max(s)}] = G[s \ {Max(s)}]
      BY <1>5, <3>1
    <3>3. c[Max(s)] = d[Max(s)]
      BY <1>2, <3>1
    <3> QED
      BY <2>2, <2>4, <3>2, <3>3 DEF ParseStep
  <2> QED
    BY <2>3, <2>4
<1>6. IsFiniteSet(1..n)
  BY <1>1, FS_Interval
<1>7. \A s \in SUBSET (1..n) : s \in T
  <2> HIDE DEF T
  <2> QED
    BY <1>5, <1>6, SubsetInduction
<1>8. F[1..n] = G[1..n]
  BY <1>7
<1>9. Max(1..(n + 1)) = n + 1 /\ 1..(n + 1) # {}
  <2>1. n + 1 \in 1..(n + 1)
    BY <1>1
  <2>2. 1..(n + 1) # {}
    BY <2>1
  <2>3. Max(1..(n + 1)) \in 1..(n + 1) /\ \A y \in 1..(n + 1) : Max(1..(n + 1)) >= y
    BY <1>1, <2>2, MaxIsLast
  <2>4. Max(1..(n + 1)) >= n + 1
    BY <2>1, <2>3
  <2> HIDE DEF Max
  <2> DEFINE x == Max(1..(n + 1))
  <2>5. x \in 1..(n + 1) /\ x >= n + 1
    BY <2>3, <2>4
  <2> HIDE DEF x
  <2>6. x = n + 1
    BY <1>1, <2>5
  <2> QED
    BY <2>2, <2>6 DEF x
<1>10. (1..(n + 1)) \ {n + 1} = 1..n
  BY <1>1
<1>11. G[1..(n + 1)] = ScanToken(G[1..n], t)
  <2>1. G[1..(n + 1)] = ParseStep(G, d, 1..(n + 1))
    BY <1>4 DEF Upto
  <2> QED
    BY <1>2, <1>9, <1>10, <2>1 DEF ParseStep
<1> QED
  BY <1>8, <1>11, <1>f DEF d

\* Nothing is read of an empty text.
LEMMA ParseEmpty == parseThinkTags(<<>>) = NoTags
<1> DEFINE F == Scan(<<>>, 0)
<1>1. DOMAIN <<>> = 1..0 /\ 1..0 = {}
  OBVIOUS
<1>2. F = [s \in Upto(0) |-> ParseStep(F, <<>>, s)]
  BY ParseExists DEF Scan
<1>3. parseThinkTags(<<>>) = F[1..0]
  BY <1>1, ParseIsScan
<1> HIDE DEF F
<1>4. F[{}] = NoTags
  BY <1>2 DEF Upto, ParseStep
<1> QED
  BY <1>1, <1>3, <1>4

\* A text is empty or ends with a token.
LEMMA TextEnds ==
  ASSUME NEW S, NEW n \in Nat, NEW s \in Seq(S), Len(s) = n + 1
  PROVE  \E p \in Seq(S), t \in S : s = Append(p, t) /\ Len(p) = n
<1> DEFINE p == SubSeq(s, 1, n)
           t == s[n + 1]
<1>1. p \in Seq(S) /\ Len(p) = n /\ \A i \in 1..n : p[i] = s[i]
  OBVIOUS
<1>2. t \in S
  BY ElementOfSeq
<1> HIDE DEF p
<1>3. /\ Append(p, t) \in Seq(S) /\ Len(Append(p, t)) = n + 1
      /\ \A i \in 1..n : Append(p, t)[i] = p[i]
      /\ Append(p, t)[n + 1] = t
  BY <1>1, <1>2, AppendProperties
<1>4. \A i \in 1..(n + 1) : Append(p, t)[i] = s[i]
  BY <1>1, <1>3
<1>5. s = Append(p, t)
  BY <1>3, <1>4, SeqEqual
<1> QED
  BY <1>1, <1>2, <1>5

\* A text that goes on keeps its reasoning.
LEMMA ReasoningStays ==
  ASSUME NEW s \in Seq(Token), NEW u \in Seq(Token), parseThinkTags(s).reasoning # <<>>
  PROVE  parseThinkTags(s \o u).reasoning # <<>>
<1> DEFINE T == {n \in Nat : \A v \in Seq(Token) :
                    Len(v) = n => parseThinkTags(s \o v).reasoning # <<>>}
<1>1. 0 \in T
  <2> SUFFICES ASSUME NEW v \in Seq(Token), Len(v) = 0
               PROVE  parseThinkTags(s \o v).reasoning # <<>>
    OBVIOUS
  <2>1. v = <<>>
    BY EmptySeq
  <2>2. s \o v = s
    BY <2>1, ConcatEmptySeq
  <2> QED
    BY <2>2
<1>2. ASSUME NEW n \in T PROVE n + 1 \in T
  <2> SUFFICES ASSUME NEW v \in Seq(Token), Len(v) = n + 1
               PROVE  parseThinkTags(s \o v).reasoning # <<>>
    OBVIOUS
  <2>1. PICK p \in Seq(Token), t \in Token : v = Append(p, t) /\ Len(p) = n
    BY TextEnds
  <2>2. s \o v = Append(s \o p, t) /\ s \o p \in Seq(Token)
    BY <2>1, ConcatProperties
  <2> DEFINE a == parseThinkTags(s \o p)
  <2>3. a.reasoning # <<>> /\ a \in Parsed
    BY <2>1, <2>2, ParseTyped
  <2>4. parseThinkTags(s \o v) = ScanToken(a, t)
    BY <2>2, ParseAppend
  <2> HIDE DEF a
  <2>5. a.reasoning \in Seq(Token)
    BY <2>3 DEF Parsed
  <2>6. Append(a.reasoning, t) # <<>>
    BY <2>5, AppendProperties
  <2>7. ScanToken(a, t).reasoning \in {a.reasoning, Append(a.reasoning, t)}
    BY <2>3 DEF ScanToken, Parsed
  <2> QED
    BY <2>3, <2>4, <2>6, <2>7
<1>3. T = Nat
  <2>1. T \in SUBSET Nat
    OBVIOUS
  <2> HIDE DEF T
  <2> QED
    BY <1>1, <1>2, <2>1, NatSetInduction
<1>4. Len(u) \in Nat
  BY LenProperties
<1> QED
  BY <1>3, <1>4

-----------------------------------------------------------------------------
(* parseThinkTags against its reference definition                            *)

\* How many positions of a set are not after i.
Rank(I, i) == Cardinality({j \in I : j <= i})

\* The positions of a text are finitely many.
LEMMA Positions ==
  ASSUME NEW n \in Nat, NEW I \in SUBSET (1..n)
  PROVE  /\ IsFiniteSet(I) /\ Cardinality(I) \in Nat
         /\ \A i \in Int : IsFiniteSet({j \in I : j <= i})
<1>1. IsFiniteSet(1..n)
  BY FS_Interval
<1>2. IsFiniteSet(I) /\ Cardinality(I) \in Nat
  BY <1>1, FS_Subset, FS_CardinalityType
<1>3. \A i \in Int : {j \in I : j <= i} \in SUBSET I
  OBVIOUS
<1> QED
  BY <1>2, <1>3, FS_Subset

\* A position beyond all others comes last.
LEMMA RankAdd ==
  ASSUME NEW n \in Nat, NEW I \in SUBSET (1..n)
  PROVE  /\ Cardinality(I \cup {n + 1}) = Cardinality(I) + 1
         /\ Rank(I \cup {n + 1}, n + 1) = Cardinality(I) + 1
         /\ \A i \in 1..n : Rank(I \cup {n + 1}, i) = Rank(I, i)
<1>1. n + 1 \notin I
  OBVIOUS
<1>2. Cardinality(I \cup {n + 1}) = Cardinality(I) + 1
  BY <1>1, Positions, FS_AddElement
<1>3. {j \in I \cup {n + 1} : j <= n + 1} = I \cup {n + 1}
  <2>1. \A j \in I : j \in 1..n
    OBVIOUS
  <2>2. \A j \in I \cup {n + 1} : j <= n + 1
    BY <2>1
  <2> QED
    BY <2>2
<1>4. ASSUME NEW i \in 1..n
      PROVE  {j \in I \cup {n + 1} : j <= i} = {j \in I : j <= i}
  OBVIOUS
<1> QED
  BY <1>2, <1>3, <1>4 DEF Rank

\* A set of positions has one of every rank.
LEMMA RankExists ==
  ASSUME NEW n \in Nat, NEW I \in SUBSET (1..n), NEW k \in 1..Cardinality(I)
  PROVE  \E i \in I : Rank(I, i) = k
<1> DEFINE Has(J) == \A x \in 1..Cardinality(J) : \E i \in J : Rank(J, i) = x
           T == {m \in Nat : \A J \in SUBSET (1..m) : Has(J)}
<1>1. 0 \in T
  <2> SUFFICES ASSUME NEW J \in SUBSET (1..0) PROVE Has(J)
    OBVIOUS
  <2>1. J = {}
    OBVIOUS
  <2>2. Cardinality({}) = 0
    BY FS_EmptySet
  <2>3. 1..Cardinality(J) = {}
    BY <2>1, <2>2
  <2> QED
    BY <2>3
<1>2. ASSUME NEW m \in T PROVE m + 1 \in T
  <2> SUFFICES ASSUME NEW J \in SUBSET (1..(m + 1)) PROVE Has(J)
    OBVIOUS
  <2> DEFINE K == J \ {m + 1}
  <2>1. K \in SUBSET (1..m)
    OBVIOUS
  <2>2. Has(K)
    BY <2>1
  <2>3. CASE m + 1 \notin J
    <3>1. J = K
      BY <2>3
    <3> QED
      BY <2>2, <3>1
  <2>4. CASE m + 1 \in J
    <3>1. J = K \cup {m + 1}
      BY <2>4
    <3> HIDE DEF K
    <3>2. /\ Cardinality(J) = Cardinality(K) + 1 /\ Rank(J, m + 1) = Cardinality(K) + 1
          /\ \A i \in 1..m : Rank(J, i) = Rank(K, i)
          /\ Cardinality(K) \in Nat
      BY <2>1, <3>1, RankAdd, Positions
    <3>3. ASSUME NEW x \in 1..Cardinality(J) PROVE \E i \in J : Rank(J, i) = x
      <4>1. CASE x = Cardinality(K) + 1
        BY <2>4, <3>2, <4>1
      <4>2. CASE x # Cardinality(K) + 1
        <5>1. x \in 1..Cardinality(K)
          BY <3>2, <4>2
        <5>2. PICK i \in K : Rank(K, i) = x
          BY <2>2, <5>1
        <5>3. i \in J /\ i \in 1..m
          BY <2>1, <3>1
        <5> QED
          BY <3>2, <5>2, <5>3
      <4> QED
        BY <4>1, <4>2
    <3> QED
      BY <3>3
  <2> QED
    BY <2>3, <2>4
<1>3. T = Nat
  <2>1. T \in SUBSET Nat
    OBVIOUS
  <2> HIDE DEF T
  <2> QED
    BY <1>1, <1>2, <2>1, NatSetInduction
<1> QED
  BY <1>3

\* No two positions have the same rank.
LEMMA RankInjective ==
  ASSUME NEW n \in Nat, NEW I \in SUBSET (1..n), NEW i \in I, NEW j \in I,
         Rank(I, i) = Rank(I, j)
  PROVE  i = j
<1>1. ASSUME NEW x \in I, NEW y \in I, x <= y, Rank(I, x) = Rank(I, y) PROVE y <= x
  <2> DEFINE X == {z \in I : z <= x}
             Y == {z \in I : z <= y}
  <2>0. x \in Int /\ y \in Int
    OBVIOUS
  <2>1. X \in SUBSET Y
    <3>1. ASSUME NEW z \in X PROVE z \in Y
      <4>1. z \in I /\ z <= x /\ z \in 1..n
        BY <3>1
      <4>2. z <= y
        BY <1>1, <2>0, <4>1
      <4> QED
        BY <4>1, <4>2
    <3> QED
      BY <3>1
  <2>2. IsFiniteSet(Y)
    BY <2>0, Positions
  <2>3. Cardinality(X) = Cardinality(Y)
    BY <1>1 DEF Rank
  <2>4. y \in Y
    BY <2>0
  <2>5. X = Y
    <3> HIDE DEF X, Y
    <3> QED
      BY <2>1, <2>2, <2>3, FS_Subset
  <2> QED
    BY <2>4, <2>5
<1>2. i \in Int /\ j \in Int
  OBVIOUS
<1> QED
  BY <1>1, <1>2

\* The k-th position is the one of rank k.
LEMMA NthIs ==
  ASSUME NEW n \in Nat, NEW I \in SUBSET (1..n), NEW k \in 1..Cardinality(I)
  PROVE  /\ Nth(I, k) \in I /\ Rank(I, Nth(I, k)) = k
         /\ \A i \in I : Rank(I, i) = k => i = Nth(I, k)
<1>1. \E i \in I : Rank(I, i) = k
  BY RankExists
<1>2. Nth(I, k) \in I /\ Rank(I, Nth(I, k)) = k
  BY <1>1 DEF Nth, Rank
<1> HIDE DEF Nth
<1> QED
  BY <1>2, RankInjective

\* Picking positions of a text gives a text; when the text goes on, the same
\* positions pick the same tokens, and the new one picks the new token.
LEMMA PickAppend ==
  ASSUME NEW s \in Seq(Token), NEW t \in Token, NEW n \in Nat, n = Len(s),
         NEW I \in SUBSET (1..n)
  PROVE  /\ Pick(s, I) \in Seq(Token)
         /\ Pick(Append(s, t), I) = Pick(s, I)
         /\ Pick(Append(s, t), I \cup {n + 1}) = Append(Pick(s, I), t)
<1> DEFINE d == Append(s, t)
           J == I \cup {n + 1}
           c == Cardinality(I)
<1>1. /\ d \in Seq(Token) /\ d[n + 1] = t /\ \A i \in 1..n : d[i] = s[i] /\ s[i] \in Token
  BY AppendProperties, ElementOfSeq
<1>2. c \in Nat
  BY Positions
<1>3. /\ Cardinality(J) = c + 1 /\ Rank(J, n + 1) = c + 1
      /\ \A i \in 1..n : Rank(J, i) = Rank(I, i)
  BY RankAdd
<1>4. J \in SUBSET (1..(n + 1)) /\ I \subseteq J /\ n + 1 \in J
  <2>1. \A j \in 1..n : j \in 1..(n + 1)
    OBVIOUS
  <2>2. n + 1 \in 1..(n + 1)
    OBVIOUS
  <2> QED
    BY <2>1, <2>2
<1>5. \A k \in 1..c : Nth(I, k) \in I /\ Nth(I, k) \in 1..n /\ Rank(I, Nth(I, k)) = k
  BY NthIs
<1> HIDE DEF d, J, c, Nth, Rank
<1>6. \A k \in 1..c : Nth(J, k) = Nth(I, k)
  <2> SUFFICES ASSUME NEW k \in 1..c PROVE Nth(J, k) = Nth(I, k)
    OBVIOUS
  <2>1. k \in 1..Cardinality(J) /\ n + 1 \in Nat
    BY <1>2, <1>3
  <2>2. Nth(I, k) \in J /\ Rank(J, Nth(I, k)) = k
    BY <1>3, <1>4, <1>5
  <2> QED
    BY <1>4, <2>1, <2>2, NthIs
<1>7. Nth(J, c + 1) = n + 1
  <2>1. c + 1 \in 1..Cardinality(J) /\ n + 1 \in Nat
    BY <1>2, <1>3
  <2> QED
    BY <1>3, <1>4, <2>1, NthIs
<1> DEFINE p == Pick(s, I)
           q == Pick(d, J)
<1>8. p = [k \in 1..c |-> s[Nth(I, k)]]
  BY DEF Pick, c
<1>9. p \in Seq(Token) /\ Len(p) = c /\ \A k \in 1..c : p[k] = s[Nth(I, k)]
  <2>1. \A k \in 1..c : s[Nth(I, k)] \in Token
    BY <1>1, <1>5
  <2> HIDE DEF p
  <2> QED
    BY <1>2, <1>8, <2>1
<1>10. Pick(d, I) = p
  <2>1. \A k \in 1..c : d[Nth(I, k)] = s[Nth(I, k)]
    BY <1>1, <1>5
  <2>2. Pick(d, I) = [k \in 1..c |-> d[Nth(I, k)]]
    BY DEF Pick, c
  <2> HIDE DEF p
  <2> QED
    BY <1>8, <2>1, <2>2
<1>11. q = [k \in 1..(c + 1) |-> d[Nth(J, k)]]
  BY <1>3 DEF Pick
<1> HIDE DEF p, q
<1>12. /\ Append(p, t) \in Seq(Token) /\ Len(Append(p, t)) = c + 1
       /\ \A k \in 1..c : Append(p, t)[k] = p[k]
       /\ Append(p, t)[c + 1] = t
  BY <1>9, AppendProperties
<1>13. \A k \in 1..(c + 1) : d[Nth(J, k)] = Append(p, t)[k]
  <2> SUFFICES ASSUME NEW k \in 1..(c + 1) PROVE d[Nth(J, k)] = Append(p, t)[k]
    OBVIOUS
  <2>1. CASE k = c + 1
    BY <1>1, <1>7, <1>12, <2>1
  <2>2. CASE k # c + 1
    <3>1. k \in 1..c
      BY <1>2, <2>2
    <3>2. d[Nth(J, k)] = s[Nth(I, k)]
      BY <1>1, <1>5, <1>6, <3>1
    <3> QED
      BY <1>9, <1>12, <3>1, <3>2
  <2> QED
    BY <2>1, <2>2
<1>14. q \in Seq(Token) /\ Len(q) = c + 1 /\ \A k \in 1..(c + 1) : q[k] = Append(p, t)[k]
  <2>1. \A k \in 1..(c + 1) : d[Nth(J, k)] \in Token
    BY <1>12, <1>13, ElementOfSeq
  <2> DEFINE e == [k \in 1..(c + 1) |-> d[Nth(J, k)]]
  <2>2. e \in [1..(c + 1) -> Token] /\ c + 1 \in Nat
    BY <1>2, <2>1
  <2>3. \A k \in 1..(c + 1) : e[k] = Append(p, t)[k]
    BY <1>13
  <2>4. q = e
    BY <1>11
  <2> HIDE DEF e
  <2>5. e \in Seq(Token) /\ Len(e) = c + 1
    BY <2>2
  <2> QED
    BY <2>3, <2>4, <2>5
<1>15. q = Append(p, t)
  BY <1>12, <1>14, SeqEqual
<1> QED
  BY <1>9, <1>10, <1>15 DEF p, q, d, J

\* Whether a position is inside a think part depends on the tokens before it.
LEMMA InThinkAppend ==
  ASSUME NEW s \in Seq(Token), NEW t \in Token, NEW n \in Nat, n = Len(s)
  PROVE  /\ \A i \in 1..(n + 1) : InThink(Append(s, t), i) <=> InThink(s, i)
         /\ InThink(Append(s, t), n + 2) <=>
              t = "<think>" \/ (InThink(s, n + 1) /\ t # "</think>")
<1> DEFINE d == Append(s, t)
<1>1. d[n + 1] = t /\ \A i \in 1..n : d[i] = s[i]
  BY AppendProperties
<1> HIDE DEF d
<1>2. ASSUME NEW i \in 1..(n + 1) PROVE InThink(d, i) <=> InThink(s, i)
  <2>1. \A j \in 1..(i - 1) : j \in 1..n
    OBVIOUS
  <2>2. \A j \in 1..(i - 1) : \A k \in (j + 1)..(i - 1) : k \in 1..n
    OBVIOUS
  <2> QED
    BY <1>1, <2>1, <2>2 DEF InThink
<1>3. ASSUME t = "<think>" PROVE InThink(d, n + 2)
  <2>1. n + 1 \in 1..(n + 2 - 1) /\ d[n + 1] = "<think>"
    BY <1>1, <1>3
  <2>2. \A k \in (n + 1 + 1)..(n + 2 - 1) : FALSE
    OBVIOUS
  <2> QED
    BY <2>1, <2>2 DEF InThink
<1>4. ASSUME InThink(d, n + 2), t # "<think>" PROVE InThink(s, n + 1) /\ t # "</think>"
  <2>1. PICK j \in 1..(n + 2 - 1) :
          d[j] = "<think>" /\ \A k \in (j + 1)..(n + 2 - 1) : d[k] # "</think>"
    BY <1>4 DEF InThink
  <2>2. j \in 1..n
    <3>1. j # n + 1
      BY <1>1, <1>4, <2>1
    <3> QED
      BY <3>1
  <2>3. n + 1 \in (j + 1)..(n + 2 - 1)
    BY <2>2
  <2>4. t # "</think>"
    BY <1>1, <2>1, <2>3
  <2>5. \A k \in (j + 1)..(n + 1 - 1) : k \in (j + 1)..(n + 2 - 1) /\ k \in 1..n
    BY <2>2
  <2>6. s[j] = "<think>" /\ \A k \in (j + 1)..(n + 1 - 1) : s[k] # "</think>"
    BY <1>1, <2>1, <2>2, <2>5
  <2>7. j \in 1..(n + 1 - 1)
    BY <2>2
  <2> QED
    BY <2>4, <2>6, <2>7 DEF InThink
<1>5. ASSUME InThink(s, n + 1), t # "</think>" PROVE InThink(d, n + 2)
  <2>1. PICK j \in 1..(n + 1 - 1) :
          s[j] = "<think>" /\ \A k \in (j + 1)..(n + 1 - 1) : s[k] # "</think>"
    BY <1>5 DEF InThink
  <2>2. j \in 1..n /\ j \in 1..(n + 2 - 1)
    OBVIOUS
  <2>3. ASSUME NEW k \in (j + 1)..(n + 2 - 1) PROVE d[k] # "</think>"
    <3>1. CASE k = n + 1
      BY <1>1, <1>5, <3>1
    <3>2. CASE k # n + 1
      <4>1. k \in (j + 1)..(n + 1 - 1) /\ k \in 1..n
        BY <2>2, <3>2
      <4> QED
        BY <1>1, <2>1, <4>1
    <3> QED
      BY <3>1, <3>2
  <2>4. d[j] = "<think>"
    BY <1>1, <2>1, <2>2
  <2> QED
    BY <2>2, <2>3, <2>4 DEF InThink
<1> QED
  BY <1>2, <1>3, <1>4, <1>5 DEF d

\* The positions the reference definition picks.
VisibleAt(s) == {i \in DOMAIN s : ~InThink(s, i) /\ s[i] # "<think>"}
ThoughtAt(s) == {i \in DOMAIN s : InThink(s, i) /\ s[i] # "</think>"}

\* A token that is added is picked by one of the two, or is a tag.
LEMMA PlacesAppend ==
  ASSUME NEW s \in Seq(Token), NEW t \in Token, NEW n \in Nat, n = Len(s)
  PROVE  /\ VisibleAt(s) \in SUBSET (1..n) /\ ThoughtAt(s) \in SUBSET (1..n)
         /\ VisibleAt(Append(s, t)) =
              IF ~InThink(s, n + 1) /\ t # "<think>" THEN VisibleAt(s) \cup {n + 1}
                                                     ELSE VisibleAt(s)
         /\ ThoughtAt(Append(s, t)) =
              IF InThink(s, n + 1) /\ t # "</think>" THEN ThoughtAt(s) \cup {n + 1}
                                                     ELSE ThoughtAt(s)
<1> DEFINE d == Append(s, t)
<1>0. d \in Seq(Token) /\ Len(d) = n + 1
  BY AppendProperties
<1>1. DOMAIN d = 1..(n + 1) /\ DOMAIN s = 1..n
  BY <1>0, LenProperties
<1>2. d[n + 1] = t /\ \A i \in 1..n : d[i] = s[i]
  BY AppendProperties
<1>3. \A i \in 1..(n + 1) : InThink(d, i) <=> InThink(s, i)
  BY InThinkAppend
<1> HIDE DEF d, InThink
<1>4. /\ n + 1 \in 1..(n + 1) /\ n + 1 \notin 1..n
      /\ \A i : i \in 1..(n + 1) <=> i \in 1..n \/ i = n + 1
  OBVIOUS
<1>5. \A i : i \in VisibleAt(d) <=>
         i \in VisibleAt(s) \/ (i = n + 1 /\ ~InThink(s, n + 1) /\ t # "<think>")
  BY <1>1, <1>2, <1>3, <1>4 DEF VisibleAt
<1>6. \A i : i \in ThoughtAt(d) <=>
         i \in ThoughtAt(s) \/ (i = n + 1 /\ InThink(s, n + 1) /\ t # "</think>")
  BY <1>1, <1>2, <1>3, <1>4 DEF ThoughtAt
<1>7. VisibleAt(s) \in SUBSET (1..n) /\ ThoughtAt(s) \in SUBSET (1..n)
  BY <1>1 DEF VisibleAt, ThoughtAt
<1>8. VisibleAt(d) = IF ~InThink(s, n + 1) /\ t # "<think>" THEN VisibleAt(s) \cup {n + 1}
                                                            ELSE VisibleAt(s)
  BY <1>5
<1>9. ThoughtAt(d) = IF InThink(s, n + 1) /\ t # "</think>" THEN ThoughtAt(s) \cup {n + 1}
                                                            ELSE ThoughtAt(s)
  BY <1>6
<1> QED
  BY <1>7, <1>8, <1>9 DEF d

\* The loop of parseThinkTags and the definition by positions agree.
Agrees(s) ==
  /\ parseThinkTags(s).visibleContent = RefVisible(s)
  /\ parseThinkTags(s).reasoning = RefReasoning(s)
  /\ parseThinkTags(s).hasUnclosedTag <=> InThink(s, Len(s) + 1)

\* Reading one more token keeps them so.
LEMMA AgreesAppend ==
  ASSUME NEW s \in Seq(Token), NEW t \in Token, Agrees(s)
  PROVE  Agrees(Append(s, t))
<1> DEFINE n == Len(s)
           d == Append(s, t)
           a == parseThinkTags(s)
           V == VisibleAt(s)
           R == ThoughtAt(s)
<1>1. n \in Nat /\ Len(d) = n + 1 /\ Len(d) + 1 = n + 2
  BY LenProperties, AppendProperties
<1>2. a \in Parsed /\ parseThinkTags(d) = ScanToken(a, t)
  BY ParseTyped, ParseAppend
<1>3. /\ a.visibleContent = Pick(s, V) /\ a.reasoning = Pick(s, R)
      /\ a.hasUnclosedTag <=> InThink(s, n + 1)
  BY DEF Agrees, RefVisible, RefReasoning, VisibleAt, ThoughtAt
<1>4. /\ V \in SUBSET (1..n) /\ R \in SUBSET (1..n)
      /\ VisibleAt(d) = IF ~InThink(s, n + 1) /\ t # "<think>" THEN V \cup {n + 1} ELSE V
      /\ ThoughtAt(d) = IF InThink(s, n + 1) /\ t # "</think>" THEN R \cup {n + 1} ELSE R
  BY <1>1, PlacesAppend
<1>5. \A I \in {V, R} : /\ Pick(d, I) = Pick(s, I)
                        /\ Pick(d, I \cup {n + 1}) = Append(Pick(s, I), t)
  <2>1. ASSUME NEW I \in SUBSET (1..n)
        PROVE  /\ Pick(d, I) = Pick(s, I)
               /\ Pick(d, I \cup {n + 1}) = Append(Pick(s, I), t)
    BY <1>1, PickAppend
  <2> HIDE DEF V, R
  <2> QED
    BY <1>4, <2>1
<1>6. InThink(d, Len(d) + 1) <=> t = "<think>" \/ (InThink(s, n + 1) /\ t # "</think>")
  BY <1>1, InThinkAppend
<1>7. RefVisible(d) = Pick(d, VisibleAt(d)) /\ RefReasoning(d) = Pick(d, ThoughtAt(d))
  BY DEF RefVisible, RefReasoning, VisibleAt, ThoughtAt
<1> HIDE DEF n, d, a, V, R, InThink
<1>8. CASE a.hasUnclosedTag /\ t = "</think>"
  <2>1. ScanToken(a, t) = [a EXCEPT !.hasUnclosedTag = FALSE]
    BY <1>8 DEF ScanToken
  <2>2. /\ ScanToken(a, t).visibleContent = a.visibleContent
        /\ ScanToken(a, t).reasoning = a.reasoning /\ ~ScanToken(a, t).hasUnclosedTag
    BY <1>2, <2>1 DEF Parsed
  <2> QED
    BY <1>2, <1>3, <1>4, <1>5, <1>6, <1>7, <1>8, <2>2 DEF Agrees, d
<1>9. CASE a.hasUnclosedTag /\ t # "</think>"
  <2>1. ScanToken(a, t) = [a EXCEPT !.reasoning = Append(@, t)]
    BY <1>9 DEF ScanToken
  <2>2. /\ ScanToken(a, t).visibleContent = a.visibleContent
        /\ ScanToken(a, t).reasoning = Append(a.reasoning, t)
        /\ ScanToken(a, t).hasUnclosedTag
    BY <1>2, <1>9, <2>1 DEF Parsed
  <2> QED
    BY <1>2, <1>3, <1>4, <1>5, <1>6, <1>7, <1>9, <2>2 DEF Agrees, d
<1>10. CASE ~a.hasUnclosedTag /\ t = "<think>"
  <2>1. ScanToken(a, t) = [a EXCEPT !.hasUnclosedTag = TRUE]
    BY <1>10 DEF ScanToken
  <2>2. /\ ScanToken(a, t).visibleContent = a.visibleContent
        /\ ScanToken(a, t).reasoning = a.reasoning /\ ScanToken(a, t).hasUnclosedTag
    BY <1>2, <2>1 DEF Parsed
  <2> QED
    BY <1>2, <1>3, <1>4, <1>5, <1>6, <1>7, <1>10, <2>2 DEF Agrees, d
<1>11. CASE ~a.hasUnclosedTag /\ t # "<think>"
  <2>1. ScanToken(a, t) = [a EXCEPT !.visibleContent = Append(@, t)]
    BY <1>11 DEF ScanToken
  <2>2. /\ ScanToken(a, t).visibleContent = Append(a.visibleContent, t)
        /\ ScanToken(a, t).reasoning = a.reasoning /\ ~ScanToken(a, t).hasUnclosedTag
    BY <1>2, <1>11, <2>1 DEF Parsed
  <2> QED
    BY <1>2, <1>3, <1>4, <1>5, <1>6, <1>7, <1>11, <2>2 DEF Agrees, d
<1> QED
  BY <1>8, <1>9, <1>10, <1>11 DEF d

\* For every text, whatever the order of its tags: the one pass parseThinkTags
\* makes over it separates visible text and reasoning exactly as the reference
\* definition by positions does (parseThinkTags in message-utils.ts).
THEOREM ParseIsReference ==
  ASSUME NEW s \in Seq(Token)
  PROVE  Agrees(s)
<1> DEFINE T == {n \in Nat : \A v \in Seq(Token) : Len(v) = n => Agrees(v)}
<1>1. 0 \in T
  <2> SUFFICES ASSUME NEW v \in Seq(Token), Len(v) = 0 PROVE Agrees(v)
    OBVIOUS
  <2>1. v = <<>>
    BY EmptySeq
  <2>2. \A I : I = {} => Pick(<<>>, I) = <<>>
    <3>1. Cardinality({}) = 0
      BY FS_EmptySet
    <3> QED
      BY <3>1 DEF Pick
  <2>3. RefVisible(<<>>) = <<>> /\ RefReasoning(<<>>) = <<>>
    BY <2>2 DEF RefVisible, RefReasoning
  <2>4. ~InThink(<<>>, Len(<<>>) + 1)
    BY DEF InThink
  <2> QED
    BY <2>1, <2>3, <2>4, ParseEmpty DEF Agrees, NoTags
<1>2. ASSUME NEW n \in T PROVE n + 1 \in T
  <2> SUFFICES ASSUME NEW v \in Seq(Token), Len(v) = n + 1 PROVE Agrees(v)
    OBVIOUS
  <2>1. PICK p \in Seq(Token), t \in Token : v = Append(p, t) /\ Len(p) = n
    BY TextEnds
  <2>2. Agrees(p)
    BY <2>1
  <2> QED
    BY <2>1, <2>2, AgreesAppend
<1>3. T = Nat
  <2>1. T \in SUBSET Nat
    OBVIOUS
  <2> HIDE DEF T
  <2> QED
    BY <1>1, <1>2, <2>1, NatSetInduction
<1>4. Len(s) \in Nat
  BY LenProperties
<1> QED
  BY <1>3, <1>4

-----------------------------------------------------------------------------
(* The updates of one message                                                 *)

\* Sequences of tokens can be joined, and what the server sends is one.
LEMMA Texts ==
  /\ <<>> \in Seq(Token) /\ <<"error">> \in Seq(Token) /\ <<"edit">> \in Seq(Token)
  /\ <<"text">> \in Seq(Sent)
  /\ \A s \in Seq(Sent) : s \in Seq(Token)
  /\ \A s, t \in Seq(Token) : s \o t \in Seq(Token) /\ FirstNonEmpty(s, t) \in Seq(Token)
  /\ \A c \in ChunkTexts : c \in Seq(Sent)
  /\ \A a \in Answers : a.content \in Seq(Sent) /\ a.reasoning \in Seq(Sent)
<1>1. Sent \subseteq Token
  BY DEF Sent, Token
<1>2. \A s \in Seq(Sent) : s \in Seq(Token)
  BY <1>1, SeqMonotonic
<1>3. \A s, t \in Seq(Token) : s \o t \in Seq(Token) /\ FirstNonEmpty(s, t) \in Seq(Token)
  BY ConcatProperties DEF FirstNonEmpty
<1>4. /\ \A c \in ChunkTexts : c \in Seq(Sent)
      /\ \A a \in Answers : a.content \in Seq(Sent) /\ a.reasoning \in Seq(Sent)
  BY TextsAssumption
<1>5. <<>> \in Seq(Token) /\ <<"error">> \in Seq(Token) /\ <<"edit">> \in Seq(Token)
      /\ <<"text">> \in Seq(Sent)
  BY DEF Token, Sent
<1> QED
  BY <1>2, <1>3, <1>4, <1>5

\* s ends in a half that t completes.
MendedEnd(S, s, t) ==
  \E p \in Seq(S), h \in S \cap Half, u \in Seq(S) :
     s = Append(p, h) /\ Join(s, t) = Append(p, Mended(h)) \o u

\* Two strings are joined token by token, or the halves of a tag become one.
LEMMA JoinIs ==
  ASSUME NEW S, "<think>" \in S, "</think>" \in S, NEW s \in Seq(S), NEW t \in Seq(S)
  PROVE  Join(s, t) = s \o t \/ MendedEnd(S, s, t)
<1>1. CASE s # <<>> /\ t # <<>> /\ Last(s) \in Half /\ Head(t) = "nk>"
  <2> DEFINE p == Front(s)
             h == Last(s)
             u == Tail(t)
  <2>1. Len(s) \in Nat /\ Len(s) # 0
    BY <1>1, EmptySeq, LenProperties
  <2>2. p \in Seq(S) /\ h \in S
    BY <2>1, ElementOfSeq DEF Front, Last
  <2>3. s = Append(p, h)
    <3>1. PICK q \in Seq(S), g \in S : s = Append(q, g) /\ Len(q) = Len(s) - 1
      <4>1. Len(s) - 1 \in Nat /\ Len(s) = (Len(s) - 1) + 1
        BY <2>1
      <4> QED
        BY <4>1, TextEnds
    <3>2. h = g
      BY <2>1, <3>1, AppendProperties DEF Last
    <3>3. Len(p) = Len(q) /\ \A i \in 1..Len(q) : p[i] = q[i]
      BY <2>1, <3>1, AppendProperties DEF Front
    <3>4. p = q
      BY <2>2, <3>1, <3>3, SeqEqual
    <3> QED
      BY <3>1, <3>2, <3>4
  <2>4. u \in Seq(S)
    BY <1>1
  <2>5. Join(s, t) = p \o <<Mended(h)>> \o u /\ h \in Half
    BY <1>1 DEF Join
  <2>6. Mended(h) \in S
    BY DEF Mended
  <2> HIDE DEF p, h, u
  <2>7. p \o <<Mended(h)>> = Append(p, Mended(h))
    BY <2>2, <2>6
  <2> QED
    BY <2>2, <2>3, <2>4, <2>5, <2>7 DEF MendedEnd
<1>2. CASE ~(s # <<>> /\ t # <<>> /\ Last(s) \in Half /\ Head(t) = "nk>")
  BY <1>2 DEF Join
<1> QED
  BY <1>1, <1>2

\* Joining makes a text, of which nothing is lost.
LEMMA JoinTyped ==
  ASSUME NEW S, "<think>" \in S, "</think>" \in S, NEW s \in Seq(S), NEW t \in Seq(S)
  PROVE  /\ Join(s, t) \in Seq(S)
         /\ Join(s, t) = <<>> => s = <<>> /\ t = <<>>
         /\ Join(s, <<>>) = s
<1>1. Join(s, <<>>) = s
  BY ConcatEmptySeq DEF Join
<1>2. CASE Join(s, t) = s \o t
  BY <1>1, <1>2, ConcatProperties, ConcatEqualIffEmpty
<1>3. ASSUME NEW p \in Seq(S), NEW h \in S \cap Half, NEW u \in Seq(S),
             Join(s, t) = Append(p, Mended(h)) \o u
      PROVE  Join(s, t) \in Seq(S) /\ Join(s, t) # <<>>
  <2> DEFINE q == Append(p, Mended(h))
  <2>1. Mended(h) \in S
    BY DEF Mended
  <2>2. q \in Seq(S) /\ q # <<>>
    BY <2>1, AppendProperties
  <2> HIDE DEF q
  <2>3. q \o u \in Seq(S) /\ q \o u # <<>>
    BY <2>2, ConcatProperties, ConcatEqualIffEmpty
  <2> QED
    BY <1>3, <2>3 DEF q
<1>4. Join(s, t) = s \o t \/ MendedEnd(S, s, t)
  BY JoinIs
<1>5. CASE MendedEnd(S, s, t)
  BY <1>1, <1>3, <1>5 DEF MendedEnd
<1> QED
  BY <1>2, <1>4, <1>5

\* The two halves of a tag are no tags, and the tags are tokens.
LEMMA Tags ==
  /\ "<think>" \in Token /\ "</think>" \in Token
  /\ "<think>" \in Sent /\ "</think>" \in Sent
  BY DEF Token, Sent

\* What is left of the reasoning when a chunk completes a tag that was cut: an
\* empty think part whose closing tag was cut had the half of it as reasoning.
LEMMA JoinReasons ==
  ASSUME NEW s \in Seq(Token), NEW t \in Seq(Token),
         parseThinkTags(Join(s, t)).reasoning = <<>>
  PROVE  parseThinkTags(s).reasoning \in {<<>>, <<"</thi">>}
<1>1. CASE Join(s, t) = s \o t
  BY <1>1, ReasoningStays
<1>2. ASSUME NEW p \in Seq(Token), NEW h \in Token \cap Half, NEW u \in Seq(Token),
             s = Append(p, h), Join(s, t) = Append(p, Mended(h)) \o u
      PROVE  parseThinkTags(s).reasoning \in {<<>>, <<"</thi">>}
  <2> DEFINE q == Append(p, Mended(h))
             a == parseThinkTags(p)
  <2>1. Mended(h) \in Token
    BY Tags DEF Mended
  <2>2. q \in Seq(Token)
    BY <2>1, AppendProperties
  <2> HIDE DEF q
  <2>3. parseThinkTags(q).reasoning = <<>>
    BY <1>2, <2>2, ReasoningStays DEF q
  <2>4. a \in Parsed
    BY ParseTyped
  <2>5. parseThinkTags(q) = ScanToken(a, Mended(h)) /\ parseThinkTags(s) = ScanToken(a, h)
    BY <1>2, <2>1, ParseAppend DEF q
  <2> HIDE DEF a
  <2>6. a.reasoning \in Seq(Token)
    BY <2>4 DEF Parsed
  <2>7. \A k \in Token : Append(a.reasoning, k) # <<>>
    BY <2>6, AppendProperties
  <2>8. CASE a.hasUnclosedTag
    <3>1. Mended(h) = "</think>"
      <4>1. ASSUME Mended(h) # "</think>"
            PROVE  ScanToken(a, Mended(h)).reasoning = Append(a.reasoning, Mended(h))
        BY <2>4, <2>8, <4>1 DEF ScanToken, Parsed
      <4> QED
        BY <2>1, <2>3, <2>5, <2>7, <4>1
    <3>2. h = "</thi"
      BY <3>1 DEF Mended, Half
    <3>3. ScanToken(a, "</think>").reasoning = a.reasoning
      BY <2>4, <2>8 DEF ScanToken, Parsed
    <3>4. a.reasoning = <<>>
      BY <2>3, <2>5, <3>1, <3>3
    <3>5. ScanToken(a, "</thi").reasoning = Append(a.reasoning, "</thi")
      BY <2>4, <2>8 DEF ScanToken, Parsed
    <3>6. Append(a.reasoning, "</thi") = <<"</thi">>
      BY <3>4
    <3>7. parseThinkTags(s).reasoning = <<"</thi">>
      BY <2>5, <3>2, <3>5, <3>6
    <3> QED
      BY <3>7
  <2>9. CASE ~a.hasUnclosedTag
    <3>1. h # "<think>"
      BY DEF Half
    <3>2. /\ ScanToken(a, Mended(h)).reasoning = a.reasoning
          /\ ScanToken(a, h).reasoning = a.reasoning
      BY <2>4, <2>9, <3>1 DEF ScanToken, Parsed
    <3> QED
      BY <2>3, <2>5, <3>2
  <2> QED
    BY <2>8, <2>9
<1>3. Join(s, t) = s \o t \/ MendedEnd(Token, s, t)
  BY JoinIs, Tags
<1>4. CASE MendedEnd(Token, s, t)
  BY <1>2, <1>4 DEF MendedEnd
<1> QED
  BY <1>1, <1>3, <1>4

\* A text that goes on keeps its tags.
LEMMA JoinThinks ==
  ASSUME NEW s \in Seq(Token), NEW t \in Seq(Token), "<think>" \notin Range(Join(s, t))
  PROVE  "<think>" \notin Range(s)
<1> SUFFICES ASSUME NEW i \in 1..Len(s), s[i] = "<think>" PROVE FALSE
  BY DEF Range
<1>1. CASE Join(s, t) = s \o t
  <2>1. i \in DOMAIN (s \o t) /\ (s \o t)[i] = s[i]
    BY ConcatProperties, LenProperties
  <2> QED
    BY <1>1, <2>1 DEF Range
<1>2. ASSUME NEW p \in Seq(Token), NEW h \in Token \cap Half, NEW u \in Seq(Token),
             s = Append(p, h), Join(s, t) = Append(p, Mended(h)) \o u
      PROVE  FALSE
  <2> DEFINE q == Append(p, Mended(h))
  <2>1. Mended(h) \in Token /\ h # "<think>"
    BY Tags DEF Mended, Half
  <2>2. /\ q \in Seq(Token) /\ Len(q) = Len(p) + 1 /\ Len(s) = Len(p) + 1
        /\ \A k \in 1..Len(p) : q[k] = p[k] /\ s[k] = p[k]
        /\ s[Len(p) + 1] = h
    BY <1>2, <2>1, AppendProperties
  <2> HIDE DEF q
  <2>3. Len(p) \in Nat
    BY LenProperties
  <2>4. i \in 1..Len(p) /\ i \in 1..Len(q)
    BY <2>1, <2>2, <2>3
  <2>5. i \in DOMAIN (q \o u) /\ (q \o u)[i] = q[i]
    BY <2>2, <2>4, ConcatProperties, LenProperties
  <2> QED
    BY <1>2, <2>2, <2>4, <2>5 DEF Range, q
<1>3. Join(s, t) = s \o t \/ MendedEnd(Token, s, t)
  BY JoinIs, Tags
<1>4. CASE MendedEnd(Token, s, t)
  BY <1>2, <1>4 DEF MendedEnd
<1> QED
  BY <1>1, <1>3, <1>4

\* Without an opening tag there is no reasoning.
LEMMA NoThink ==
  ASSUME NEW s \in Seq(Token), "<think>" \notin Range(s)
  PROVE  parseThinkTags(s).reasoning = <<>>
<1>1. \A i \in DOMAIN s : ~InThink(s, i)
  <2> SUFFICES ASSUME NEW i \in 1..Len(s), NEW j \in 1..(i - 1), s[j] = "<think>"
               PROVE  FALSE
    BY LenProperties DEF InThink
  <2>1. j \in DOMAIN s
    BY LenProperties
  <2> QED
    BY <2>1 DEF Range
<1>2. {i \in DOMAIN s : InThink(s, i) /\ s[i] # "</think>"} = {}
  BY <1>1
<1>3. Pick(s, {}) = <<>>
  BY FS_EmptySet DEF Pick
<1>4. RefReasoning(s) = <<>>
  BY <1>2, <1>3 DEF RefReasoning
<1> QED
  BY <1>4, ParseIsReference DEF Agrees

\* The fields of a message.
LEMMA MessageFields ==
  ASSUME NEW m \in Message
  PROVE  /\ m.key \in Requests /\ m.from \in {"user", "assistant"} /\ m.status \in Status
         /\ m.content \in Seq(Token) /\ m.reasoning \in Seq(Token)
         /\ m.isReasoningStreaming \in BOOLEAN
  BY DEF Message

\* An update of a message: the same message, whatever it says now.
IsUpdate(m, n) == n \in Message /\ n.from = m.from /\ n.key = m.key

\* Setting the status.
LEMMA SetStatus ==
  ASSUME NEW m \in Message, NEW st \in Status
  PROVE  /\ IsUpdate(m, [m EXCEPT !.status = st])
         /\ [m EXCEPT !.status = st].status = st
  BY DEF Message, IsUpdate

\* Setting the content.
LEMMA SetContent ==
  ASSUME NEW m \in Message, NEW c \in Seq(Token)
  PROVE  /\ IsUpdate(m, [m EXCEPT !.content = c])
         /\ [m EXCEPT !.content = c].status = m.status
  BY DEF Message, IsUpdate

\* Setting content, reasoning and the flag that reasoning goes on.
LEMMA SetText ==
  ASSUME NEW m \in Message, NEW c \in Seq(Token), NEW t \in Seq(Token), NEW b \in BOOLEAN
  PROVE  /\ IsUpdate(m, [m EXCEPT !.content = c, !.reasoning = t, !.isReasoningStreaming = b])
         /\ [m EXCEPT !.content = c, !.reasoning = t, !.isReasoningStreaming = b].status
              = m.status
<1> DEFINE p == [m EXCEPT !.content = c]
<1>1. IsUpdate(m, p) /\ p.status = m.status
  BY SetContent
<1>2. [m EXCEPT !.content = c, !.reasoning = t, !.isReasoningStreaming = b]
        = [p EXCEPT !.reasoning = t, !.isReasoningStreaming = b]
  BY DEF Message
<1> HIDE DEF p
<1> DEFINE q == [p EXCEPT !.reasoning = t]
<1>3. IsUpdate(m, q) /\ q.status = m.status
  BY <1>1 DEF IsUpdate, Message
<1>4. [p EXCEPT !.reasoning = t, !.isReasoningStreaming = b]
        = [q EXCEPT !.isReasoningStreaming = b]
  BY <1>1 DEF Message, IsUpdate
<1> HIDE DEF q
<1>5. /\ IsUpdate(m, [q EXCEPT !.isReasoningStreaming = b])
      /\ [q EXCEPT !.isReasoningStreaming = b].status = m.status
  BY <1>3 DEF IsUpdate, Message
<1> QED
  BY <1>2, <1>4, <1>5

\* A chunk of reasoning.
LEMMA SetReasoning ==
  ASSUME NEW m \in Message, NEW t \in Seq(Token), NEW b \in BOOLEAN, NEW st \in Status
  PROVE  IsUpdate(m, [m EXCEPT !.reasoning = t, !.isReasoningStreaming = b, !.status = st])
<1> DEFINE p == [m EXCEPT !.reasoning = t]
           q == [p EXCEPT !.isReasoningStreaming = b]
<1>1. IsUpdate(m, p)
  BY DEF IsUpdate, Message
<1>2. [m EXCEPT !.reasoning = t, !.isReasoningStreaming = b, !.status = st]
        = [q EXCEPT !.status = st]
  BY DEF Message
<1> HIDE DEF p
<1>3. IsUpdate(m, q)
  BY <1>1 DEF IsUpdate, Message
<1> HIDE DEF q
<1> QED
  BY <1>2, <1>3, SetStatus DEF IsUpdate

\* The message of a generation that failed.
LEMMA SetError ==
  ASSUME NEW m \in Message
  PROVE  LET e == [m EXCEPT !.content = <<"error">>, !.status = "error",
                            !.isReasoningStreaming = FALSE]
         IN  IsUpdate(m, e) /\ e.status = "error"
<1> DEFINE p == [m EXCEPT !.content = <<"error">>]
           q == [p EXCEPT !.status = "error"]
<1>0. <<"error">> \in Seq(Token) /\ "error" \in Status
  BY Texts DEF Status
<1>1. IsUpdate(m, p)
  BY <1>0, SetContent
<1>2. [m EXCEPT !.content = <<"error">>, !.status = "error", !.isReasoningStreaming = FALSE]
        = [q EXCEPT !.isReasoningStreaming = FALSE]
  BY DEF Message
<1> HIDE DEF p
<1>3. IsUpdate(m, q) /\ q.status = "error"
  BY <1>0, <1>1, SetStatus DEF IsUpdate
<1> HIDE DEF q
<1>4. /\ IsUpdate(m, [q EXCEPT !.isReasoningStreaming = FALSE])
      /\ [q EXCEPT !.isReasoningStreaming = FALSE].status = "error"
  BY <1>3 DEF IsUpdate, Message
<1> QED
  BY <1>2, <1>4

\* The same for a message that was finalized.
LEMMA SetContentStatus ==
  ASSUME NEW m \in Message, NEW c \in Seq(Token), NEW st \in Status
  PROVE  /\ IsUpdate(m, [m EXCEPT !.content = c, !.status = st])
         /\ [m EXCEPT !.content = c, !.status = st].status = st
<1> DEFINE p == [m EXCEPT !.content = c]
<1>1. IsUpdate(m, p)
  BY SetContent
<1>2. [m EXCEPT !.content = c, !.status = st] = [p EXCEPT !.status = st]
  BY DEF Message
<1> HIDE DEF p
<1> QED
  BY <1>1, <1>2, SetStatus DEF IsUpdate

\* finalizeMessage leaves the status alone.
LEMMA FinalizeTyped ==
  ASSUME NEW m \in Message, NEW a \in Seq(Token)
  PROVE  IsUpdate(m, finalizeMessage(m, a)) /\ finalizeMessage(m, a).status = m.status
<1>1. m.content \in Seq(Token) /\ m.reasoning \in Seq(Token)
  BY MessageFields
<1> DEFINE parsed == parseThinkTags(m.content)
           t == FirstNonEmpty(a, FirstNonEmpty(m.reasoning, parsed.reasoning))
<1>2. parsed \in Parsed
  BY <1>1, ParseTyped
<1> HIDE DEF parsed
<1>3. parsed.visibleContent \in Seq(Token) /\ parsed.reasoning \in Seq(Token)
  BY <1>2 DEF Parsed
<1>4. t \in Seq(Token)
  BY <1>1, <1>3, Texts
<1>5. finalizeMessage(m, a)
        = [m EXCEPT !.content = parsed.visibleContent, !.reasoning = t,
                    !.isReasoningStreaming = FALSE]
  BY DEF finalizeMessage, parsed
<1> HIDE DEF t
<1>6. /\ IsUpdate(m, [m EXCEPT !.content = parsed.visibleContent, !.reasoning = t,
                               !.isReasoningStreaming = FALSE])
      /\ [m EXCEPT !.content = parsed.visibleContent, !.reasoning = t,
                   !.isReasoningStreaming = FALSE].status = m.status
  BY <1>3, <1>4, SetText
<1> QED
  BY <1>5, <1>6

\* So does processStreamingContent.
LEMMA StreamingTyped ==
  ASSUME NEW m \in Message, NEW chunk \in Seq(Token)
  PROVE  IsUpdate(m, processStreamingContent(m, chunk))
<1>1. m.content \in Seq(Token) /\ m.reasoning \in Seq(Token)
  BY MessageFields
<1> DEFINE full == Join(m.content, chunk)
           parsed == parseThinkTags(full)
           t == FirstNonEmpty(parsed.reasoning, m.reasoning)
<1>2. full \in Seq(Token)
  BY <1>1, JoinTyped, Tags
<1> HIDE DEF full
<1>3. parsed \in Parsed
  BY <1>2, ParseTyped
<1> HIDE DEF parsed
<1>4. parsed.reasoning \in Seq(Token) /\ parsed.hasUnclosedTag \in BOOLEAN
  BY <1>3 DEF Parsed
<1>5. t \in Seq(Token)
  BY <1>1, <1>4, Texts
<1>6. processStreamingContent(m, chunk)
        = [m EXCEPT !.content = full, !.reasoning = t,
                    !.isReasoningStreaming = parsed.hasUnclosedTag]
  BY DEF processStreamingContent, parsed, full
<1> HIDE DEF t
<1>7. IsUpdate(m, [m EXCEPT !.content = full, !.reasoning = t,
                            !.isReasoningStreaming = parsed.hasUnclosedTag])
  BY <1>2, <1>4, <1>5, SetText
<1> QED
  BY <1>6, <1>7

\* Every callback makes a message of a message; the ones that end a generation
\* make a settled one.
LEMMA CallbackUpdates ==
  ASSUME NEW m \in Message
  PROVE  /\ \A type \in {"reasoning", "content"}, chunk \in Seq(Sent) :
              IsUpdate(m, StreamUpdate(m, type, chunk))
         /\ IsUpdate(m, StreamComplete(m)) /\ ~Unsettled(StreamComplete(m))
         /\ IsUpdate(m, StopMessage(m)) /\ ~Unsettled(StopMessage(m))
         /\ \A answer \in Answers : /\ IsUpdate(m, AnswerMessage(m, answer))
                                     /\ ~Unsettled(AnswerMessage(m, answer))
<1>s. "streaming" \in Status /\ "complete" \in Status
  BY DEF Status
<1>e. <<>> \in Seq(Token)
  BY Texts
<1>m. IsUpdate(m, m)
  BY DEF IsUpdate
<1>1. ASSUME NEW type \in {"reasoning", "content"}, NEW chunk \in Seq(Sent)
      PROVE  IsUpdate(m, StreamUpdate(m, type, chunk))
  <2>1. chunk \in Seq(Token) /\ Join(m.reasoning, chunk) \in Seq(Token)
    BY Texts, MessageFields, JoinTyped, Tags
  <2>2. IsUpdate(m, [m EXCEPT !.reasoning = Join(m.reasoning, chunk),
                              !.isReasoningStreaming = TRUE, !.status = "streaming"])
    BY <1>s, <2>1, SetReasoning
  <2> DEFINE p == processStreamingContent(m, chunk)
  <2>3. IsUpdate(m, p)
    BY <2>1, StreamingTyped
  <2> HIDE DEF p
  <2>4. IsUpdate(m, [p EXCEPT !.status = "streaming"])
    BY <1>s, <2>3, SetStatus DEF IsUpdate
  <2> QED
    BY <1>m, <2>2, <2>4 DEF StreamUpdate, p
<1>2. IsUpdate(m, StreamComplete(m)) /\ ~Unsettled(StreamComplete(m))
  <2> DEFINE f == finalizeMessage(m, <<>>)
  <2>1. IsUpdate(m, f)
    BY <1>e, FinalizeTyped
  <2> HIDE DEF f
  <2>2. /\ IsUpdate(m, [f EXCEPT !.status = "complete"])
        /\ [f EXCEPT !.status = "complete"].status = "complete"
    BY <1>s, <2>1, SetStatus DEF IsUpdate
  <2> QED
    BY <1>m, <2>2 DEF StreamComplete, Unsettled, f
<1>3. IsUpdate(m, StopMessage(m)) /\ ~Unsettled(StopMessage(m))
  <2> DEFINE f == finalizeMessage(m, <<>>)
  <2>1. IsUpdate(m, f)
    BY <1>e, FinalizeTyped
  <2> HIDE DEF f
  <2>2. /\ IsUpdate(m, [f EXCEPT !.status = "complete"])
        /\ [f EXCEPT !.status = "complete"].status = "complete"
    BY <1>s, <2>1, SetStatus DEF IsUpdate
  <2> QED
    BY <1>m, <2>2 DEF StopMessage, Unsettled, f
<1>4. ASSUME NEW answer \in Answers
      PROVE  IsUpdate(m, AnswerMessage(m, answer)) /\ ~Unsettled(AnswerMessage(m, answer))
  <2> DEFINE a == [m EXCEPT !.content = answer.content]
             f == finalizeMessage(a, answer.reasoning)
  <2>0. answer.content \in Seq(Token) /\ answer.reasoning \in Seq(Token)
    BY Texts
  <2>1. IsUpdate(m, a)
    BY <2>0, SetContent
  <2> HIDE DEF a
  <2>2. IsUpdate(m, f)
    BY <2>0, <2>1, FinalizeTyped DEF IsUpdate
  <2> HIDE DEF f
  <2>3. /\ IsUpdate(m, [f EXCEPT !.status = "complete"])
        /\ [f EXCEPT !.status = "complete"].status = "complete"
    BY <1>s, <2>2, SetStatus DEF IsUpdate
  <2> QED
    BY <2>3 DEF AnswerMessage, Unsettled, f, a
<1> QED
  BY <1>1, <1>2, <1>3, <1>4

-----------------------------------------------------------------------------
(* The updates of the list                                                    *)

\* No message of the list waits for its generation.
Settled(list) == \A i \in 1..Len(list) : ~Unsettled(list[i])

\* At most the last one does.
OnlyLast(list) == \A i \in 1..Len(list) : Unsettled(list[i]) => i = Len(list)

\* The last message of a list.
LEMMA LastTyped ==
  ASSUME NEW list \in Seq(Message), list # <<>>
  PROVE  Len(list) \in 1..Len(list) /\ Last(list) = list[Len(list)] /\ Last(list) \in Message
  BY EmptySeq, LenProperties, ElementOfSeq DEF Last

\* Replacing a message by an update of it.
LEMMA ReplaceTyped ==
  ASSUME NEW list \in Seq(Message), NEW i \in 1..Len(list), NEW m \in Message
  PROVE  /\ ReplaceAt(list, i, m) \in Seq(Message)
         /\ Len(ReplaceAt(list, i, m)) = Len(list)
         /\ ReplaceAt(list, i, m)[i] = m
         /\ \A k \in 1..Len(list) : k # i => ReplaceAt(list, i, m)[k] = list[k]
<1>1. ReplaceAt(list, i, m) = [list EXCEPT ![i] = m]
  BY DEF ReplaceAt
<1>2. /\ [list EXCEPT ![i] = m] \in Seq(Message)
      /\ Len([list EXCEPT ![i] = m]) = Len(list)
  BY ExceptSeq
<1>3. DOMAIN list = 1..Len(list)
  BY LenProperties
<1> QED
  BY <1>1, <1>2, <1>3

\* updateLastAssistantMessage changes the last message at most; when that
\* settles it, a list in which only the last message was unsettled is settled.
LEMMA UpdateLast ==
  ASSUME NEW list \in Seq(Message), NEW m,
         list # <<>> => IsUpdate(Last(list), m)
  PROVE  /\ updateLastAssistantMessage(list, m) \in Seq(Message)
         /\ OnlyLast(list) => OnlyLast(updateLastAssistantMessage(list, m))
         /\ OnlyLast(list) /\ (list # <<>> => ~Unsettled(m)) =>
              Settled(updateLastAssistantMessage(list, m))
<1>1. CASE list # <<>> /\ Last(list).from = "assistant"
  <2>1. Len(list) \in 1..Len(list) /\ m \in Message
    BY <1>1, LastTyped DEF IsUpdate
  <2>2. updateLastAssistantMessage(list, m) = ReplaceAt(list, Len(list), m)
    BY <1>1 DEF updateLastAssistantMessage
  <2> DEFINE new == ReplaceAt(list, Len(list), m)
  <2>3. /\ new \in Seq(Message) /\ Len(new) = Len(list) /\ new[Len(list)] = m
        /\ \A k \in 1..Len(list) : k # Len(list) => new[k] = list[k]
    BY <2>1, ReplaceTyped
  <2> HIDE DEF Unsettled, new
  <2>4. new \in Seq(Message) /\ (OnlyLast(list) => OnlyLast(new))
    BY <2>3 DEF OnlyLast
  <2>5. OnlyLast(list) /\ ~Unsettled(m) => Settled(new)
    BY <2>3 DEF OnlyLast, Settled
  <2> QED
    BY <1>1, <2>2, <2>4, <2>5 DEF new
<1>2. CASE ~(list # <<>> /\ Last(list).from = "assistant")
  <2>1. updateLastAssistantMessage(list, m) = list
    BY <1>2 DEF updateLastAssistantMessage
  <2>2. CASE list = <<>>
    BY <2>1, <2>2 DEF OnlyLast, Settled
  <2>3. CASE list # <<>>
    <3>1. ~Unsettled(list[Len(list)])
      BY <1>2, <2>3, LastTyped DEF Unsettled
    <3> HIDE DEF Unsettled
    <3> QED
      BY <2>1, <3>1 DEF OnlyLast, Settled
  <2> QED
    BY <2>2, <2>3
<1> QED
  BY <1>1, <1>2

\* updateAssistantMessageWithError settles the list.
LEMMA ErrorUpdate ==
  ASSUME NEW list \in Seq(Message)
  PROVE  /\ updateAssistantMessageWithError(list) \in Seq(Message)
         /\ OnlyLast(list) => Settled(updateAssistantMessageWithError(list))
<1> DEFINE m == [Last(list) EXCEPT !.content = <<"error">>, !.status = "error",
                                   !.isReasoningStreaming = FALSE]
<1>1. ASSUME list # <<>> PROVE IsUpdate(Last(list), m) /\ m.status = "error"
  <2>1. Last(list) \in Message
    BY <1>1, LastTyped
  <2> QED
    BY <2>1, SetError
<1>2. updateAssistantMessageWithError(list) = updateLastAssistantMessage(list, m)
  BY DEF updateAssistantMessageWithError
<1> HIDE DEF m
<1> QED
  BY <1>1, <1>2, UpdateLast DEF Unsettled

\* The messages a generation adds.
LEMMA NewMessages ==
  ASSUME NEW r \in Requests
  PROVE  /\ createUserMessage(r) \in Message /\ ~Unsettled(createUserMessage(r))
         /\ createLoadingAssistantMessage(r) \in Message
<1>1. <<"text">> \in Seq(Token) /\ <<>> \in Seq(Token)
  BY Texts
<1> QED
  BY <1>1 DEF createUserMessage, createLoadingAssistantMessage, Message, Status, Unsettled

\* A settled list with a new message at its end.
LEMMA AppendLoading ==
  ASSUME NEW list \in Seq(Message), NEW m \in Message
  PROVE  /\ Append(list, m) \in Seq(Message)
         /\ Settled(list) => OnlyLast(Append(list, m))
         /\ Settled(list) /\ ~Unsettled(m) => Settled(Append(list, m))
<1>1. /\ Append(list, m) \in Seq(Message) /\ Len(Append(list, m)) = Len(list) + 1
      /\ \A i \in 1..Len(list) : Append(list, m)[i] = list[i]
      /\ Append(list, m)[Len(list) + 1] = m /\ Len(list) \in Nat
  BY AppendProperties, LenProperties
<1>2. \A i \in 1..(Len(list) + 1) : i \in 1..Len(list) \/ i = Len(list) + 1
  BY <1>1
<1> HIDE DEF Unsettled
<1> QED
  BY <1>1, <1>2 DEF OnlyLast, Settled

\* handleSendMessage adds two messages.
LEMMA SendList ==
  ASSUME NEW list \in Seq(Message), NEW r \in Requests
  PROVE  LET new == list \o <<createUserMessage(r), createLoadingAssistantMessage(r)>>
         IN  new \in Seq(Message) /\ (Settled(list) => OnlyLast(new))
<1> DEFINE u == createUserMessage(r)
           a == createLoadingAssistantMessage(r)
<1>1. u \in Message /\ ~Unsettled(u) /\ a \in Message
  BY NewMessages
<1> HIDE DEF u, a
<1>2. list \o <<u, a>> = Append(Append(list, u), a)
  BY <1>1
<1>3. /\ Append(list, u) \in Seq(Message) /\ (Settled(list) => Settled(Append(list, u)))
  BY <1>1, AppendLoading
<1>4. /\ Append(Append(list, u), a) \in Seq(Message)
      /\ Settled(Append(list, u)) => OnlyLast(Append(Append(list, u), a))
  BY <1>1, <1>3, AppendLoading
<1> QED
  BY <1>2, <1>3, <1>4 DEF u, a

\* The part of a list before a message, and up to it.
LEMMA PrefixList ==
  ASSUME NEW list \in Seq(Message), NEW i \in 0..Len(list)
  PROVE  /\ SubSeq(list, 1, i) \in Seq(Message)
         /\ Settled(list) => Settled(SubSeq(list, 1, i))
<1>1. Len(list) \in Nat
  BY LenProperties
<1>2. /\ SubSeq(list, 1, i) \in Seq(Message) /\ Len(SubSeq(list, 1, i)) = i
      /\ \A k \in 1..i : SubSeq(list, 1, i)[k] = list[k]
  BY <1>1
<1> HIDE DEF Unsettled
<1> QED
  BY <1>1, <1>2 DEF Settled

\* handleDeleteMessage removes one.
LEMMA RemoveList ==
  ASSUME NEW list \in Seq(Message), NEW i \in 1..Len(list)
  PROVE  /\ RemoveAt(list, i) \in Seq(Message)
         /\ Settled(list) => Settled(RemoveAt(list, i))
<1>0. Len(list) \in Nat /\ i \in Nat
  BY LenProperties
<1> DEFINE p == SubSeq(list, 1, i - 1)
           q == SubSeq(list, i + 1, Len(list))
<1>1. /\ p \in Seq(Message) /\ Len(p) = i - 1
      /\ \A k \in 1..(i - 1) : p[k] = list[k]
  BY <1>0
<1>2. /\ q \in Seq(Message) /\ Len(q) = Len(list) - i
      /\ \A k \in 1..(Len(list) - i) : q[k] = list[k + i]
  BY <1>0
<1>3. RemoveAt(list, i) = p \o q
  BY DEF RemoveAt
<1> HIDE DEF p, q
<1>4. /\ p \o q \in Seq(Message) /\ Len(p \o q) = Len(p) + Len(q)
      /\ \A k \in 1..(Len(p) + Len(q)) :
           (p \o q)[k] = IF k <= Len(p) THEN p[k] ELSE q[k - Len(p)]
  BY <1>1, <1>2, ConcatProperties
<1>5. ASSUME Settled(list), NEW k \in 1..Len(p \o q) PROVE ~Unsettled((p \o q)[k])
  <2>1. CASE k <= i - 1
    <3>1. k \in 1..(i - 1) /\ k \in 1..Len(list)
      BY <1>0, <1>1, <1>2, <1>4, <2>1
    <3>2. (p \o q)[k] = list[k]
      BY <1>1, <1>4, <2>1, <3>1
    <3> QED
      BY <1>5, <3>1, <3>2 DEF Settled
  <2>2. CASE ~(k <= i - 1)
    <3>1. /\ k - (i - 1) \in 1..(Len(list) - i) /\ k - (i - 1) + i \in 1..Len(list)
      BY <1>0, <1>1, <1>2, <1>4, <2>2
    <3>2. (p \o q)[k] = list[k - (i - 1) + i]
      BY <1>1, <1>2, <1>4, <2>2, <3>1
    <3> QED
      BY <1>5, <3>1, <3>2 DEF Settled
  <2> QED
    BY <2>1, <2>2
<1> QED
  BY <1>3, <1>4, <1>5 DEF Settled

\* applyEdit changes the text of a message and nothing else.
LEMMA EditList ==
  ASSUME NEW list \in Seq(Message), NEW i \in 1..Len(list)
  PROVE  /\ Edited(list, i) \in Seq(Message) /\ Len(Edited(list, i)) = Len(list)
         /\ Settled(list) => Settled(Edited(list, i))
<1> DEFINE m == [list[i] EXCEPT !.content = <<"edit">>]
<1>1. list[i] \in Message
  BY ElementOfSeq
<1>2. IsUpdate(list[i], m) /\ m.status = list[i].status
  BY <1>1, SetContent, Texts
<1>3. Edited(list, i) = ReplaceAt(list, i, m)
  BY DEF Edited, ReplaceAt
<1> HIDE DEF m
<1>4. /\ ReplaceAt(list, i, m) \in Seq(Message)
      /\ Len(ReplaceAt(list, i, m)) = Len(list)
      /\ ReplaceAt(list, i, m)[i] = m
      /\ \A k \in 1..Len(list) : k # i => ReplaceAt(list, i, m)[k] = list[k]
  BY <1>2, ReplaceTyped DEF IsUpdate
<1>5. Unsettled(m) <=> Unsettled(list[i])
  BY <1>2 DEF IsUpdate, Unsettled
<1> HIDE DEF Unsettled
<1> QED
  BY <1>3, <1>4, <1>5 DEF Settled

\* sanitizeMessagesOnLoad settles a list in which only the last message is
\* unsettled.
LEMMA SanitizeList ==
  ASSUME NEW list \in Seq(Message)
  PROVE  /\ sanitizeMessagesOnLoad(list) \in Seq(Message)
         /\ OnlyLast(list) => Settled(sanitizeMessagesOnLoad(list))
<1> DEFINE I == {i \in 1..Len(list) : Unsettled(list[i])}
           target == SelectLastInSeq(list, Unsettled)
<1>0. Len(list) \in Nat
  BY LenProperties
<1>1. target = IF I # {} THEN Max(I) ELSE 0
  BY DEF SelectLastInSeq
<1> HIDE DEF target
<1>2. CASE I = {}
  <2>1. sanitizeMessagesOnLoad(list) = list
    BY <1>1, <1>2 DEF sanitizeMessagesOnLoad, target
  <2> QED
    BY <1>2, <2>1 DEF Settled
<1>3. CASE I # {}
  <2>1. target \in I /\ target \in 1..Len(list)
    BY <1>0, <1>1, <1>3, MaxIsLast
  <2>2. list[target] \in Message
    BY <2>1, ElementOfSeq
  <2> DEFINE done == finalizeMessage(list[target], <<>>)
             m == IF done.content # <<>> \/ done.reasoning # <<>>
                  THEN [done EXCEPT !.status = "complete"]
                  ELSE [done EXCEPT !.content = <<"error">>, !.status = "error"]
  <2>3. done \in Message
    BY <2>2, FinalizeTyped, Texts DEF IsUpdate
  <2> HIDE DEF done
  <2>4. m \in Message /\ m.status \in {"complete", "error"}
    <3>1. <<"error">> \in Seq(Token) /\ "error" \in Status /\ "complete" \in Status
      BY Texts DEF Status
    <3>2. /\ [done EXCEPT !.status = "complete"] \in Message
          /\ [done EXCEPT !.status = "complete"].status = "complete"
      BY <2>3, <3>1, SetStatus DEF IsUpdate
    <3>3. /\ [done EXCEPT !.content = <<"error">>, !.status = "error"] \in Message
          /\ [done EXCEPT !.content = <<"error">>, !.status = "error"].status = "error"
      BY <2>3, <3>1, SetContentStatus DEF IsUpdate
    <3> QED
      BY <3>2, <3>3
  <2> HIDE DEF m
  <2>5. sanitizeMessagesOnLoad(list) = ReplaceAt(list, target, m)
    <3>1. target # 0
      BY <1>0, <2>1
    <3> QED
      BY <3>1 DEF sanitizeMessagesOnLoad, target, m, done
  <2>6. ~Unsettled(m)
    BY <2>4 DEF Unsettled
  <2> HIDE DEF Unsettled
  <2>7. OnlyLast(list) => \A k \in 1..Len(list) : k # target => ~Unsettled(list[k])
    BY <2>1 DEF OnlyLast
  <2> DEFINE new == ReplaceAt(list, target, m)
  <2>8. /\ new \in Seq(Message) /\ Len(new) = Len(list) /\ new[target] = m
        /\ \A k \in 1..Len(list) : k # target => new[k] = list[k]
    BY <2>1, <2>4, ReplaceTyped
  <2> HIDE DEF new
  <2>9. OnlyLast(list) => Settled(new)
    BY <2>6, <2>7, <2>8 DEF Settled
  <2> QED
    BY <2>5, <2>8, <2>9 DEF new
<1> QED
  BY <1>2, <1>3

-----------------------------------------------------------------------------
(* The steps by what they do                                                  *)

\* The list on the page is a list of messages, and so are its positions.
LEMMA RenderedTyped ==
  ASSUME TypeOK
  PROVE  /\ rendered.messages \in Seq(Message)
         /\ DOMAIN rendered.messages = 1..Len(rendered.messages)
         /\ Len(rendered.messages) \in Nat
<1>1. rendered.messages \in Seq(Message)
  BY DEF TypeOK
<1> QED
  BY <1>1, LenProperties

\* Whatever control starts a generation (the text box, a suggestion,
\* Regenerate, Save & Submit), it goes through sendChat with a list made from
\* the one on the page, which ends with the new loading message.
LEMMA SendKind ==
  ASSUME TypeOK, NEW r \in Requests, Send(r)
  PROVE  /\ \E list \in Seq(Message) :
               SendChat(r, list) /\ (Settled(rendered.messages) => OnlyLast(list))
         /\ Guarded \/ Unguarded
         /\ UNCHANGED <<stream, received>>
         /\ editing' = editing \/ editing' = {}
<1> DEFINE page == rendered.messages
           a == createLoadingAssistantMessage(r)
           new == page \o <<createUserMessage(r), a>>
<1>1. page \in Seq(Message) /\ DOMAIN page = 1..Len(page) /\ Len(page) \in Nat
  BY RenderedTyped
<1>2. a \in Message
  BY NewMessages
<1>3. new \in Seq(Message) /\ (Settled(page) => OnlyLast(new))
  <2> HIDE DEF page
  <2> QED
    BY <1>1, SendList
<1>4. CASE HandleSendMessage(r)
  <2>1. SendChat(r, new)
    BY <1>4 DEF HandleSendMessage
  <2> HIDE DEF new
  <2> QED
    BY <1>3, <1>4, <2>1 DEF HandleSendMessage
<1>5. CASE HandleSuggestionClick(r)
  <2>1. SendChat(r, new)
    BY <1>5 DEF HandleSuggestionClick
  <2> HIDE DEF new
  <2> QED
    BY <1>3, <1>5, <2>1 DEF HandleSuggestionClick
<1>6. ASSUME NEW i \in DOMAIN page, HandleRegenerateMessage(r, i)
      PROVE  /\ \E list \in Seq(Message) :
                   SendChat(r, list) /\ (Settled(page) => OnlyLast(list))
             /\ Guarded \/ Unguarded
             /\ UNCHANGED <<stream, received>>
             /\ editing' = editing \/ editing' = {}
  <2> DEFINE p == SubSeq(page, 1, i - 1)
             l == Append(p, a)
  <2>1. i - 1 \in 0..Len(page)
    BY <1>1, <1>6
  <2>2. p \in Seq(Message) /\ (Settled(page) => Settled(p))
    <3> HIDE DEF page
    <3> QED
      BY <1>1, <2>1, PrefixList
  <2>3. l \in Seq(Message) /\ (Settled(p) => OnlyLast(l))
    <3> HIDE DEF p, a
    <3> QED
      BY <1>2, <2>2, AppendLoading
  <2>4. SendChat(r, l)
    BY <1>6 DEF HandleRegenerateMessage
  <2> HIDE DEF l, p
  <2> QED
    BY <1>6, <2>2, <2>3, <2>4 DEF HandleRegenerateMessage
<1>7. ASSUME NEW i \in DOMAIN page, ApplyEditSubmit(r, i)
      PROVE  /\ \E list \in Seq(Message) :
                   SendChat(r, list) /\ (Settled(page) => OnlyLast(list))
             /\ Guarded \/ Unguarded
             /\ UNCHANGED <<stream, received>>
             /\ editing' = editing \/ editing' = {}
  <2> DEFINE e == Edited(page, i)
             p == SubSeq(e, 1, i)
             l == Append(p, a)
  <2>1. e \in Seq(Message) /\ Len(e) = Len(page) /\ (Settled(page) => Settled(e))
    <3> HIDE DEF page
    <3> QED
      BY <1>1, <1>7, EditList
  <2>2. i \in 0..Len(e)
    BY <1>1, <1>7, <2>1
  <2>3. p \in Seq(Message) /\ (Settled(e) => Settled(p))
    <3> HIDE DEF e
    <3> QED
      BY <2>1, <2>2, PrefixList
  <2>4. l \in Seq(Message) /\ (Settled(p) => OnlyLast(l))
    <3> HIDE DEF p, a
    <3> QED
      BY <1>2, <2>3, AppendLoading
  <2>5. SendChat(r, l)
    BY <1>7 DEF ApplyEditSubmit
  <2> HIDE DEF l, p, e
  <2> QED
    BY <1>7, <2>1, <2>3, <2>4, <2>5 DEF ApplyEditSubmit
<1> QED
  BY <1>4, <1>5, <1>6, <1>7 DEF Send

\* Editing and deleting: the edit box is opened or closed, or the list on the
\* page is replaced by one that is settled when it was.
LEMMA EditKind ==
  ASSUME TypeOK, EditOrDelete
  PROVE  \/ /\ editing' \in SUBSET [key: Requests, from: {"user", "assistant"}]
            /\ UNCHANGED <<stream, messages, rendered, storage, source, complete, conn,
                           received, raced>>
         \/ /\ \E list \in Seq(Message) :
                  /\ ShowAndSave(list, source # NoSource)
                  /\ Settled(rendered.messages) => Settled(list)
            /\ Guarded \/ Unguarded
            /\ UNCHANGED <<stream, source, complete, conn, received>>
            /\ editing' = editing \/ editing' = {}
<1> DEFINE page == rendered.messages
<1>1. page \in Seq(Message) /\ DOMAIN page = 1..Len(page) /\ Len(page) \in Nat
  BY RenderedTyped
<1>2. CASE HandleEditCancel
  BY <1>2 DEF HandleEditCancel
<1>3. ASSUME NEW i \in DOMAIN page, HandleEditMessage(i)
      PROVE  /\ editing' \in SUBSET [key: Requests, from: {"user", "assistant"}]
             /\ UNCHANGED <<stream, messages, rendered, storage, source, complete, conn,
                            received, raced>>
  <2>1. page[i] \in Message
    BY <1>1, <1>3, ElementOfSeq
  <2>2. Key(page[i]) \in [key: Requests, from: {"user", "assistant"}]
    BY <2>1, MessageFields DEF Key
  <2> QED
    BY <1>3, <2>2 DEF HandleEditMessage
<1>4. ASSUME NEW i \in DOMAIN page, ApplyEditSave(i)
      PROVE  /\ \E list \in Seq(Message) :
                   /\ ShowAndSave(list, source # NoSource)
                   /\ Settled(page) => Settled(list)
             /\ Guarded \/ Unguarded
             /\ UNCHANGED <<stream, source, complete, conn, received>>
             /\ editing' = editing \/ editing' = {}
  <2> DEFINE l == Edited(page, i)
  <2>1. l \in Seq(Message) /\ (Settled(page) => Settled(l))
    <3> HIDE DEF page
    <3> QED
      BY <1>1, <1>4, EditList
  <2>2. ShowAndSave(l, source # NoSource)
    BY <1>4 DEF ApplyEditSave
  <2> HIDE DEF l
  <2> QED
    BY <1>4, <2>1, <2>2 DEF ApplyEditSave
<1>5. ASSUME NEW i \in DOMAIN page, HandleDeleteMessage(i)
      PROVE  /\ \E list \in Seq(Message) :
                   /\ ShowAndSave(list, source # NoSource)
                   /\ Settled(page) => Settled(list)
             /\ Guarded \/ Unguarded
             /\ UNCHANGED <<stream, source, complete, conn, received>>
             /\ editing' = editing \/ editing' = {}
  <2> DEFINE l == RemoveAt(page, i)
  <2>1. l \in Seq(Message) /\ (Settled(page) => Settled(l))
    <3> HIDE DEF page
    <3> QED
      BY <1>1, <1>5, RemoveList
  <2>2. ShowAndSave(l, source # NoSource)
    BY <1>5 DEF HandleDeleteMessage
  <2> HIDE DEF l
  <2> QED
    BY <1>5, <2>1, <2>2 DEF HandleDeleteMessage
<1> QED
  BY <1>2, <1>3, <1>4, <1>5 DEF EditOrDelete

\* A chunk makes a list of messages, and no message but the last unsettled.
LEMMA ChunkList ==
  ASSUME NEW list \in Seq(Message), NEW type \in {"reasoning", "content"},
         NEW chunk \in Seq(Sent)
  PROVE  LET new == updateLastAssistantMessage(list, StreamUpdate(Last(list), type, chunk))
         IN  new \in Seq(Message) /\ (OnlyLast(list) => OnlyLast(new))
<1> DEFINE m == StreamUpdate(Last(list), type, chunk)
<1>1. ASSUME list # <<>> PROVE IsUpdate(Last(list), m)
  <2>1. Last(list) \in Message
    BY <1>1, LastTyped
  <2> QED
    BY <2>1, CallbackUpdates
<1> HIDE DEF m
<1>2. /\ updateLastAssistantMessage(list, m) \in Seq(Message)
      /\ OnlyLast(list) => OnlyLast(updateLastAssistantMessage(list, m))
  BY <1>1, UpdateLast
<1> QED
  BY <1>2 DEF m

\* [DONE], Stop and the answer to a plain request settle a list in which only
\* the last message was unsettled.
LEMMA EndingList ==
  ASSUME NEW list \in Seq(Message), NEW m,
         \/ m = StreamComplete(Last(list))
         \/ m = StopMessage(Last(list))
         \/ \E answer \in Answers : m = AnswerMessage(Last(list), answer)
  PROVE  /\ updateLastAssistantMessage(list, m) \in Seq(Message)
         /\ OnlyLast(list) => Settled(updateLastAssistantMessage(list, m))
<1>1. ASSUME list # <<>> PROVE IsUpdate(Last(list), m) /\ ~Unsettled(m)
  <2>1. Last(list) \in Message
    BY <1>1, LastTyped
  <2> QED
    BY <2>1, CallbackUpdates
<1> QED
  BY <1>1, UpdateLast

\* sendChat keeps the types of what it changes.
LEMMA SendChatTyped ==
  ASSUME TypeOK, NEW r \in Requests, NEW list \in Seq(Message), SendChat(r, list)
  PROVE  /\ messages' \in Seq(Message) /\ storage' = messages'
         /\ rendered' \in [messages: Seq(Message), isGenerating: BOOLEAN]
         /\ source' \in Requests \cup {NoSource} /\ complete' \in BOOLEAN
         /\ conn' \in [Requests -> Conn]
<1>1. \A st \in {"open", "closed", "pending"} : [conn EXCEPT ![r] = st] \in [Requests -> Conn]
  BY DEF TypeOK, Conn
<1>2. updateAssistantMessageWithError(list) \in Seq(Message)
  BY ErrorUpdate
<1>3. source \in Requests \cup {NoSource} /\ complete \in BOOLEAN
  BY DEF TypeOK
<1>4. ASSUME NEW l \in Seq(Message), NEW g \in BOOLEAN, ShowAndSave(l, g)
      PROVE  /\ messages' \in Seq(Message) /\ storage' = messages'
             /\ rendered' \in [messages: Seq(Message), isGenerating: BOOLEAN]
  BY <1>4 DEF ShowAndSave
<1>5. \/ ShowAndSave(list, TRUE) \/ ShowAndSave(list, FALSE)
      \/ ShowAndSave(updateAssistantMessageWithError(list), FALSE)
  BY DEF SendChat
<1>6. /\ messages' \in Seq(Message) /\ storage' = messages'
      /\ rendered' \in [messages: Seq(Message), isGenerating: BOOLEAN]
  BY <1>2, <1>4, <1>5
<1>7. conn' \in [Requests -> Conn]
  BY <1>1 DEF SendChat
<1>8. source' \in Requests \cup {NoSource} /\ complete' \in BOOLEAN
  BY <1>3 DEF SendChat
<1> QED
  BY <1>6, <1>7, <1>8

\* A control that is guarded or counted leaves raced a Boolean.
LEMMA RacedTyped ==
  ASSUME Guarded \/ Unguarded
  PROVE  raced' \in BOOLEAN
  BY DEF Guarded, Unguarded

\* A chunk adds its text to what was delivered and leaves the other text alone.
LEMMA DeliverTyped ==
  ASSUME NEW own \in Delivered, NEW chunk \in Seq(Sent)
  PROVE  /\ Deliver(own, "content", chunk) \in Delivered
         /\ Deliver(own, "content", chunk).content = Join(own.content, chunk)
         /\ Deliver(own, "content", chunk).reasoning = own.reasoning
         /\ Deliver(own, "reasoning", chunk) \in Delivered
         /\ Deliver(own, "reasoning", chunk).content = own.content
         /\ Deliver(own, "reasoning", chunk).reasoning = Join(own.reasoning, chunk)
<1>1. own.chunks + 1 \in Nat /\ own.content \in Seq(Sent) /\ own.reasoning \in Seq(Sent)
  BY DEF Delivered
<1>2. Join(own.content, chunk) \in Seq(Sent) /\ Join(own.reasoning, chunk) \in Seq(Sent)
  BY <1>1, JoinTyped, Tags
<1> DEFINE p == [own EXCEPT !.chunks = @ + 1]
<1>3. p \in Delivered /\ p.content = own.content /\ p.reasoning = own.reasoning
  BY <1>1 DEF Delivered
<1>4. /\ Deliver(own, "content", chunk) = [p EXCEPT !.content = Join(own.content, chunk)]
      /\ Deliver(own, "reasoning", chunk) = [p EXCEPT !.reasoning = Join(own.reasoning, chunk)]
  BY DEF Deliver, Delivered
<1> HIDE DEF p
<1> DEFINE c == Join(own.content, chunk)
           t == Join(own.reasoning, chunk)
<1>5. c \in Seq(Sent) /\ t \in Seq(Sent)
  BY <1>2
<1> HIDE DEF c, t
<1>6. /\ [p EXCEPT !.content = c] \in Delivered
      /\ [p EXCEPT !.content = c].content = c
      /\ [p EXCEPT !.content = c].reasoning = p.reasoning
  BY <1>3, <1>5 DEF Delivered
<1>7. /\ [p EXCEPT !.reasoning = t] \in Delivered
      /\ [p EXCEPT !.reasoning = t].reasoning = t
      /\ [p EXCEPT !.reasoning = t].content = p.content
  BY <1>3, <1>5 DEF Delivered
<1> QED
  BY <1>3, <1>4, <1>6, <1>7 DEF c, t

\* Types of what the steps of a generation's callbacks change.
LEMMA ReceivedTyped ==
  ASSUME TypeOK, NEW r \in Requests, NEW type \in {"reasoning", "content"},
         NEW chunk \in Seq(Sent)
  PROVE  [received EXCEPT ![r] = Deliver(@, type, chunk)] \in [Requests -> Delivered]
<1>1. received \in [Requests -> Delivered]
  BY DEF TypeOK
<1>2. Deliver(received[r], type, chunk) \in Delivered
  BY <1>1, DeliverTyped
<1> QED
  BY <1>1, <1>2

\* Closing or cutting off a connection keeps the connections typed.
LEMMA ConnTyped ==
  ASSUME TypeOK, NEW r \in Requests
  PROVE  /\ [conn EXCEPT ![r] = "closed"] \in [Requests -> Conn]
         /\ [conn EXCEPT ![r] = "truncated"] \in [Requests -> Conn]
         /\ NoSource \in Requests \cup {NoSource}
  BY DEF TypeOK, Conn

\* A step keeps TypeOK.
LEMMA TypeStep ==
  ASSUME TypeOK, [Next]_vars
  PROVE  TypeOK'
<1> DEFINE Keys == [key: Requests, from: {"user", "assistant"}]
           Pages == [messages: Seq(Message), isGenerating: BOOLEAN]
<1>t. /\ stream \in StreamModes /\ messages \in Seq(Message) /\ rendered \in Pages
      /\ storage \in Seq(Message) /\ source \in Requests \cup {NoSource}
      /\ complete \in BOOLEAN /\ conn \in [Requests -> Conn] /\ editing \in SUBSET Keys
      /\ received \in [Requests -> Delivered] /\ raced \in BOOLEAN
  BY DEF TypeOK
<1>s. ASSUME stream' \in StreamModes, messages' \in Seq(Message), rendered' \in Pages,
             storage' \in Seq(Message), source' \in Requests \cup {NoSource},
             complete' \in BOOLEAN, conn' \in [Requests -> Conn], editing' \in SUBSET Keys,
             received' \in [Requests -> Delivered], raced' \in BOOLEAN
      PROVE  TypeOK'
  BY <1>s DEF TypeOK
<1>p. ASSUME NEW l \in Seq(Message), NEW g \in BOOLEAN, ShowAndSave(l, g)
      PROVE  messages' \in Seq(Message) /\ rendered' \in Pages /\ storage' \in Seq(Message)
  BY <1>p DEF ShowAndSave
<1>e. {} \in SUBSET Keys
  OBVIOUS
<1>1. ASSUME NEW r \in Requests, Send(r) PROVE TypeOK'
  <2>1. PICK l \in Seq(Message) : SendChat(r, l)
    BY <1>1, SendKind
  <2>2. /\ Guarded \/ Unguarded
        /\ UNCHANGED <<stream, received>>
        /\ editing' = editing \/ editing' = {}
    BY <1>1, SendKind
  <2>3. /\ messages' \in Seq(Message) /\ storage' = messages' /\ rendered' \in Pages
        /\ source' \in Requests \cup {NoSource} /\ complete' \in BOOLEAN
        /\ conn' \in [Requests -> Conn]
    BY <2>1, SendChatTyped
  <2>4. raced' \in BOOLEAN
    BY <2>2, RacedTyped
  <2> HIDE DEF Keys, Pages
  <2> QED
    BY <1>t, <1>s, <1>e, <2>2, <2>3, <2>4
<1>2. ASSUME NEW r \in Requests, NEW type \in {"reasoning", "content"},
             NEW chunk \in Seq(Sent), OnChunk(r, type, chunk)
      PROVE  TypeOK'
  <2>1. messages' \in Seq(Message)
    BY <1>t, <1>2, ChunkList DEF OnChunk, Queue
  <2>2. received' \in [Requests -> Delivered]
    BY <1>2, ReceivedTyped DEF OnChunk
  <2>3. UNCHANGED <<stream, rendered, storage, source, complete, conn, editing, raced>>
    BY <1>2 DEF OnChunk, Queue
  <2> HIDE DEF Keys, Pages
  <2> QED
    BY <1>t, <1>s, <2>1, <2>2, <2>3
<1>3. ASSUME NEW r \in Requests, OnDone(r) PROVE TypeOK'
  <2>1. messages' \in Seq(Message)
    BY <1>t, <1>3, EndingList DEF OnDone, Queue
  <2>2. conn' \in [Requests -> Conn] /\ source' \in Requests \cup {NoSource}
    BY <1>3, ConnTyped DEF OnDone, CloseSource
  <2>3. /\ UNCHANGED <<stream, rendered, storage, editing, received, raced>>
        /\ complete' \in BOOLEAN
    BY <1>3 DEF OnDone, Queue
  <2> HIDE DEF Keys, Pages
  <2> QED
    BY <1>t, <1>s, <2>1, <2>2, <2>3
<1>4. ASSUME NEW r \in Requests, HandleError(r),
             UNCHANGED <<stream, editing, received, raced>>
      PROVE  TypeOK'
  <2>1. messages' \in Seq(Message)
    BY <1>t, <1>4, ErrorUpdate DEF HandleError, Queue
  <2>2. conn' \in [Requests -> Conn] /\ source' \in Requests \cup {NoSource}
    BY <1>t, <1>4, ConnTyped DEF HandleError, CloseSource
  <2>3. UNCHANGED <<rendered, storage, complete>>
    BY <1>4 DEF HandleError, Queue
  <2> HIDE DEF Keys, Pages
  <2> QED
    BY <1>t, <1>s, <1>4, <2>1, <2>2, <2>3
<1>5. ASSUME NEW r \in Requests, OnError(r), ~HandleError(r) PROVE TypeOK'
  <2>1. /\ UNCHANGED <<stream, messages, rendered, storage, source, complete, editing,
                       received, raced>>
        /\ conn' \in [Requests -> Conn]
    BY <1>5, ConnTyped DEF OnError
  <2> HIDE DEF Keys, Pages
  <2> QED
    BY <1>t, <1>s, <2>1
<1>6. ASSUME NEW r \in Requests, OnTruncated(r) \/ OnNoChoice(r) PROVE TypeOK'
  <2>1. /\ UNCHANGED <<stream, messages, rendered, storage, source, complete, editing,
                       received, raced>>
        /\ conn' \in [Requests -> Conn]
    BY <1>6, ConnTyped DEF OnTruncated, OnNoChoice
  <2> HIDE DEF Keys, Pages
  <2> QED
    BY <1>t, <1>s, <2>1
<1>7. ASSUME NEW r \in Requests, NEW answer \in Answers, OnAnswer(r, answer) PROVE TypeOK'
  <2>1. messages' \in Seq(Message)
    BY <1>t, <1>7, EndingList DEF OnAnswer, Queue
  <2>2. received' \in [Requests -> Delivered]
    <3> DEFINE own == [chunks |-> 1, content |-> answer.content,
                       reasoning |-> answer.reasoning]
    <3>1. own \in Delivered
      BY Texts DEF Delivered
    <3>2. received' = [received EXCEPT ![r] = own]
      BY <1>7 DEF OnAnswer
    <3> HIDE DEF own
    <3> QED
      BY <1>t, <3>1, <3>2
  <2>3. /\ UNCHANGED <<stream, rendered, storage, source, complete, editing, raced>>
        /\ conn' \in [Requests -> Conn]
    BY <1>7, ConnTyped DEF OnAnswer, Queue
  <2> HIDE DEF Keys, Pages
  <2> QED
    BY <1>t, <1>s, <2>1, <2>2, <2>3
<1>8. ASSUME NEW r \in Requests, OnRequestError(r) PROVE TypeOK'
  <2>1. messages' \in Seq(Message)
    BY <1>t, <1>8, ErrorUpdate DEF OnRequestError, Queue
  <2>2. /\ UNCHANGED <<stream, rendered, storage, source, complete, editing, received, raced>>
        /\ conn' \in [Requests -> Conn]
    BY <1>8, ConnTyped DEF OnRequestError, Queue
  <2> HIDE DEF Keys, Pages
  <2> QED
    BY <1>t, <1>s, <2>1, <2>2
<1>9. CASE EditOrDelete
  <2>1. CASE /\ editing' \in SUBSET Keys
             /\ UNCHANGED <<stream, messages, rendered, storage, source, complete, conn,
                            received, raced>>
    <3> HIDE DEF Keys, Pages
    <3> QED
      BY <1>t, <1>s, <2>1
  <2>2. CASE /\ \E l \in Seq(Message) : ShowAndSave(l, source # NoSource)
             /\ Guarded \/ Unguarded
             /\ UNCHANGED <<stream, source, complete, conn, received>>
             /\ editing' = editing \/ editing' = {}
    <3>1. PICK l \in Seq(Message) : ShowAndSave(l, source # NoSource)
      BY <2>2
    <3>2. (source # NoSource) \in BOOLEAN
      OBVIOUS
    <3>3. messages' \in Seq(Message) /\ rendered' \in Pages /\ storage' \in Seq(Message)
      BY <1>p, <3>1, <3>2
    <3>4. raced' \in BOOLEAN
      BY <2>2, RacedTyped
    <3> HIDE DEF Keys, Pages
    <3> QED
      BY <1>t, <1>s, <1>e, <2>2, <3>3, <3>4
  <2> QED
    BY <1>9, <2>1, <2>2, EditKind
<1>10. CASE StopGeneration
  <2> DEFINE l == updateLastAssistantMessage(messages, StopMessage(Last(messages)))
  <2>1. l \in Seq(Message)
    BY <1>t, EndingList
  <2>2. ShowAndSave(l, FALSE)
    BY <1>10 DEF StopGeneration
  <2> HIDE DEF l
  <2>3. messages' \in Seq(Message) /\ rendered' \in Pages /\ storage' \in Seq(Message)
    BY <1>p, <2>1, <2>2
  <2>4. conn' \in [Requests -> Conn]
    <3>1. conn' = [r \in Requests |-> IF r = source THEN "closed" ELSE conn[r]]
      BY <1>10 DEF StopGeneration
    <3> QED
      BY <1>t, <3>1 DEF Conn
  <2>5. /\ source' \in Requests \cup {NoSource}
        /\ UNCHANGED <<stream, complete, editing, received, raced>>
    BY <1>10 DEF StopGeneration
  <2> HIDE DEF Keys, Pages
  <2> QED
    BY <1>t, <1>s, <2>3, <2>4, <2>5
<1>11. CASE Render
  <2>1. ShowAndSave(messages, source # NoSource)
    BY <1>11 DEF Render
  <2>2. (source # NoSource) \in BOOLEAN
    OBVIOUS
  <2>3. messages' \in Seq(Message) /\ rendered' \in Pages /\ storage' \in Seq(Message)
    BY <1>t, <1>p, <2>1, <2>2
  <2>4. UNCHANGED <<stream, source, complete, conn, editing, received, raced>>
    BY <1>11 DEF Render
  <2> HIDE DEF Keys, Pages
  <2> QED
    BY <1>t, <1>s, <2>3, <2>4
<1>12. CASE Reload \/ Leave
  <2> DEFINE l == sanitizeMessagesOnLoad(storage)
  <2>1. l \in Seq(Message)
    BY <1>t, SanitizeList
  <2>2. ShowAndSave(l, FALSE)
    BY <1>12 DEF Reload, Leave, Mount
  <2> HIDE DEF l
  <2>3. messages' \in Seq(Message) /\ rendered' \in Pages /\ storage' \in Seq(Message)
    BY <1>p, <2>1, <2>2
  <2>4. conn' \in [Requests -> Conn]
    <3>1. "gone" \in Conn /\ "left" \in Conn /\ \A r \in Requests : conn[r] \in Conn
      BY <1>t DEF Conn
    <3> QED
      BY <1>12, <3>1 DEF Reload, Leave
  <2>5. /\ source' \in Requests \cup {NoSource} /\ complete' \in BOOLEAN
        /\ editing' = {} /\ UNCHANGED <<stream, received, raced>>
    BY <1>12 DEF Reload, Leave, Mount
  <2> HIDE DEF Keys, Pages
  <2> QED
    BY <1>t, <1>s, <1>e, <2>3, <2>4, <2>5
<1>13. CASE UNCHANGED vars
  <2>1. UNCHANGED <<stream, messages, rendered, storage, source, complete, conn, editing,
                    received, raced>>
    BY <1>13 DEF vars
  <2> HIDE DEF Keys, Pages
  <2> QED
    BY <1>t, <1>s, <2>1
<1>14. ASSUME NEW r \in Requests, Ends(r) PROVE TypeOK'
  <2>1. CASE OnError(r)
    BY <1>4, <1>5, <2>1 DEF OnError
  <2>2. CASE \E answer \in Answers : OnAnswer(r, answer)
    BY <1>7, <2>2
  <2> QED
    BY <1>3, <1>6, <1>8, <1>14, <2>1, <2>2 DEF Ends
<1>15. ASSUME NEW r \in Requests,
              \/ \E chunk \in ChunkTexts : OnChunk(r, "content", chunk)
              \/ OnChunk(r, "reasoning", <<"text">>)
       PROVE  TypeOK'
  BY <1>2, <1>15, Texts
<1>16. ASSUME NEW r \in Requests, OnParseError(r) PROVE TypeOK'
  BY <1>4, <1>16 DEF OnParseError
<1>17. ASSUME NEW r \in Requests, LeftEnds(r) PROVE TypeOK'
  <2>1. UNCHANGED <<stream, messages, rendered, storage, source, complete, editing,
                    received, raced>>
    BY <1>17 DEF LeftEnds
  <2>2. conn' \in [Requests -> Conn]
    BY <1>t, <1>17 DEF LeftEnds, Conn
  <2> HIDE DEF Keys, Pages
  <2> QED
    BY <1>t, <1>s, <2>1, <2>2
<1> QED
  BY <1>1, <1>9, <1>10, <1>11, <1>12, <1>13, <1>14, <1>15, <1>16, <1>17 DEF Next

-----------------------------------------------------------------------------
(* The guards keep generations apart                                          *)

\* No stream is open.
NothingOpen == \A r \in Requests : conn[r] # "open"

\* Without streaming there is no source and the page never says it generates.
ModeInv == ~stream => source = NoSource /\ ~rendered.isGenerating /\ NothingOpen

\* What is saved is what is on the page.  Unless a control raced with a
\* generation, at most the last message waits, and while it does something
\* says so: the current source, the flag of the last render, or a plain
\* request that is under way or was dropped.
ListInv ==
  /\ storage = rendered.messages
  /\ ~raced =>
       /\ OnlyLast(messages) /\ OnlyLast(rendered.messages)
       /\ stream /\ ~Settled(messages) => source # NoSource
       /\ stream /\ ~Settled(rendered.messages) => rendered.isGenerating
       /\ ~stream /\ ~Settled(messages) =>
            \E r \in Requests : conn[r] \in {"pending", "truncated"}

\* The inductive invariant, beside TypeOK.
PageInv == OneStream /\ ModeInv /\ ListInv

\* Generation 0 is none.
LEMMA RequestIsSome ==
  ASSUME NEW r \in Requests
  PROVE  r # NoSource
  BY NumRequestsAssumption DEF Requests, NoSource

\* A settled list has no unsettled message but the last.
LEMMA SettledOnlyLast ==
  ASSUME NEW list, Settled(list)
  PROVE  OnlyLast(list)
  BY DEF Settled, OnlyLast

\* A control that did not race found the page idle: the flag of the last render
\* may be stale, and still every message on the page is settled and no stream
\* is open.
LEMMA Idle ==
  ASSUME TypeOK, PageInv, Guarded \/ Unguarded, ~raced'
  PROVE  ~raced /\ Settled(rendered.messages) /\ NothingOpen
<1>1. ~raced /\ ((stream /\ ~rendered.isGenerating) \/ ~Busy)
  BY DEF Guarded, Unguarded
<1>2. CASE stream /\ ~rendered.isGenerating
  BY <1>1, <1>2 DEF PageInv, OneStream, ListInv, NothingOpen
<1>3. CASE ~Busy
  <2>1. source = NoSource /\ rendered.messages = messages
    BY <1>3 DEF Busy
  <2>2. \A r \in Requests : conn[r] \notin {"open", "pending", "truncated"}
    BY <1>3 DEF Busy
  <2>3. Settled(messages)
    BY <1>1, <2>1, <2>2 DEF PageInv, ListInv
  <2> QED
    BY <1>1, <2>1, <2>2, <2>3 DEF NothingOpen
<1> QED
  BY <1>1, <1>2, <1>3

\* The steps that replace the list on the page: afterwards page, storage and
\* state agree.
LEMMA Shown ==
  ASSUME NEW list, NEW g, ShowAndSave(list, g)
  PROVE  /\ messages' = list /\ storage' = list /\ rendered'.messages = list
         /\ rendered'.isGenerating = g
  BY DEF ShowAndSave

\* Starting a generation keeps the invariant.
LEMMA SendKeeps ==
  ASSUME TypeOK, PageInv, NEW r \in Requests, Send(r)
  PROVE  PageInv'
<1>1. PICK l \in Seq(Message) :
        SendChat(r, l) /\ (Settled(rendered.messages) => OnlyLast(l))
  BY SendKind
<1>2. (Guarded \/ Unguarded) /\ UNCHANGED stream
  BY SendKind
<1>3. ~raced' => ~raced /\ OnlyLast(l) /\ NothingOpen
  BY <1>1, <1>2, Idle
<1>t. conn \in [Requests -> Conn] /\ r # NoSource
  BY RequestIsSome DEF TypeOK
<1> DEFINE e == updateAssistantMessageWithError(l)
<1>e. OnlyLast(l) => Settled(e) /\ OnlyLast(e)
  BY <1>1, ErrorUpdate, SettledOnlyLast
<1>4. CASE /\ stream /\ source' = r /\ conn' = [conn EXCEPT ![r] = "open"]
           /\ ShowAndSave(l, TRUE)
  <2>1. messages' = l /\ storage' = l /\ rendered'.messages = l /\ rendered'.isGenerating
    BY <1>4, Shown
  <2>2. OneStream'
    BY <1>3, <1>4, <1>t, <2>1 DEF OneStream, NothingOpen
  <2>3. ModeInv' /\ ListInv'
    BY <1>2, <1>3, <1>4, <1>t, <2>1 DEF ModeInv, ListInv
  <2> QED
    BY <2>2, <2>3 DEF PageInv
<1>5. CASE /\ stream /\ source' = NoSource /\ conn' = [conn EXCEPT ![r] = "closed"]
           /\ ShowAndSave(e, FALSE)
  <2> HIDE DEF e
  <2>1. messages' = e /\ storage' = e /\ rendered'.messages = e /\ ~rendered'.isGenerating
    BY <1>5, Shown
  <2>2. OneStream'
    BY <1>3, <1>5, <1>t DEF OneStream, NothingOpen
  <2>3. ModeInv' /\ ListInv'
    BY <1>2, <1>3, <1>5, <1>e, <2>1 DEF ModeInv, ListInv
  <2> QED
    BY <2>2, <2>3 DEF PageInv
<1>6. CASE /\ ~stream /\ conn' = [conn EXCEPT ![r] = "pending"]
           /\ ShowAndSave(l, FALSE) /\ UNCHANGED source
  <2>1. messages' = l /\ storage' = l /\ rendered'.messages = l /\ ~rendered'.isGenerating
    BY <1>6, Shown
  <2>2. OneStream'
    BY <1>3, <1>6, <1>t DEF OneStream, NothingOpen
  <2>3. ModeInv'
    BY <1>2, <1>6, <1>t, <2>1 DEF PageInv, ModeInv, NothingOpen
  <2>4. conn'[r] = "pending"
    BY <1>6, <1>t
  <2>5. ListInv'
    BY <1>2, <1>3, <1>6, <2>1, <2>4 DEF ListInv
  <2> QED
    BY <2>2, <2>3, <2>5 DEF PageInv
<1> QED
  BY <1>1, <1>4, <1>5, <1>6 DEF SendChat

\* Editing and deleting keep it.
LEMMA EditKeeps ==
  ASSUME TypeOK, PageInv, EditOrDelete
  PROVE  PageInv'
<1>1. CASE UNCHANGED <<stream, messages, rendered, storage, source, complete, conn,
                       received, raced>>
  BY <1>1 DEF PageInv, OneStream, ModeInv, ListInv, NothingOpen
<1>2. CASE /\ \E list \in Seq(Message) :
                /\ ShowAndSave(list, source # NoSource)
                /\ Settled(rendered.messages) => Settled(list)
           /\ Guarded \/ Unguarded
           /\ UNCHANGED <<stream, source, complete, conn, received>>
  <2>1. PICK l \in Seq(Message) : /\ ShowAndSave(l, source # NoSource)
                                  /\ Settled(rendered.messages) => Settled(l)
    BY <1>2
  <2>2. ~raced' => Settled(l) /\ OnlyLast(l) /\ NothingOpen
    BY <1>2, <2>1, Idle, SettledOnlyLast
  <2>3. /\ messages' = l /\ storage' = l /\ rendered'.messages = l
        /\ rendered'.isGenerating = (source # NoSource)
    BY <2>1, Shown
  <2>4. OneStream'
    BY <1>2, <2>2 DEF OneStream, NothingOpen
  <2>5. ModeInv'
    BY <1>2, <2>3 DEF PageInv, ModeInv, NothingOpen
  <2>6. ListInv'
    BY <2>2, <2>3 DEF ListInv
  <2> QED
    BY <2>4, <2>5, <2>6 DEF PageInv
<1> QED
  BY <1>1, <1>2, EditKind

\* Stop keeps it: it closes the one open stream.
LEMMA StopKeeps ==
  ASSUME TypeOK, PageInv, StopGeneration
  PROVE  PageInv'
<1> DEFINE l == updateLastAssistantMessage(messages, StopMessage(Last(messages)))
<1>1. messages \in Seq(Message)
  BY DEF TypeOK
<1>2. OnlyLast(messages) => Settled(l) /\ OnlyLast(l)
  BY <1>1, EndingList, SettledOnlyLast
<1>3. /\ ShowAndSave(l, FALSE) /\ source' = NoSource /\ UNCHANGED <<stream, raced>>
      /\ conn' = [r \in Requests |-> IF r = source THEN "closed" ELSE conn[r]]
  BY DEF StopGeneration
<1> HIDE DEF l
<1>4. messages' = l /\ storage' = l /\ rendered'.messages = l /\ ~rendered'.isGenerating
  BY <1>3, Shown
<1>5. OneStream' /\ ModeInv'
  BY <1>3, <1>4 DEF PageInv, OneStream, ModeInv, NothingOpen
<1>6. ListInv'
  BY <1>2, <1>3, <1>4 DEF PageInv, ListInv
<1> QED
  BY <1>5, <1>6 DEF PageInv

\* A chunk keeps it: its stream is the current source.
LEMMA ChunkKeeps ==
  ASSUME TypeOK, PageInv, NEW r \in Requests, NEW type \in {"reasoning", "content"},
         NEW chunk \in Seq(Sent), OnChunk(r, type, chunk)
  PROVE  PageInv'
<1>1. messages \in Seq(Message)
  BY DEF TypeOK
<1>2. OnlyLast(messages) => OnlyLast(messages')
  BY <1>1, ChunkList DEF OnChunk, Queue
<1>3. /\ conn[r] = "open"
      /\ UNCHANGED <<stream, rendered, storage, source, conn, raced>>
  BY DEF OnChunk, Queue
<1>4. OneStream' /\ ModeInv'
  BY <1>3 DEF PageInv, OneStream, ModeInv, NothingOpen
<1>5. stream /\ (~raced => source # NoSource)
  BY <1>3, RequestIsSome DEF PageInv, OneStream, ModeInv, NothingOpen
<1>6. ListInv'
  BY <1>2, <1>3, <1>5 DEF PageInv, ListInv
<1> QED
  BY <1>4, <1>6 DEF PageInv

\* A connection that ends and settles the list keeps it.
LEMMA EndKeeps ==
  ASSUME TypeOK, PageInv, NEW r \in Requests,
         UNCHANGED <<stream, rendered, storage, raced>>,
         OnlyLast(messages) => Settled(messages'),
         conn' = [conn EXCEPT ![r] = "closed"],
         \/ conn[r] = "open" /\ source' = NoSource
         \/ source' = source
  PROVE  PageInv'
<1>1. conn \in [Requests -> Conn]
  BY DEF TypeOK
<1>2. OneStream'
  BY <1>1 DEF PageInv, OneStream
<1>3. ModeInv'
  BY <1>1 DEF PageInv, ModeInv, NothingOpen
<1>4. ListInv'
  BY SettledOnlyLast DEF PageInv, ListInv
<1> QED
  BY <1>2, <1>3, <1>4 DEF PageInv

\* One that is cut off, or that an error ended after another stream was done,
\* leaves the list alone.
LEMMA CutKeeps ==
  ASSUME TypeOK, PageInv, NEW r \in Requests,
         UNCHANGED <<stream, messages, rendered, storage, source, raced>>,
         \/ conn[r] = "open" /\ conn' = [conn EXCEPT ![r] = "closed"]
         \/ conn' = [conn EXCEPT ![r] = "truncated"]
  PROVE  PageInv'
<1>1. conn \in [Requests -> Conn]
  BY DEF TypeOK
<1>2. OneStream'
  BY <1>1 DEF PageInv, OneStream
<1>3. ModeInv'
  BY <1>1 DEF PageInv, ModeInv, NothingOpen
<1>4. ASSUME ~stream, NEW q \in Requests, conn[q] \in {"pending", "truncated"}
      PROVE  conn'[q] \in {"pending", "truncated"}
  BY <1>1, <1>4 DEF PageInv, ModeInv, NothingOpen
<1>5. ListInv'
  BY <1>4 DEF PageInv, ListInv
<1> QED
  BY <1>2, <1>3, <1>5 DEF PageInv

\* handleError keeps it.
LEMMA ErrorKeeps ==
  ASSUME TypeOK, PageInv, NEW r \in Requests, conn[r] = "open", HandleError(r),
         UNCHANGED <<stream, raced>>
  PROVE  PageInv'
<1>1. messages \in Seq(Message)
  BY DEF TypeOK
<1>2. CASE ~complete
  <2>1. OnlyLast(messages) => Settled(messages')
    BY <1>1, <1>2, ErrorUpdate DEF HandleError, Queue
  <2>2. /\ UNCHANGED <<rendered, storage>> /\ source' = NoSource
        /\ conn' = [conn EXCEPT ![r] = "closed"]
    BY <1>2 DEF HandleError, Queue, CloseSource
  <2> QED
    BY <2>1, <2>2, EndKeeps
<1>3. CASE complete
  BY <1>3 DEF HandleError, PageInv, OneStream, ModeInv, ListInv, NothingOpen
<1> QED
  BY <1>2, <1>3

\* So do all the ways a generation ends.
LEMMA EndsKeeps ==
  ASSUME TypeOK, PageInv, NEW r \in Requests, Ends(r)
  PROVE  PageInv'
<1>1. messages \in Seq(Message)
  BY DEF TypeOK
<1>2. CASE OnDone(r)
  <2>1. OnlyLast(messages) => Settled(messages')
    BY <1>1, <1>2, EndingList DEF OnDone, Queue
  <2>2. /\ UNCHANGED <<stream, rendered, storage, raced>> /\ conn[r] = "open"
        /\ source' = NoSource /\ conn' = [conn EXCEPT ![r] = "closed"]
    BY <1>2 DEF OnDone, Queue, CloseSource
  <2> QED
    BY <2>1, <2>2, EndKeeps
<1>3. CASE OnError(r)
  <2>1. conn[r] = "open" /\ UNCHANGED <<stream, raced>>
    BY <1>3 DEF OnError
  <2>2. CASE HandleError(r)
    BY <2>1, <2>2, ErrorKeeps
  <2>3. CASE ~HandleError(r)
    <3>1. /\ conn' = [conn EXCEPT ![r] = "closed"]
          /\ UNCHANGED <<messages, rendered, storage, source>>
      BY <1>3, <2>3 DEF OnError
    <3> QED
      BY <2>1, <3>1, CutKeeps
  <2> QED
    BY <2>2, <2>3
<1>4. CASE OnTruncated(r) \/ OnNoChoice(r)
  <2>1. /\ conn' = [conn EXCEPT ![r] = "truncated"]
        /\ UNCHANGED <<stream, messages, rendered, storage, source, raced>>
    BY <1>4 DEF OnTruncated, OnNoChoice
  <2> QED
    BY <2>1, CutKeeps
<1>5. ASSUME NEW answer \in Answers, OnAnswer(r, answer) PROVE PageInv'
  <2>2. OnlyLast(messages) => Settled(messages')
    BY <1>1, <1>5, EndingList DEF OnAnswer, Queue
  <2>3. /\ UNCHANGED <<stream, rendered, storage, source, raced>>
        /\ conn' = [conn EXCEPT ![r] = "closed"]
    BY <1>5 DEF OnAnswer, Queue
  <2> QED
    BY <2>2, <2>3, EndKeeps
<1>6. CASE OnRequestError(r)
  <2>1. OnlyLast(messages) => Settled(messages')
    BY <1>1, <1>6, ErrorUpdate DEF OnRequestError, Queue
  <2>2. /\ UNCHANGED <<stream, rendered, storage, source, raced>>
        /\ conn' = [conn EXCEPT ![r] = "closed"]
    BY <1>6 DEF OnRequestError, Queue
  <2> QED
    BY <2>1, <2>2, EndKeeps
<1> QED
  BY <1>2, <1>3, <1>4, <1>5, <1>6 DEF Ends

\* Rendering hands the page what is queued, with the flag that goes with it.
LEMMA RenderKeeps ==
  ASSUME TypeOK, PageInv, Render
  PROVE  PageInv'
<1>1. ShowAndSave(messages, source # NoSource) /\ UNCHANGED <<stream, source, conn, raced>>
  BY DEF Render
<1>2. /\ messages' = messages /\ storage' = messages /\ rendered'.messages = messages
      /\ rendered'.isGenerating = (source # NoSource)
  BY <1>1, Shown
<1>3. OneStream'
  BY <1>1, <1>2, RequestIsSome DEF PageInv, OneStream
<1>4. ModeInv' /\ ListInv'
  BY <1>1, <1>2 DEF PageInv, ModeInv, ListInv, NothingOpen
<1> QED
  BY <1>3, <1>4 DEF PageInv

\* Mounting the page anew settles the stored list; the new page opened nothing.
LEMMA MountKeeps ==
  ASSUME TypeOK, PageInv, Reload \/ Leave
  PROVE  PageInv'
<1> DEFINE l == sanitizeMessagesOnLoad(storage)
<1>1. storage \in Seq(Message)
  BY DEF TypeOK
<1>2. OnlyLast(storage) => Settled(l) /\ OnlyLast(l)
  BY <1>1, SanitizeList, SettledOnlyLast
<1>3. ShowAndSave(l, FALSE) /\ source' = NoSource /\ UNCHANGED <<stream, raced>>
  BY DEF Reload, Leave, Mount
<1> HIDE DEF l
<1>4. messages' = l /\ storage' = l /\ rendered'.messages = l /\ ~rendered'.isGenerating
  BY <1>3, Shown
<1>5. NothingOpen'
  BY DEF Reload, Leave, NothingOpen
<1>6. OneStream' /\ ModeInv'
  BY <1>3, <1>4, <1>5 DEF OneStream, ModeInv, NothingOpen
<1>7. ListInv'
  BY <1>2, <1>3, <1>4 DEF PageInv, ListInv
<1> QED
  BY <1>6, <1>7 DEF PageInv

\* The end of a stream of a page that was left is not seen on this one.
LEMMA LeftKeeps ==
  ASSUME TypeOK, PageInv, NEW r \in Requests, LeftEnds(r)
  PROVE  PageInv'
<1>1. conn \in [Requests -> Conn]
  BY DEF TypeOK
<1>2. /\ conn[r] = "left" /\ conn' = [conn EXCEPT ![r] = "gone"]
      /\ UNCHANGED <<stream, messages, rendered, storage, source, raced>>
  BY DEF LeftEnds
<1>3. OneStream'
  BY <1>1, <1>2 DEF PageInv, OneStream
<1>4. ModeInv'
  BY <1>1, <1>2 DEF PageInv, ModeInv, NothingOpen
<1>5. \A q \in Requests : conn[q] \in {"pending", "truncated"} => conn'[q] = conn[q]
  BY <1>1, <1>2
<1>6. ListInv'
  BY <1>2, <1>5 DEF PageInv, ListInv
<1> QED
  BY <1>3, <1>4, <1>6 DEF PageInv

\* PageInv is inductive.
LEMMA PageStep ==
  ASSUME TypeOK, PageInv, [Next]_vars
  PROVE  PageInv'
<1>1. CASE UNCHANGED vars
  BY <1>1 DEF vars, PageInv, OneStream, ModeInv, ListInv, NothingOpen
<1>2. ASSUME NEW r \in Requests,
             \/ \E chunk \in ChunkTexts : OnChunk(r, "content", chunk)
             \/ OnChunk(r, "reasoning", <<"text">>)
      PROVE  PageInv'
  BY <1>2, Texts, ChunkKeeps
<1>3. ASSUME NEW r \in Requests, OnParseError(r) PROVE PageInv'
  BY <1>3, ErrorKeeps DEF OnParseError
<1> QED
  BY <1>1, <1>2, <1>3, SendKeeps, EndsKeeps, EditKeeps, StopKeeps, RenderKeeps,
     MountKeeps, LeftKeeps DEF Next

\* The empty page.
LEMMA InitPage ==
  ASSUME Init
  PROVE  TypeOK /\ PageInv
<1>1. <<>> \in Seq(Message) /\ Len(<<>>) = 0
  BY EmptySeq
<1>2. TypeOK
  <2>1. conn \in [Requests -> Conn]
    BY DEF Init, Conn
  <2>2. received \in [Requests -> Delivered]
    <3>1. [chunks |-> 0, content |-> <<>>, reasoning |-> <<>>] \in Delivered
      BY DEF Delivered
    <3> QED
      BY <3>1 DEF Init
  <2>3. /\ messages \in Seq(Message) /\ storage \in Seq(Message)
        /\ rendered \in [messages: Seq(Message), isGenerating: BOOLEAN]
    BY <1>1 DEF Init
  <2>4. /\ stream \in StreamModes /\ source \in Requests \cup {NoSource}
        /\ complete \in BOOLEAN /\ raced \in BOOLEAN
        /\ editing \in SUBSET [key: Requests, from: {"user", "assistant"}]
    BY DEF Init
  <2> QED
    BY <2>1, <2>2, <2>3, <2>4 DEF TypeOK
<1>3. Settled(<<>>) /\ OnlyLast(<<>>)
  BY <1>1 DEF Settled, OnlyLast
<1>4. PageInv
  BY <1>3 DEF Init, PageInv, OneStream, ModeInv, ListInv, NothingOpen
<1> QED
  BY <1>2, <1>4

-----------------------------------------------------------------------------
(* A message and what its generation delivered                                *)

\* The reasoning shown for think parts that say t.
Thoughts(t) == IF t # <<>> THEN {t} ELSE {<<>>, <<"</thi">>}

\* The reasoning a message shows is the API's or that of its think parts; when
\* a generation sends both the code joins or replaces, and nothing is claimed.
Reasons(m, own) ==
  /\ own.reasoning = <<>> => m.reasoning \in Thoughts(parseThinkTags(own.content).reasoning)
  /\ "<think>" \notin Range(own.content) => m.reasoning = own.reasoning

\* A message that waits holds the text as it came, a finished one what is left
\* of it without the think parts.
Grows(m, own) == m.content = own.content /\ Reasons(m, own)
Shows(m, own) == m.content = parseThinkTags(own.content).visibleContent /\ Reasons(m, own)

\* Nothing was delivered.
Nothing(own) == own.content = <<>> /\ own.reasoning = <<>>

\* What an update of the texts of a message leaves in them.
LEMMA TextFields ==
  ASSUME NEW m \in Message, NEW c \in Seq(Token), NEW t \in Seq(Token), NEW b \in BOOLEAN
  PROVE  LET e == [m EXCEPT !.content = c, !.reasoning = t, !.isReasoningStreaming = b]
         IN  e.content = c /\ e.reasoning = t
<1> DEFINE p == [m EXCEPT !.content = c]
<1>1. p \in Message /\ p.content = c
  BY DEF Message
<1>2. [m EXCEPT !.content = c, !.reasoning = t, !.isReasoningStreaming = b]
        = [p EXCEPT !.reasoning = t, !.isReasoningStreaming = b]
  BY DEF Message
<1> HIDE DEF p
<1> DEFINE q == [p EXCEPT !.reasoning = t]
<1>3. q \in Message /\ q.content = c /\ q.reasoning = t
  BY <1>1 DEF Message
<1>4. [p EXCEPT !.reasoning = t, !.isReasoningStreaming = b]
        = [q EXCEPT !.isReasoningStreaming = b]
  BY <1>1 DEF Message
<1> HIDE DEF q
<1>5. /\ [q EXCEPT !.isReasoningStreaming = b].content = c
      /\ [q EXCEPT !.isReasoningStreaming = b].reasoning = t
  BY <1>3 DEF Message
<1> QED
  BY <1>2, <1>4, <1>5

\* Setting the status leaves the texts alone.
LEMMA StatusFields ==
  ASSUME NEW m \in Message, NEW st \in Status
  PROVE  /\ [m EXCEPT !.status = st].content = m.content
         /\ [m EXCEPT !.status = st].reasoning = m.reasoning
  BY DEF Message

\* What was delivered is text.
LEMMA DeliveredTexts ==
  ASSUME NEW own \in Delivered
  PROVE  /\ own.content \in Seq(Sent) /\ own.reasoning \in Seq(Sent)
         /\ own.content \in Seq(Token) /\ own.reasoning \in Seq(Token)
<1>1. own.content \in Seq(Sent) /\ own.reasoning \in Seq(Sent)
  BY DEF Delivered
<1> QED
  BY <1>1, Texts

\* The message of a new generation.
LEMMA LoadingGrows ==
  ASSUME NEW r \in Requests, NEW own, Nothing(own)
  PROVE  Grows(createLoadingAssistantMessage(r), own)
  BY ParseEmpty DEF Grows, Reasons, Thoughts, Nothing, createLoadingAssistantMessage, NoTags

\* finalizeMessage separates the think parts of a message that was growing, and
\* keeps the reasoning that came on its own.
LEMMA FinalizeShows ==
  ASSUME NEW m \in Message, NEW own \in Delivered, Grows(m, own)
  PROVE  Shows([finalizeMessage(m, <<>>) EXCEPT !.status = "complete"], own)
<1> DEFINE a == parseThinkTags(own.content)
           t == FirstNonEmpty(m.reasoning, a.reasoning)
           f == finalizeMessage(m, <<>>)
<1>1. m.content = own.content /\ m.reasoning \in Seq(Token) /\ own.content \in Seq(Token)
  BY MessageFields, DeliveredTexts DEF Grows
<1>2. a \in Parsed
  BY <1>1, ParseTyped
<1>3. f = [m EXCEPT !.content = a.visibleContent, !.reasoning = t,
                    !.isReasoningStreaming = FALSE]
  BY <1>1 DEF finalizeMessage, FirstNonEmpty
<1> HIDE DEF a
<1>4. a.visibleContent \in Seq(Token) /\ a.reasoning \in Seq(Token)
  BY <1>2 DEF Parsed
<1>5. t \in Seq(Token)
  BY <1>1, <1>4, Texts
<1>6. f \in Message
  BY FinalizeTyped, Texts DEF IsUpdate
<1>7. t = FirstNonEmpty(m.reasoning, a.reasoning)
  OBVIOUS
<1> HIDE DEF f, t
<1>8. f.content = a.visibleContent /\ f.reasoning = t
  BY <1>3, <1>4, <1>5, TextFields
<1> DEFINE g == [f EXCEPT !.status = "complete"]
<1>9. g.content = a.visibleContent /\ g.reasoning = t
  BY <1>6, <1>8, StatusFields DEF Status
<1> HIDE DEF g
<1>10. /\ own.reasoning = <<>> => m.reasoning \in Thoughts(a.reasoning)
       /\ "<think>" \notin Range(own.content) =>
             m.reasoning = own.reasoning /\ a.reasoning = <<>>
  BY <1>1, NoThink DEF Grows, Reasons, a
<1>11. /\ own.reasoning = <<>> => t \in Thoughts(a.reasoning)
       /\ "<think>" \notin Range(own.content) => t = own.reasoning
  BY <1>7, <1>10 DEF FirstNonEmpty, Thoughts
<1>12. Shows(g, own)
  BY <1>9, <1>11 DEF Shows, Reasons, a
<1> QED
  BY <1>12 DEF g, f

\* A chunk of text: the whole text is parsed again, so it does not matter where
\* the stream was cut.
LEMMA ContentGrows ==
  ASSUME NEW m \in Message, NEW own \in Delivered, NEW chunk \in Seq(Sent), Grows(m, own)
  PROVE  Grows([processStreamingContent(m, chunk) EXCEPT !.status = "streaming"],
               Deliver(own, "content", chunk))
<1> DEFINE full == Join(own.content, chunk)
           a == parseThinkTags(full)
           b == parseThinkTags(own.content)
           t == FirstNonEmpty(a.reasoning, m.reasoning)
           f == processStreamingContent(m, chunk)
           new == Deliver(own, "content", chunk)
<1>1. /\ m.content = own.content /\ m.reasoning \in Seq(Token) /\ own.content \in Seq(Token)
      /\ chunk \in Seq(Token) /\ full \in Seq(Token)
  BY MessageFields, DeliveredTexts, Texts, JoinTyped, Tags DEF Grows
<1>2. a \in Parsed /\ b \in Parsed
  BY <1>1, ParseTyped
<1>3. f = [m EXCEPT !.content = full, !.reasoning = t,
                    !.isReasoningStreaming = a.hasUnclosedTag]
  BY <1>1 DEF processStreamingContent
<1>4. f \in Message
  BY <1>1, StreamingTyped DEF IsUpdate
<1>5. new.content = full /\ new.reasoning = own.reasoning
  BY DeliverTyped
<1>6. a.reasoning = <<>> => b.reasoning \in {<<>>, <<"</thi">>}
  BY <1>1, JoinReasons
<1>7. own.reasoning = <<>> => m.reasoning \in Thoughts(b.reasoning)
  BY DEF Grows, Reasons
<1>b. "<think>" \notin Range(full) => m.reasoning = own.reasoning /\ a.reasoning = <<>>
  BY <1>1, JoinThinks, NoThink DEF Grows, Reasons
<1>a. a = parseThinkTags(full)
  OBVIOUS
<1> HIDE DEF f, full, new, a, b
<1>8. a.reasoning \in Seq(Token) /\ a.hasUnclosedTag \in BOOLEAN
  BY <1>2 DEF Parsed
<1>9. t \in Seq(Token)
  BY <1>1, <1>8, Texts
<1>10. t = IF a.reasoning # <<>> THEN a.reasoning ELSE m.reasoning
  BY DEF FirstNonEmpty
<1> HIDE DEF t
<1>11. f.content = full /\ f.reasoning = t
  BY <1>1, <1>3, <1>8, <1>9, TextFields
<1> DEFINE g == [f EXCEPT !.status = "streaming"]
<1>12. g.content = full /\ g.reasoning = t
  BY <1>4, <1>11, StatusFields DEF Status
<1> HIDE DEF g
<1>13. /\ own.reasoning = <<>> => t \in Thoughts(a.reasoning)
       /\ "<think>" \notin Range(full) => t = own.reasoning
  BY <1>6, <1>7, <1>10, <1>b DEF Thoughts
<1>14. Grows(g, new)
  BY <1>5, <1>12, <1>13, <1>a DEF Grows, Reasons
<1> QED
  BY <1>14 DEF g, f, new

\* A chunk of reasoning is joined to what is there.
LEMMA ReasoningGrows ==
  ASSUME NEW m \in Message, NEW own \in Delivered, NEW chunk \in Seq(Sent), Grows(m, own)
  PROVE  Grows([m EXCEPT !.reasoning = Join(@, chunk), !.isReasoningStreaming = TRUE,
                         !.status = "streaming"],
               Deliver(own, "reasoning", chunk))
<1> DEFINE t == Join(m.reasoning, chunk)
           new == Deliver(own, "reasoning", chunk)
           b == parseThinkTags(own.content)
           e == [m EXCEPT !.reasoning = Join(@, chunk), !.isReasoningStreaming = TRUE,
                          !.status = "streaming"]
<1>1. /\ m.content = own.content /\ m.reasoning \in Seq(Token) /\ own.reasoning \in Seq(Token)
      /\ chunk \in Seq(Token)
  BY MessageFields, DeliveredTexts, Texts DEF Grows
<1>2. new.content = own.content /\ new.reasoning = Join(own.reasoning, chunk)
  BY DeliverTyped
<1>3. /\ own.reasoning = <<>> => m.reasoning \in Thoughts(b.reasoning)
      /\ "<think>" \notin Range(own.content) => m.reasoning = own.reasoning
  BY DEF Grows, Reasons
<1>4. Join(own.reasoning, chunk) = <<>> => own.reasoning = <<>> /\ chunk = <<>>
  BY <1>1, JoinTyped, Tags
<1>5. Join(m.reasoning, <<>>) = m.reasoning
  BY <1>1, JoinTyped, Tags
<1>6. e.content = m.content /\ e.reasoning = t
  <2>1. e = [m EXCEPT !.reasoning = t, !.isReasoningStreaming = TRUE, !.status = "streaming"]
    OBVIOUS
  <2> HIDE DEF t, e
  <2>2. m.content \in Seq(Token)
    BY MessageFields
  <2> QED
    BY <2>1 DEF Message
<1> HIDE DEF new, b, e
<1>7. /\ new.reasoning = <<>> => t \in Thoughts(b.reasoning)
      /\ "<think>" \notin Range(own.content) => t = new.reasoning
  BY <1>2, <1>3, <1>4, <1>5
<1> HIDE DEF t
<1>8. Grows(e, new)
  BY <1>1, <1>2, <1>6, <1>7 DEF Grows, Reasons, b
<1> QED
  BY <1>8 DEF e, new

\* handleStreamUpdate keeps a message that waits in step with its stream.
LEMMA UpdateGrows ==
  ASSUME NEW m \in Message, NEW own \in Delivered, NEW type \in {"reasoning", "content"},
         NEW chunk \in Seq(Sent), Grows(m, own), Unsettled(m)
  PROVE  /\ Grows(StreamUpdate(m, type, chunk), Deliver(own, type, chunk))
         /\ Unsettled(StreamUpdate(m, type, chunk))
<1>1. m.status # "error" /\ m.from = "assistant"
  BY DEF Unsettled
<1>2. CASE type = "reasoning"
  <2> DEFINE e == [m EXCEPT !.reasoning = Join(@, chunk), !.isReasoningStreaming = TRUE,
                            !.status = "streaming"]
  <2>1. StreamUpdate(m, type, chunk) = e
    BY <1>1, <1>2 DEF StreamUpdate
  <2>2. Grows(e, Deliver(own, type, chunk))
    BY <1>2, ReasoningGrows
  <2>3. e.status = "streaming" /\ e.from = "assistant"
    BY <1>1 DEF Message
  <2> QED
    BY <2>1, <2>2, <2>3 DEF Unsettled
<1>3. CASE type = "content"
  <2> DEFINE p == processStreamingContent(m, chunk)
             e == [p EXCEPT !.status = "streaming"]
  <2>1. StreamUpdate(m, type, chunk) = e
    BY <1>1, <1>3 DEF StreamUpdate
  <2>2. Grows(e, Deliver(own, type, chunk))
    BY <1>3, ContentGrows
  <2>3. IsUpdate(m, p)
    BY StreamingTyped, Texts
  <2> HIDE DEF p
  <2>4. e.status = "streaming" /\ e.from = "assistant"
    BY <1>1, <2>3, SetStatus DEF IsUpdate, Status
  <2> HIDE DEF e
  <2> QED
    BY <2>1, <2>2, <2>4 DEF Unsettled
<1> QED
  BY <1>2, <1>3

\* [DONE] and Stop finish a message that waits.
LEMMA EndShows ==
  ASSUME NEW m \in Message, NEW own \in Delivered, Grows(m, own), Unsettled(m)
  PROVE  /\ Shows(StreamComplete(m), own) /\ StreamComplete(m).status = "complete"
         /\ Shows(StopMessage(m), own) /\ StopMessage(m).status = "complete"
<1> DEFINE f == finalizeMessage(m, <<>>)
           e == [f EXCEPT !.status = "complete"]
<1>1. StreamComplete(m) = e /\ StopMessage(m) = e
  BY DEF StreamComplete, StopMessage, Unsettled
<1>2. Shows(e, own)
  BY FinalizeShows
<1>3. f \in Message
  BY FinalizeTyped, Texts DEF IsUpdate
<1> HIDE DEF f
<1>4. e.status = "complete"
  BY <1>3, SetStatus DEF Status
<1> QED
  BY <1>1, <1>2, <1>4

\* The answer to a plain request finishes the message that waited for it.
LEMMA AnswerShows ==
  ASSUME NEW m \in Message, NEW own, Grows(m, own), Nothing(own), NEW answer \in Answers
  PROVE  Shows(AnswerMessage(m, answer),
               [chunks |-> 1, content |-> answer.content, reasoning |-> answer.reasoning])
<1> DEFINE text == answer.content
           api == answer.reasoning
           p == [m EXCEPT !.content = text]
           a == parseThinkTags(text)
           t == FirstNonEmpty(api, a.reasoning)
           f == finalizeMessage(p, api)
           new == [chunks |-> 1, content |-> text, reasoning |-> api]
<1>1. text \in Seq(Token) /\ api \in Seq(Token)
  BY Texts
<1>2. a \in Parsed /\ ("<think>" \notin Range(text) => a.reasoning = <<>>)
  BY <1>1, ParseTyped, NoThink
<1>3. new.content = text /\ new.reasoning = api
  OBVIOUS
<1>4. m.reasoning = <<>>
  BY DEF Grows, Reasons, Nothing, Range
<1> HIDE DEF text, api
<1>5. p \in Message /\ p.content = text /\ p.reasoning = <<>>
  BY <1>1, <1>4 DEF Message
<1> HIDE DEF p
<1>6. f = [p EXCEPT !.content = a.visibleContent, !.reasoning = t,
                    !.isReasoningStreaming = FALSE]
  BY <1>5 DEF finalizeMessage, FirstNonEmpty
<1>7. f \in Message
  BY <1>1, <1>5, FinalizeTyped DEF IsUpdate
<1>a. a = parseThinkTags(text)
  OBVIOUS
<1> HIDE DEF a, f, new
<1>8. a.visibleContent \in Seq(Token) /\ a.reasoning \in Seq(Token)
  BY <1>2 DEF Parsed
<1>9. t \in Seq(Token)
  BY <1>1, <1>8, Texts
<1>10. /\ api = <<>> => t \in Thoughts(a.reasoning)
       /\ a.reasoning = <<>> => t = api
  BY DEF FirstNonEmpty, Thoughts
<1> HIDE DEF t
<1>11. f.content = a.visibleContent /\ f.reasoning = t
  BY <1>5, <1>6, <1>8, <1>9, TextFields
<1> DEFINE g == [f EXCEPT !.status = "complete"]
<1>12. g.content = a.visibleContent /\ g.reasoning = t
  BY <1>7, <1>11, StatusFields DEF Status
<1> HIDE DEF g
<1>13. Shows(g, new)
  BY <1>2, <1>3, <1>10, <1>12, <1>a DEF Shows, Reasons
<1> QED
  BY <1>13 DEF AnswerMessage, g, f, p, new, text, api

-----------------------------------------------------------------------------
(* A finished message shows what arrived                                      *)

\* A connection that may still deliver something, and one whose page is no more.
Live == {"open", "pending"}
Dropped == {"left", "gone"}
USE DEF Dropped

\* The last message waits for generation r.
Waits(list, r) == list # <<>> /\ Unsettled(Last(list)) /\ Last(list).key = r

\* An assistant message belongs to a generation that was sent; when it is
\* complete, that generation is over, and the message shows what it delivered
\* unless the user edited it or a reload came in between.
Finished(m, c, rec) ==
  m.from = "assistant" =>
    /\ c[m.key] # "unsent"
    /\ m.status = "complete" =>
         /\ c[m.key] \notin Live
         /\ c[m.key] \notin Dropped => m.content = <<"edit">> \/ Shows(m, rec[m.key])

Honest(list, c, rec) == \A i \in 1..Len(list) : Finished(list[i], c, rec)

\* A message that waits at the end of the list is in step with its generation.
InStep(list, c, rec) ==
  list # <<>> /\ Unsettled(Last(list)) /\ c[Last(list).key] \notin Dropped =>
    Grows(Last(list), rec[Last(list).key])

\* Nothing comes before a generation is sent, or before the answer to a plain
\* request; streaming sends no plain request; and the current source is none
\* that a reload dropped.
ConnInv ==
  /\ \A r \in Requests : conn[r] \in {"unsent", "pending"} => Nothing(received[r])
  /\ stream => \A r \in Requests : conn[r] # "pending"
  /\ source # NoSource => conn[source] \notin Dropped

\* Unless a control raced, a live generation owns the last message, what waits
\* is in step, and the finished messages of the list and of the page are true.
ShownInv ==
  ~raced =>
    /\ \A r \in Requests : conn[r] \in Live => Waits(messages, r)
    /\ Honest(messages, conn, received)
    /\ Honest(rendered.messages, conn, received)
    /\ InStep(messages, conn, received)

\* How callbacks, Stop and a reload change connections and deliveries.
Evolves(c, rec, d, new) ==
  \A q \in Requests :
    /\ \/ d[q] = c[q]
       \/ d[q] \in {"closed", "truncated"} /\ c[q] \notin Dropped
       \/ d[q] \in Dropped
    /\ new[q] = rec[q] \/ c[q] \in Live

\* Such a change leaves finished messages true.
LEMMA HonestStays ==
  ASSUME NEW list \in Seq(Message), NEW c, NEW rec, NEW d, NEW new,
         Evolves(c, rec, d, new), Honest(list, c, rec)
  PROVE  Honest(list, d, new)
<1> SUFFICES ASSUME NEW i \in 1..Len(list) PROVE Finished(list[i], d, new)
  BY DEF Honest
<1> DEFINE m == list[i]
<1>1. m.key \in Requests
  BY ElementOfSeq, MessageFields
<1>2. Finished(m, c, rec)
  BY DEF Honest
<1> DEFINE q == m.key
<1>3. /\ d[q] = c[q] \/ (d[q] \in {"closed", "truncated"} /\ c[q] \notin Dropped) \/ d[q] \in Dropped
      /\ new[q] = rec[q] \/ c[q] \in Live
  BY <1>1 DEF Evolves
<1> HIDE DEF m
<1>4. Finished(m, d, new)
  BY <1>2, <1>3 DEF Finished, Live
<1> QED
  BY <1>4 DEF m

\* What updateLastAssistantMessage makes of a list that ends with an assistant
\* message.
LEMMA UpdatedList ==
  ASSUME NEW list \in Seq(Message), NEW m \in Message, list # <<>>,
         Last(list).from = "assistant"
  PROVE  LET new == updateLastAssistantMessage(list, m)
         IN  /\ new \in Seq(Message) /\ Len(new) = Len(list) /\ new # <<>> /\ Last(new) = m
             /\ \A i \in 1..Len(new) : new[i] = m \/ new[i] = list[i]
<1> DEFINE new == updateLastAssistantMessage(list, m)
<1>1. Len(list) \in 1..Len(list)
  BY LastTyped
<1>2. new = ReplaceAt(list, Len(list), m)
  BY DEF updateLastAssistantMessage
<1> HIDE DEF new
<1>3. /\ new \in Seq(Message) /\ Len(new) = Len(list) /\ new[Len(list)] = m
      /\ \A k \in 1..Len(list) : k # Len(list) => new[k] = list[k]
  BY <1>1, <1>2, ReplaceTyped
<1>4. new # <<>> /\ Last(new) = m
  BY <1>1, <1>3 DEF Last
<1> QED
  BY <1>3, <1>4 DEF new

\* The finished messages stay true when the last one is replaced by a true one.
LEMMA UpdateHonest ==
  ASSUME NEW list \in Seq(Message), NEW m, NEW c, NEW rec, Honest(list, c, rec),
         list # <<>> => IsUpdate(Last(list), m) /\ Finished(m, c, rec)
  PROVE  Honest(updateLastAssistantMessage(list, m), c, rec)
<1>1. CASE list # <<>> /\ Last(list).from = "assistant"
  <2> DEFINE new == updateLastAssistantMessage(list, m)
  <2>1. Len(new) = Len(list) /\ \A i \in 1..Len(new) : new[i] = m \/ new[i] = list[i]
    BY <1>1, UpdatedList DEF IsUpdate
  <2> HIDE DEF new
  <2> HIDE DEF Finished
  <2>2. Honest(new, c, rec)
    BY <1>1, <2>1 DEF Honest
  <2> QED
    BY <2>2 DEF new
<1>2. CASE ~(list # <<>> /\ Last(list).from = "assistant")
  BY <1>2 DEF updateLastAssistantMessage
<1> QED
  BY <1>1, <1>2

\* The message of a failed generation is finished with nothing to show.
LEMMA ErrorFinished ==
  ASSUME NEW m \in Message, NEW c, NEW rec, Finished(m, c, rec)
  PROVE  LET e == [m EXCEPT !.content = <<"error">>, !.status = "error",
                            !.isReasoningStreaming = FALSE]
         IN  IsUpdate(m, e) /\ Finished(e, c, rec) /\ e.status = "error"
<1> DEFINE e == [m EXCEPT !.content = <<"error">>, !.status = "error",
                          !.isReasoningStreaming = FALSE]
<1>1. IsUpdate(m, e) /\ e.status = "error"
  BY SetError
<1> HIDE DEF e
<1>2. Finished(e, c, rec)
  BY <1>1 DEF Finished, IsUpdate
<1> QED
  BY <1>1, <1>2 DEF e

\* The list of a control that starts generation r: its assistant messages are
\* those of the page, and the new one at its end.
MadeFrom(list, page, r) ==
  /\ list # <<>> /\ Last(list) = createLoadingAssistantMessage(r)
  /\ \A i \in 1..Len(list) :
       list[i].from = "assistant" =>
         \/ list[i] = createLoadingAssistantMessage(r)
         \/ \E k \in 1..Len(page) : list[i] = page[k]

\* Appending the loading message.
LEMMA AppendMade ==
  ASSUME NEW p \in Seq(Message), NEW page, NEW r \in Requests,
         \A i \in 1..Len(p) : p[i].from = "assistant" =>
            \E k \in 1..Len(page) : p[i] = page[k]
  PROVE  LET new == Append(p, createLoadingAssistantMessage(r))
         IN  new \in Seq(Message) /\ MadeFrom(new, page, r)
<1> DEFINE a == createLoadingAssistantMessage(r)
           new == Append(p, a)
<1>1. a \in Message
  BY NewMessages
<1>2. Len(p) \in Nat
  BY LenProperties
<1>3. /\ new \in Seq(Message) /\ new # <<>> /\ Len(new) = Len(p) + 1
      /\ \A i \in 1..Len(p) : new[i] = p[i]
      /\ new[Len(p) + 1] = a
  BY <1>1, AppendProperties
<1> HIDE DEF new, a
<1>4. Last(new) = a
  BY <1>3 DEF Last
<1>5. \A i \in 1..Len(new) : i \in 1..Len(p) \/ i = Len(p) + 1
  BY <1>2, <1>3
<1>6. MadeFrom(new, page, r)
  BY <1>3, <1>4, <1>5 DEF MadeFrom, a
<1> QED
  BY <1>3, <1>6 DEF new, a

\* Every control that starts a generation makes such a list, of a generation
\* that was not sent before.
LEMMA SendMakes ==
  ASSUME TypeOK, NEW r \in Requests, Send(r)
  PROVE  /\ conn[r] = "unsent"
         /\ \E list \in Seq(Message) :
              SendChat(r, list) /\ MadeFrom(list, rendered.messages, r)
<1> DEFINE page == rendered.messages
           a == createLoadingAssistantMessage(r)
           u == createUserMessage(r)
           new == page \o <<u, a>>
<1>1. page \in Seq(Message) /\ DOMAIN page = 1..Len(page) /\ Len(page) \in Nat
  BY RenderedTyped
<1>2. a \in Message /\ u \in Message /\ u.from = "user"
  BY NewMessages DEF createUserMessage
<1>3. new \in Seq(Message) /\ MadeFrom(new, page, r)
  <2> HIDE DEF page
  <2> DEFINE p == Append(page, u)
  <2>1. new = Append(p, a)
    <3> HIDE DEF u, a
    <3> QED
      BY <1>1, <1>2
  <2>2. /\ p \in Seq(Message) /\ Len(p) = Len(page) + 1 /\ p[Len(page) + 1] = u
        /\ \A i \in 1..Len(page) : p[i] = page[i]
    BY <1>1, <1>2, AppendProperties
  <2> HIDE DEF p, u
  <2>3. \A i \in 1..Len(p) : i \in 1..Len(page) \/ i = Len(page) + 1
    BY <1>1, <2>2
  <2>4. \A i \in 1..Len(p) : p[i].from = "assistant" => \E k \in 1..Len(page) : p[i] = page[k]
    BY <1>2, <2>2, <2>3
  <2>5. Append(p, a) \in Seq(Message) /\ MadeFrom(Append(p, a), page, r)
    BY <2>2, <2>4, AppendMade
  <2> HIDE DEF new
  <2> QED
    BY <2>1, <2>5
<1>4. CASE HandleSendMessage(r)
  <2>1. SendChat(r, new) /\ conn[r] = "unsent"
    BY <1>4 DEF HandleSendMessage, Fresh
  <2> HIDE DEF new
  <2> QED
    BY <1>3, <2>1
<1>5. CASE HandleSuggestionClick(r)
  <2>1. SendChat(r, new) /\ conn[r] = "unsent"
    BY <1>5 DEF HandleSuggestionClick, Fresh
  <2> HIDE DEF new
  <2> QED
    BY <1>3, <2>1
<1>6. ASSUME NEW i \in DOMAIN page, HandleRegenerateMessage(r, i)
      PROVE  /\ conn[r] = "unsent"
             /\ \E list \in Seq(Message) : SendChat(r, list) /\ MadeFrom(list, page, r)
  <2> DEFINE p == SubSeq(page, 1, i - 1)
             l == Append(p, a)
  <2>1. i - 1 \in 0..Len(page)
    BY <1>1, <1>6
  <2>2. p \in Seq(Message) /\ Len(p) = i - 1 /\ \A k \in 1..(i - 1) : p[k] = page[k]
    <3> HIDE DEF page
    <3> QED
      BY <1>1, <2>1
  <2>3. \A k \in 1..Len(p) : k \in 1..(i - 1) /\ k \in 1..Len(page)
    BY <1>1, <2>1, <2>2
  <2>4. l \in Seq(Message) /\ MadeFrom(l, page, r)
    <3> HIDE DEF p, page
    <3> QED
      BY <2>2, <2>3, AppendMade
  <2>5. SendChat(r, l) /\ conn[r] = "unsent"
    BY <1>6 DEF HandleRegenerateMessage, Fresh
  <2> HIDE DEF l
  <2> QED
    BY <2>4, <2>5
<1>7. ASSUME NEW i \in DOMAIN page, ApplyEditSubmit(r, i)
      PROVE  /\ conn[r] = "unsent"
             /\ \E list \in Seq(Message) : SendChat(r, list) /\ MadeFrom(list, page, r)
  <2> DEFINE e == Edited(page, i)
             p == SubSeq(e, 1, i)
             l == Append(p, a)
  <2>0. i \in 1..Len(page) /\ page[i] \in Message /\ page[i].from = "user"
    BY <1>1, <1>7, ElementOfSeq DEF ApplyEditSubmit
  <2>1. /\ e \in Seq(Message) /\ Len(e) = Len(page) /\ e[i].from = "user"
        /\ \A k \in 1..Len(page) : k # i => e[k] = page[k]
    <3> HIDE DEF page
    <3>1. e \in Seq(Message) /\ Len(e) = Len(page)
      BY <1>1, <2>0, EditList
    <3>2. e[i] = [page[i] EXCEPT !.content = <<"edit">>]
          /\ \A k \in 1..Len(page) : k # i => e[k] = page[k]
      BY <1>1, <2>0 DEF Edited
    <3>3. [page[i] EXCEPT !.content = <<"edit">>].from = page[i].from
      BY <2>0 DEF Message
    <3> QED
      BY <2>0, <3>1, <3>2, <3>3
  <2>2. p \in Seq(Message) /\ Len(p) = i /\ \A k \in 1..i : p[k] = e[k]
    <3> HIDE DEF e, page
    <3> QED
      BY <1>1, <2>0, <2>1
  <2>3. \A k \in 1..Len(p) : p[k].from = "assistant" => \E x \in 1..Len(page) : p[k] = page[x]
    <3> HIDE DEF e, p, page
    <3>1. \A k \in 1..i : k \in 1..Len(page)
      BY <1>1, <2>0
    <3> QED
      BY <2>1, <2>2, <3>1
  <2>4. l \in Seq(Message) /\ MadeFrom(l, page, r)
    <3> HIDE DEF p, page
    <3> QED
      BY <2>2, <2>3, AppendMade
  <2>5. SendChat(r, l) /\ conn[r] = "unsent"
    BY <1>7 DEF ApplyEditSubmit, Fresh
  <2> HIDE DEF l
  <2> QED
    BY <2>4, <2>5
<1> QED
  BY <1>4, <1>5, <1>6, <1>7 DEF Send

\* Editing and deleting keep the finished messages of the page true: one is
\* taken out, or shows what the user typed.
LEMMA EditMakes ==
  ASSUME TypeOK, EditOrDelete, ~UNCHANGED messages \/ ~UNCHANGED rendered,
         NEW c, NEW rec, Honest(rendered.messages, c, rec)
  PROVE  Honest(messages', c, rec)
<1> DEFINE page == rendered.messages
<1>1. page \in Seq(Message) /\ DOMAIN page = 1..Len(page) /\ Len(page) \in Nat
  BY RenderedTyped
<1>2. ASSUME NEW i \in DOMAIN page, ApplyEditSave(i) PROVE Honest(messages', c, rec)
  <2> DEFINE l == Edited(page, i)
             m == [page[i] EXCEPT !.content = <<"edit">>]
  <2>0. i \in 1..Len(page) /\ page[i] \in Message
    BY <1>1, <1>2, ElementOfSeq
  <2>1. messages' = l
    BY <1>2 DEF ApplyEditSave, ShowAndSave
  <2>2. Len(l) = Len(page)
    <3> HIDE DEF page
    <3> QED
      BY <1>1, <2>0, EditList
  <2>3. l[i] = m /\ \A k \in 1..Len(page) : k # i => l[k] = page[k]
    <3> HIDE DEF page
    <3> QED
      BY <1>1, <2>0 DEF Edited
  <2>4. Finished(m, c, rec)
    <3>1. Finished(page[i], c, rec)
      BY <2>0 DEF Honest
    <3>2. m.from = page[i].from /\ m.key = page[i].key /\ m.status = page[i].status
          /\ m.content = <<"edit">>
      BY <2>0 DEF Message
    <3> HIDE DEF m
    <3> QED
      BY <3>1, <3>2 DEF Finished
  <2> HIDE DEF l, m, Finished
  <2>5. Honest(l, c, rec)
    BY <2>2, <2>3, <2>4 DEF Honest
  <2> QED
    BY <2>1, <2>5
<1>3. ASSUME NEW i \in DOMAIN page, HandleDeleteMessage(i) PROVE Honest(messages', c, rec)
  <2> DEFINE p == SubSeq(page, 1, i - 1)
             q == SubSeq(page, i + 1, Len(page))
             l == p \o q
  <2>0. i \in 1..Len(page)
    BY <1>1, <1>3
  <2>1. messages' = l
    BY <1>3 DEF HandleDeleteMessage, ShowAndSave, RemoveAt
  <2>2. /\ p \in Seq(Message) /\ Len(p) = i - 1
        /\ \A k \in 1..(i - 1) : p[k] = page[k]
    <3> HIDE DEF page
    <3> QED
      BY <1>1, <2>0
  <2>3. /\ q \in Seq(Message) /\ Len(q) = Len(page) - i
        /\ \A k \in 1..(Len(page) - i) : q[k] = page[k + i]
    <3> HIDE DEF page
    <3> QED
      BY <1>1, <2>0
  <2> HIDE DEF p, q, page
  <2>4. /\ Len(l) = Len(p) + Len(q)
        /\ \A k \in 1..(Len(p) + Len(q)) : l[k] = IF k <= Len(p) THEN p[k] ELSE q[k - Len(p)]
    BY <2>2, <2>3, ConcatProperties
  <2> HIDE DEF l
  <2>5. ASSUME NEW k \in 1..Len(l) PROVE \E x \in 1..Len(page) : l[k] = page[x]
    <3>1. CASE k <= i - 1
      <4>1. k \in 1..(i - 1) /\ k \in 1..Len(page)
        BY <1>1, <2>0, <2>2, <2>3, <2>4, <3>1
      <4>2. l[k] = page[k]
        BY <2>2, <2>4, <3>1, <4>1
      <4> QED
        BY <4>1, <4>2
    <3>2. CASE ~(k <= i - 1)
      <4>1. k - (i - 1) \in 1..(Len(page) - i) /\ k - (i - 1) + i \in 1..Len(page)
        BY <1>1, <2>0, <2>2, <2>3, <2>4, <3>2
      <4>2. l[k] = page[k - (i - 1) + i]
        BY <2>2, <2>3, <2>4, <3>2, <4>1
      <4> QED
        BY <4>1, <4>2
    <3> QED
      BY <3>1, <3>2
  <2> HIDE DEF Finished
  <2>6. Honest(l, c, rec)
    BY <2>5 DEF Honest, page
  <2> QED
    BY <2>1, <2>6
<1>4. ASSUME NEW i \in DOMAIN page, HandleEditMessage(i) PROVE FALSE
  BY <1>4 DEF HandleEditMessage
<1>5. ~HandleEditCancel
  BY DEF HandleEditCancel
<1> QED
  BY <1>2, <1>3, <1>4, <1>5 DEF EditOrDelete

\* A reload changes one unsettled message, whose generation is dropped.
LEMMA SanitizeHonest ==
  ASSUME NEW list \in Seq(Message), NEW c, NEW rec, NEW d, NEW new,
         Honest(list, c, rec), Evolves(c, rec, d, new),
         \A i \in 1..Len(list) : Unsettled(list[i]) => d[list[i].key] \in Dropped
  PROVE  Honest(sanitizeMessagesOnLoad(list), d, new)
<1>1. Honest(list, d, new)
  BY HonestStays
<1> DEFINE I == {i \in 1..Len(list) : Unsettled(list[i])}
           target == SelectLastInSeq(list, Unsettled)
<1>0. Len(list) \in Nat
  BY LenProperties
<1>2. target = IF I # {} THEN Max(I) ELSE 0
  BY DEF SelectLastInSeq
<1> HIDE DEF target
<1>3. CASE I = {}
  <2>1. sanitizeMessagesOnLoad(list) = list
    BY <1>2, <1>3 DEF sanitizeMessagesOnLoad, target
  <2> QED
    BY <1>1, <2>1
<1>4. CASE I # {}
  <2>1. target \in I /\ target \in 1..Len(list)
    BY <1>0, <1>2, <1>4, MaxIsLast
  <2>2. list[target] \in Message /\ d[list[target].key] \in Dropped
    BY <2>1, ElementOfSeq
  <2> DEFINE done == finalizeMessage(list[target], <<>>)
             m == IF done.content # <<>> \/ done.reasoning # <<>>
                  THEN [done EXCEPT !.status = "complete"]
                  ELSE [done EXCEPT !.content = <<"error">>, !.status = "error"]
  <2>3. done \in Message /\ done.key = list[target].key
    BY <2>2, FinalizeTyped, Texts DEF IsUpdate
  <2> HIDE DEF done
  <2>4. m \in Message /\ m.key = done.key
    <3>1. <<"error">> \in Seq(Token) /\ "error" \in Status /\ "complete" \in Status
      BY Texts DEF Status
    <3>2. IsUpdate(done, [done EXCEPT !.status = "complete"])
      BY <2>3, <3>1, SetStatus
    <3>3. IsUpdate(done, [done EXCEPT !.content = <<"error">>, !.status = "error"])
      BY <2>3, <3>1, SetContentStatus
    <3> QED
      BY <3>2, <3>3 DEF IsUpdate
  <2>5. sanitizeMessagesOnLoad(list) = ReplaceAt(list, target, m)
    <3>1. target # 0
      BY <1>0, <2>1
    <3> QED
      BY <3>1 DEF sanitizeMessagesOnLoad, target, done
  <2> HIDE DEF m
  <2>6. Finished(m, d, new)
    BY <2>2, <2>3, <2>4 DEF Finished, Live
  <2> DEFINE l == ReplaceAt(list, target, m)
  <2>7. /\ Len(l) = Len(list) /\ l[target] = m
        /\ \A k \in 1..Len(list) : k # target => l[k] = list[k]
    BY <2>1, <2>4, ReplaceTyped
  <2> HIDE DEF l, Finished
  <2>8. Honest(l, d, new)
    BY <1>1, <2>6, <2>7 DEF Honest
  <2> QED
    BY <2>5, <2>8 DEF l
<1> QED
  BY <1>3, <1>4

\* A control that did not race found no generation that could still deliver.
LEMMA IdleConn ==
  ASSUME TypeOK, PageInv, ConnInv, Guarded \/ Unguarded, ~raced'
  PROVE  \A q \in Requests : conn[q] \notin Live
<1>1. NothingOpen
  BY Idle
<1>2. ~raced /\ (stream \/ ~Busy)
  BY DEF Guarded, Unguarded
<1>3. CASE stream
  BY <1>1, <1>3 DEF ConnInv, NothingOpen, Live
<1>4. CASE ~Busy
  BY <1>4 DEF Busy, Live
<1> QED
  BY <1>2, <1>3, <1>4

\* What closes, cuts off or drops connections keeps ConnInv.
LEMMA ConnStays ==
  ASSUME TypeOK, ConnInv, stream' = stream, source' = source \/ source' = NoSource,
         \A q \in Requests : \/ conn'[q] = conn[q]
                             \/ conn'[q] \in {"closed", "truncated"}
                             \/ conn'[q] = "gone" /\ conn[q] = "left"
                             \/ conn'[q] \in Dropped /\ source' = NoSource,
         \A q \in Requests : received'[q] = received[q]
                             \/ conn'[q] \notin {"unsent", "pending"}
  PROVE  ConnInv'
<1>1. ASSUME NEW q \in Requests, conn'[q] \in {"unsent", "pending"} PROVE Nothing(received'[q])
  BY <1>1 DEF ConnInv
<1>2. ASSUME stream', NEW q \in Requests PROVE conn'[q] # "pending"
  BY <1>2 DEF ConnInv
<1>3. ASSUME source' # NoSource PROVE conn'[source'] \notin Dropped
  BY <1>3 DEF ConnInv, TypeOK
<1> QED
  BY <1>1, <1>2, <1>3 DEF ConnInv

\* Starting a generation.
LEMMA SendShown ==
  ASSUME TypeOK, PageInv, ConnInv, ShownInv, NEW r \in Requests, Send(r)
  PROVE  ConnInv' /\ ShownInv'
<1>1. PICK l \in Seq(Message) : SendChat(r, l) /\ MadeFrom(l, rendered.messages, r)
  BY SendMakes
<1>2. (Guarded \/ Unguarded) /\ UNCHANGED <<stream, received>>
  BY SendKind
<1>3. ~raced' => ~raced /\ \A q \in Requests : conn[q] \notin Live
  BY <1>2, Idle, IdleConn
<1>4. conn[r] = "unsent" /\ Nothing(received[r])
  BY SendMakes DEF ConnInv
<1>t. conn \in [Requests -> Conn] /\ r # NoSource /\ source \in Requests \cup {NoSource}
  BY RequestIsSome DEF TypeOK
<1> DEFINE a == createLoadingAssistantMessage(r)
           e == updateAssistantMessageWithError(l)
<1>a. a \in Message /\ a.key = r /\ a.status = "loading" /\ Unsettled(a)
  BY NewMessages DEF createLoadingAssistantMessage, Unsettled
<1>g. Grows(a, received[r])
  BY <1>4, LoadingGrows
<1>l. /\ l # <<>> /\ Last(l) = a
      /\ \A i \in 1..Len(l) : l[i].from = "assistant" =>
            l[i] = a \/ \E k \in 1..Len(rendered.messages) : l[i] = rendered.messages[k]
  BY <1>1 DEF MadeFrom
<1> HIDE DEF a
<1>5. ASSUME ~raced', NEW st \in {"open", "closed", "pending"},
             conn' = [conn EXCEPT ![r] = st]
      PROVE  Honest(l, conn', received')
  <2> SUFFICES ASSUME NEW i \in 1..Len(l) PROVE Finished(l[i], conn', received')
    BY DEF Honest
  <2>1. l[i] \in Message
    BY ElementOfSeq
  <2>2. conn'[r] = st
    BY <1>5, <1>t
  <2>3. CASE l[i].from # "assistant"
    BY <2>3 DEF Finished
  <2>4. CASE l[i] = a
    BY <1>a, <2>2, <2>4 DEF Finished
  <2>5. ASSUME NEW k \in 1..Len(rendered.messages), l[i] = rendered.messages[k],
               l[i].from = "assistant"
        PROVE  Finished(l[i], conn', received')
    <3>1. Finished(l[i], conn, received)
      BY <1>3, <1>5, <2>5 DEF ShownInv, Honest
    <3>2. l[i].key \in Requests /\ conn[l[i].key] # "unsent"
      BY <2>1, <2>5, <3>1, MessageFields DEF Finished
    <3>3. conn'[l[i].key] = conn[l[i].key]
      BY <1>4, <1>5, <1>t, <3>2
    <3> QED
      BY <1>2, <3>1, <3>3 DEF Finished
  <2> QED
    BY <1>l, <2>3, <2>4, <2>5
<1>6. ASSUME ~raced', NEW st \in {"open", "pending"}, conn' = [conn EXCEPT ![r] = st],
             messages' = l, rendered'.messages = l
      PROVE  ShownInv'
  <2>1. Honest(messages', conn', received') /\ Honest(rendered'.messages, conn', received')
    BY <1>5, <1>6
  <2>2. ASSUME NEW q \in Requests, conn'[q] \in Live PROVE Waits(messages', q)
    <3>1. q = r
      BY <1>3, <1>6, <1>t, <2>2
    <3> QED
      BY <1>6, <1>a, <1>l, <3>1 DEF Waits
  <2>3. InStep(messages', conn', received')
    BY <1>2, <1>6, <1>a, <1>g, <1>l DEF InStep
  <2> QED
    BY <2>1, <2>2, <2>3 DEF ShownInv
<1>7. CASE /\ stream /\ source' = r /\ conn' = [conn EXCEPT ![r] = "open"]
           /\ ShowAndSave(l, TRUE)
  <2>1. messages' = l /\ rendered'.messages = l
    BY <1>7, Shown
  <2>2. ShownInv'
    <3>1. CASE ~raced'
      BY <1>6, <1>7, <2>1, <3>1
    <3>2. CASE raced'
      BY <3>2 DEF ShownInv
    <3> QED
      BY <3>1, <3>2
  <2>3. ConnInv'
    BY <1>2, <1>4, <1>7, <1>t DEF ConnInv
  <2> QED
    BY <2>2, <2>3
<1>8. CASE /\ stream /\ source' = NoSource /\ conn' = [conn EXCEPT ![r] = "closed"]
           /\ ShowAndSave(e, FALSE)
  <2> HIDE DEF e
  <2>1. messages' = e /\ rendered'.messages = e
    BY <1>8, Shown
  <2>2. ConnInv'
    BY <1>2, <1>4, <1>8, <1>t DEF ConnInv
  <2>3. ASSUME ~raced' PROVE ShownInv'
    <3>1. Honest(l, conn', received')
      BY <1>5, <1>8, <2>3
    <3> DEFINE x == [Last(l) EXCEPT !.content = <<"error">>, !.status = "error",
                                    !.isReasoningStreaming = FALSE]
    <3>2. e = updateLastAssistantMessage(l, x)
      BY DEF e, updateAssistantMessageWithError
    <3>3. Last(l) \in Message /\ Finished(Last(l), conn', received')
      <4>1. Len(l) \in 1..Len(l) /\ Last(l) = l[Len(l)] /\ Last(l) \in Message
        BY <1>l, LastTyped
      <4> QED
        BY <3>1, <4>1 DEF Honest
    <3>4. IsUpdate(Last(l), x) /\ Finished(x, conn', received') /\ x.status = "error"
      BY <3>3, ErrorFinished
    <3> HIDE DEF x
    <3>5. Honest(e, conn', received')
      BY <3>1, <3>2, <3>4, UpdateHonest
    <3>6. Last(e) = x
      BY <1>a, <1>l, <3>2, <3>4, UpdatedList DEF IsUpdate, Unsettled
    <3>7. \A q \in Requests : conn'[q] \notin Live
      BY <1>3, <1>8, <1>t, <2>3 DEF Live
    <3>8. InStep(e, conn', received')
      BY <3>4, <3>6 DEF InStep, Unsettled
    <3> QED
      BY <2>1, <3>5, <3>7, <3>8 DEF ShownInv
  <2> QED
    BY <2>2, <2>3 DEF ShownInv
<1>9. CASE /\ ~stream /\ conn' = [conn EXCEPT ![r] = "pending"]
           /\ ShowAndSave(l, FALSE) /\ UNCHANGED source
  <2>1. messages' = l /\ rendered'.messages = l
    BY <1>9, Shown
  <2>2. ShownInv'
    <3>1. CASE ~raced'
      BY <1>6, <1>9, <2>1, <3>1
    <3>2. CASE raced'
      BY <3>2 DEF ShownInv
    <3> QED
      BY <3>1, <3>2
  <2>3. ConnInv'
    BY <1>2, <1>4, <1>9, <1>t DEF ConnInv
  <2> QED
    BY <2>2, <2>3
<1> QED
  BY <1>1, <1>7, <1>8, <1>9 DEF SendChat

\* Editing and deleting.
LEMMA EditShown ==
  ASSUME TypeOK, PageInv, ConnInv, ShownInv, EditOrDelete
  PROVE  ConnInv' /\ ShownInv'
<1>1. CASE UNCHANGED <<stream, messages, rendered, storage, source, complete, conn,
                       received, raced>>
  BY <1>1 DEF ConnInv, ShownInv
<1>2. CASE /\ \E list \in Seq(Message) :
                /\ ShowAndSave(list, source # NoSource)
                /\ Settled(rendered.messages) => Settled(list)
           /\ Guarded \/ Unguarded
           /\ UNCHANGED <<stream, source, complete, conn, received>>
  <2>1. PICK l \in Seq(Message) : /\ ShowAndSave(l, source # NoSource)
                                  /\ Settled(rendered.messages) => Settled(l)
    BY <1>2
  <2>2. messages' = l /\ rendered'.messages = l
    BY <2>1, Shown
  <2>3. ConnInv'
    BY <1>2 DEF ConnInv
  <2>4. ASSUME ~raced' PROVE ShownInv'
    <3>1. ~raced /\ Settled(l) /\ \A q \in Requests : conn[q] \notin Live
      BY <1>2, <2>1, <2>4, Idle, IdleConn
    <3>2. Honest(l, conn, received)
      <4>1. CASE ~UNCHANGED messages \/ ~UNCHANGED rendered
        BY <2>2, <3>1, <4>1, EditMakes DEF ShownInv
      <4>2. CASE UNCHANGED messages /\ UNCHANGED rendered
        BY <2>2, <3>1, <4>2 DEF ShownInv
      <4> QED
        BY <4>1, <4>2
    <3>3. InStep(l, conn, received)
      BY <3>1, LastTyped DEF InStep, Settled
    <3> QED
      BY <1>2, <2>2, <3>1, <3>2, <3>3 DEF ShownInv
  <2> QED
    BY <2>3, <2>4 DEF ShownInv
<1> QED
  BY <1>1, <1>2, EditKind

\* A live generation owns the last message of the list, which is in step.
LEMMA Owner ==
  ASSUME TypeOK, ConnInv, ShownInv, ~raced, NEW r \in Requests, conn[r] \in Live
  PROVE  /\ messages # <<>> /\ Last(messages) \in Message
         /\ Unsettled(Last(messages)) /\ Last(messages).from = "assistant"
         /\ Last(messages).key = r /\ Grows(Last(messages), received[r])
         /\ \A q \in Requests : conn[q] \in Live => q = r
<1>1. Waits(messages, r) /\ InStep(messages, conn, received)
  BY DEF ShownInv
<1>2. messages # <<>> /\ Unsettled(Last(messages)) /\ Last(messages).key = r
  BY <1>1 DEF Waits
<1>3. Last(messages) \in Message
  BY <1>2, LastTyped DEF TypeOK
<1>4. Grows(Last(messages), received[r])
  BY <1>1, <1>2 DEF InStep, Live
<1>5. \A q \in Requests : conn[q] \in Live => Last(messages).key = q
  BY DEF ShownInv, Waits
<1> QED
  BY <1>2, <1>3, <1>4, <1>5 DEF Unsettled

\* A generation that is over: its message, if it is complete, shows what was
\* delivered.
LEMMA EndShown ==
  ASSUME TypeOK, ConnInv, ShownInv, NEW r \in Requests, conn[r] \in Live,
         UNCHANGED <<stream, raced>>, rendered'.messages = rendered.messages,
         source' = source \/ source' = NoSource,
         conn' = [conn EXCEPT ![r] = "closed"],
         \A q \in Requests : q # r => received'[q] = received[q],
         NEW m, messages' = updateLastAssistantMessage(messages, m),
         ~raced => /\ IsUpdate(Last(messages), m) /\ ~Unsettled(m)
                   /\ m.status = "complete" => Shows(m, received'[r])
  PROVE  ConnInv' /\ ShownInv'
<1>t. conn \in [Requests -> Conn] /\ messages \in Seq(Message)
      /\ rendered.messages \in Seq(Message)
  BY RenderedTyped DEF TypeOK
<1>c. conn'[r] = "closed" /\ \A q \in Requests : q # r => conn'[q] = conn[q]
  BY <1>t
<1>1. ConnInv'
  <2>1. \A q \in Requests : \/ conn'[q] = conn[q]
                            \/ conn'[q] \in {"closed", "truncated"}
    BY <1>c
  <2>2. \A q \in Requests : received'[q] = received[q] \/ conn'[q] \notin {"unsent", "pending"}
    BY <1>c
  <2> QED
    BY <2>1, <2>2, ConnStays
<1>2. Evolves(conn, received, conn', received')
  BY <1>c DEF Evolves, Live
<1>3. ASSUME ~raced' PROVE ShownInv'
  <2>1. ~raced
    BY <1>3
  <2>2. /\ messages # <<>> /\ Last(messages) \in Message /\ Last(messages).from = "assistant"
        /\ Last(messages).key = r /\ \A q \in Requests : conn[q] \in Live => q = r
    BY <2>1, Owner
  <2>3. /\ Honest(messages, conn', received')
        /\ Honest(rendered.messages, conn', received')
    BY <1>2, <1>t, <2>1, HonestStays DEF ShownInv
  <2>4. m \in Message /\ m.key = r /\ m.from = "assistant"
    BY <2>1, <2>2 DEF IsUpdate
  <2>5. Finished(m, conn', received')
    BY <1>c, <2>1, <2>4 DEF Finished, Live
  <2>6. Honest(messages', conn', received')
    BY <1>t, <2>1, <2>3, <2>5, UpdateHonest
  <2>7. Last(messages') = m
    BY <1>t, <2>2, <2>4, UpdatedList
  <2>8. InStep(messages', conn', received')
    BY <2>1, <2>7 DEF InStep
  <2>9. \A q \in Requests : conn'[q] \notin Live
    BY <1>c, <2>2 DEF Live
  <2> QED
    BY <2>3, <2>6, <2>8, <2>9 DEF ShownInv
<1> QED
  BY <1>1, <1>3 DEF ShownInv

\* One that is cut off, or that an error ends after another stream was done:
\* its message waits on, in step.
LEMMA CutShown ==
  ASSUME TypeOK, ConnInv, ShownInv, NEW r \in Requests, conn[r] \in Live,
         UNCHANGED <<stream, messages, rendered, source, received, raced>>,
         NEW st \in {"closed", "truncated"}, conn' = [conn EXCEPT ![r] = st]
  PROVE  ConnInv' /\ ShownInv'
<1>t. conn \in [Requests -> Conn] /\ messages \in Seq(Message)
      /\ rendered.messages \in Seq(Message)
  BY RenderedTyped DEF TypeOK
<1>c. conn'[r] = st /\ \A q \in Requests : q # r => conn'[q] = conn[q]
  BY <1>t
<1>1. ConnInv'
  BY <1>c, ConnStays
<1>2. Evolves(conn, received, conn', received')
  BY <1>c DEF Evolves, Live
<1>3. ASSUME ~raced' PROVE ShownInv'
  <2>1. ~raced
    BY <1>3
  <2>2. /\ Last(messages).key = r /\ Grows(Last(messages), received[r])
        /\ \A q \in Requests : conn[q] \in Live => q = r
    BY <2>1, Owner
  <2>3. /\ Honest(messages, conn', received')
        /\ Honest(rendered.messages, conn', received')
    BY <1>2, <1>t, <2>1, HonestStays DEF ShownInv
  <2>4. InStep(messages', conn', received')
    BY <2>2 DEF InStep
  <2>5. \A q \in Requests : conn'[q] \notin Live
    BY <1>c, <2>2 DEF Live
  <2> QED
    BY <2>3, <2>4, <2>5 DEF ShownInv
<1> QED
  BY <1>1, <1>3 DEF ShownInv

\* A chunk.
LEMMA ChunkShown ==
  ASSUME TypeOK, ConnInv, ShownInv, NEW r \in Requests,
         NEW type \in {"reasoning", "content"}, NEW chunk \in Seq(Sent),
         OnChunk(r, type, chunk)
  PROVE  ConnInv' /\ ShownInv'
<1> DEFINE m == StreamUpdate(Last(messages), type, chunk)
           own == Deliver(received[r], type, chunk)
<1>1. /\ conn[r] = "open" /\ messages' = updateLastAssistantMessage(messages, m)
      /\ UNCHANGED <<stream, rendered, source, conn, raced>>
      /\ received' = [received EXCEPT ![r] = own]
  BY DEF OnChunk, Queue
<1>t. /\ messages \in Seq(Message) /\ rendered.messages \in Seq(Message)
      /\ received \in [Requests -> Delivered]
  BY RenderedTyped DEF TypeOK
<1>c. received'[r] = own /\ \A q \in Requests : q # r => received'[q] = received[q]
  BY <1>1, <1>t
<1>u. ASSUME messages # <<>> PROVE IsUpdate(Last(messages), m)
  BY <1>t, <1>u, LastTyped, CallbackUpdates
<1>2. ConnInv'
  BY <1>1, <1>c, ConnStays
<1>3. Evolves(conn, received, conn', received')
  BY <1>1, <1>c DEF Evolves, Live
<1>4. ASSUME ~raced' PROVE ShownInv'
  <2>1. ~raced /\ conn[r] \in Live
    BY <1>1, <1>4 DEF Live
  <2>2. /\ messages # <<>> /\ Last(messages) \in Message
        /\ Unsettled(Last(messages)) /\ Last(messages).from = "assistant"
        /\ Last(messages).key = r /\ Grows(Last(messages), received[r])
        /\ \A q \in Requests : conn[q] \in Live => q = r
    BY <2>1, Owner
  <2>3. Grows(m, own) /\ Unsettled(m)
    BY <1>t, <2>2, UpdateGrows
  <2> HIDE DEF m, own
  <2>4. m \in Message /\ m.key = r
    BY <1>u, <2>2 DEF IsUpdate
  <2>5. /\ Honest(messages, conn', received')
        /\ Honest(rendered.messages, conn', received')
    BY <1>3, <1>t, <2>1, HonestStays DEF ShownInv
  <2>6. Finished(m, conn', received')
    BY <1>1, <2>3, <2>4 DEF Finished, Unsettled
  <2>7. Honest(messages', conn', received')
    BY <1>1, <1>t, <1>u, <2>5, <2>6, UpdateHonest
  <2>8. messages' # <<>> /\ Last(messages') = m
    BY <1>1, <1>t, <2>2, <2>4, UpdatedList
  <2>9. InStep(messages', conn', received')
    BY <1>c, <2>3, <2>4, <2>8 DEF InStep
  <2>10. \A q \in Requests : conn'[q] \in Live => Waits(messages', q)
    BY <1>1, <2>2, <2>3, <2>4, <2>8 DEF Waits
  <2> QED
    BY <1>1, <2>5, <2>7, <2>9, <2>10 DEF ShownInv
<1> QED
  BY <1>2, <1>4 DEF ShownInv

\* handleError.
LEMMA ErrorShown ==
  ASSUME TypeOK, ConnInv, ShownInv, NEW r \in Requests, conn[r] = "open", HandleError(r),
         UNCHANGED <<stream, received, raced>>
  PROVE  ConnInv' /\ ShownInv'
<1> DEFINE m == [Last(messages) EXCEPT !.content = <<"error">>, !.status = "error",
                                       !.isReasoningStreaming = FALSE]
<1>1. CASE ~complete
  <2>1. /\ messages' = updateLastAssistantMessage(messages, m) /\ UNCHANGED rendered
        /\ conn' = [conn EXCEPT ![r] = "closed"] /\ source' = NoSource
    BY <1>1 DEF HandleError, Queue, CloseSource, updateAssistantMessageWithError
  <2>2. ASSUME ~raced PROVE IsUpdate(Last(messages), m) /\ m.status = "error"
    <3>1. Last(messages) \in Message
      BY <2>2, Owner DEF Live
    <3> QED
      BY <3>1, SetError
  <2> HIDE DEF m
  <2> QED
    BY <2>1, <2>2, EndShown DEF Live, Unsettled
<1>2. CASE complete
  BY <1>2 DEF HandleError, ConnInv, ShownInv
<1> QED
  BY <1>1, <1>2

\* The ways a generation ends.
LEMMA EndsShown ==
  ASSUME TypeOK, ConnInv, ShownInv, NEW r \in Requests, Ends(r)
  PROVE  ConnInv' /\ ShownInv'
<1>t. received \in [Requests -> Delivered]
  BY DEF TypeOK
<1>1. CASE OnDone(r)
  <2> DEFINE m == StreamComplete(Last(messages))
  <2>1. /\ conn[r] = "open" /\ messages' = updateLastAssistantMessage(messages, m)
        /\ conn' = [conn EXCEPT ![r] = "closed"] /\ source' = NoSource
        /\ UNCHANGED <<stream, rendered, received, raced>>
    BY <1>1 DEF OnDone, Queue, CloseSource
  <2>2. ASSUME ~raced
        PROVE  IsUpdate(Last(messages), m) /\ ~Unsettled(m) /\ Shows(m, received[r])
    <3>1. /\ Last(messages) \in Message /\ Unsettled(Last(messages))
          /\ Grows(Last(messages), received[r])
      BY <2>1, <2>2, Owner DEF Live
    <3> QED
      BY <1>t, <3>1, CallbackUpdates, EndShows
  <2> HIDE DEF m
  <2> QED
    BY <2>1, <2>2, EndShown DEF Live
<1>2. CASE OnError(r)
  <2>1. conn[r] = "open" /\ UNCHANGED <<stream, received, raced>>
    BY <1>2 DEF OnError
  <2>2. CASE HandleError(r)
    BY <2>1, <2>2, ErrorShown
  <2>3. CASE ~HandleError(r)
    <3>1. /\ conn' = [conn EXCEPT ![r] = "closed"]
          /\ UNCHANGED <<messages, rendered, source>>
      BY <1>2, <2>3 DEF OnError
    <3> QED
      BY <2>1, <3>1, CutShown DEF Live
  <2> QED
    BY <2>2, <2>3
<1>3. CASE OnTruncated(r) \/ OnNoChoice(r)
  <2>1. /\ conn[r] \in Live /\ conn' = [conn EXCEPT ![r] = "truncated"]
        /\ UNCHANGED <<stream, messages, rendered, source, received, raced>>
    BY <1>3 DEF OnTruncated, OnNoChoice, Live
  <2> QED
    BY <2>1, CutShown
<1>4. ASSUME NEW answer \in Answers, OnAnswer(r, answer) PROVE ConnInv' /\ ShownInv'
  <2> DEFINE m == AnswerMessage(Last(messages), answer)
             own == [chunks |-> 1, content |-> answer.content,
                     reasoning |-> answer.reasoning]
  <2>1. /\ conn[r] = "pending" /\ messages' = updateLastAssistantMessage(messages, m)
        /\ conn' = [conn EXCEPT ![r] = "closed"] /\ source' = source
        /\ UNCHANGED <<stream, rendered, raced>>
        /\ received' = [received EXCEPT ![r] = own]
    BY <1>4 DEF OnAnswer, Queue
  <2>2. received'[r] = own /\ \A q \in Requests : q # r => received'[q] = received[q]
    BY <1>t, <2>1
  <2>3. ASSUME ~raced
        PROVE  IsUpdate(Last(messages), m) /\ ~Unsettled(m) /\ Shows(m, own)
    <3>1. Last(messages) \in Message /\ Grows(Last(messages), received[r])
      BY <2>1, <2>3, Owner DEF Live
    <3>2. Nothing(received[r])
      BY <2>1 DEF ConnInv
    <3> QED
      BY <3>1, <3>2, CallbackUpdates, AnswerShows
  <2> HIDE DEF m, own
  <2> QED
    BY <2>1, <2>2, <2>3, EndShown DEF Live
<1>5. CASE OnRequestError(r)
  <2> DEFINE m == [Last(messages) EXCEPT !.content = <<"error">>, !.status = "error",
                                         !.isReasoningStreaming = FALSE]
  <2>1. /\ conn[r] = "pending" /\ messages' = updateLastAssistantMessage(messages, m)
        /\ conn' = [conn EXCEPT ![r] = "closed"] /\ source' = source
        /\ UNCHANGED <<stream, rendered, received, raced>>
    BY <1>5 DEF OnRequestError, Queue, updateAssistantMessageWithError
  <2>2. ASSUME ~raced PROVE IsUpdate(Last(messages), m) /\ m.status = "error"
    <3>1. Last(messages) \in Message
      BY <2>1, <2>2, Owner DEF Live
    <3> QED
      BY <3>1, SetError
  <2> HIDE DEF m
  <2> QED
    BY <2>1, <2>2, EndShown DEF Live, Unsettled
<1> QED
  BY <1>1, <1>2, <1>3, <1>4, <1>5 DEF Ends

\* Stop: it closes the one live stream and finishes its message.
LEMMA StopShown ==
  ASSUME TypeOK, PageInv, ConnInv, ShownInv, StopGeneration
  PROVE  ConnInv' /\ ShownInv'
<1> DEFINE m == StopMessage(Last(messages))
           l == updateLastAssistantMessage(messages, m)
<1>1. /\ rendered.isGenerating /\ source' = NoSource /\ ShowAndSave(l, FALSE)
      /\ conn' = [r \in Requests |-> IF r = source THEN "closed" ELSE conn[r]]
      /\ UNCHANGED <<stream, received, raced>>
  BY DEF StopGeneration
<1>t. /\ messages \in Seq(Message) /\ received \in [Requests -> Delivered]
      /\ conn \in [Requests -> Conn]
  BY DEF TypeOK
<1>s. stream
  BY <1>1 DEF PageInv, ModeInv
<1>u. ASSUME messages # <<>> PROVE IsUpdate(Last(messages), m) /\ ~Unsettled(m)
  BY <1>t, <1>u, LastTyped, CallbackUpdates
<1>2. messages' = l /\ rendered'.messages = l
  BY <1>1, Shown
<1>3. \A q \in Requests : conn'[q] = conn[q] \/ (conn'[q] = "closed" /\ q = source)
  BY <1>1
<1>4. ConnInv'
  BY <1>1, <1>3, ConnStays
<1>5. Evolves(conn, received, conn', received')
  <2>1. source \in Requests => conn[source] \notin Dropped
    BY RequestIsSome DEF ConnInv
  <2> QED
    BY <1>1, <1>3, <2>1 DEF Evolves
<1>6. ASSUME ~raced' PROVE ShownInv'
  <2>1. ~raced
    BY <1>1, <1>6
  <2>2. \A q \in Requests : conn'[q] \notin Live
    <3>1. \A q \in Requests : conn[q] \in Live => q = source
      BY <1>s, <2>1 DEF PageInv, OneStream, ConnInv, Live
    <3> QED
      BY <1>1, <3>1 DEF Live
  <2>3. Honest(messages, conn', received')
    BY <1>5, <1>t, <2>1, HonestStays DEF ShownInv
  <2>4. ASSUME messages # <<>> PROVE Finished(m, conn', received')
    <3> DEFINE x == Last(messages)
    <3>1. x \in Message /\ Len(messages) \in 1..Len(messages) /\ x = messages[Len(messages)]
      BY <1>t, <2>4, LastTyped
    <3>2. Finished(x, conn', received')
      BY <2>3, <3>1 DEF Honest
    <3>3. CASE Unsettled(x)
      <4>1. conn'[x.key] \notin Dropped => conn[x.key] \notin Dropped
        BY <1>5, <3>1, MessageFields DEF Evolves, ConnInv
      <4>2. conn[x.key] \notin Dropped => Grows(x, received[x.key])
        BY <2>1, <2>4, <3>3 DEF ShownInv, InStep
      <4>3. x.key \in Requests /\ received[x.key] \in Delivered
        BY <1>t, <3>1, MessageFields
      <4>4. conn'[x.key] \notin Dropped => Shows(m, received[x.key])
        BY <3>1, <3>3, <4>1, <4>2, <4>3, EndShows
      <4>5. IsUpdate(x, m)
        BY <1>u, <2>4
      <4> HIDE DEF x, m
      <4> QED
        BY <1>1, <2>2, <3>2, <3>3, <4>3, <4>4, <4>5 DEF Finished, IsUpdate, Unsettled
    <3>4. CASE ~Unsettled(x)
      <4>1. x.from = "assistant" => m = x
        BY <3>4 DEF StopMessage, Unsettled
      <4>2. IsUpdate(x, m)
        BY <1>u, <2>4
      <4> HIDE DEF x, m
      <4> QED
        BY <3>2, <4>1, <4>2 DEF Finished, IsUpdate
    <3> QED
      BY <3>3, <3>4
  <2>5. Honest(l, conn', received')
    <3> HIDE DEF m
    <3> QED
      BY <1>t, <1>u, <2>3, <2>4, UpdateHonest
  <2>6. InStep(l, conn', received')
    <3>1. CASE messages # <<>> /\ Last(messages).from = "assistant"
      <4>1. m \in Message
        BY <1>u, <3>1 DEF IsUpdate
      <4>2. Last(l) = m
        <5> HIDE DEF m
        <5> QED
          BY <1>t, <3>1, <4>1, UpdatedList
      <4> HIDE DEF m, l
      <4> QED
        BY <1>u, <3>1, <4>2 DEF InStep
    <3>2. CASE ~(messages # <<>> /\ Last(messages).from = "assistant")
      <4>1. l = messages
        BY <3>2 DEF updateLastAssistantMessage
      <4> HIDE DEF l
      <4> QED
        BY <3>2, <4>1 DEF InStep, Unsettled
    <3> QED
      BY <3>1, <3>2
  <2> HIDE DEF l
  <2> QED
    BY <1>2, <2>2, <2>5, <2>6 DEF ShownInv
<1> QED
  BY <1>4, <1>6 DEF ShownInv

\* A render.
LEMMA RenderShown ==
  ASSUME TypeOK, ConnInv, ShownInv, Render
  PROVE  ConnInv' /\ ShownInv'
<1>1. /\ ShowAndSave(messages, source # NoSource)
      /\ UNCHANGED <<stream, source, conn, received, raced>>
  BY DEF Render
<1>2. messages' = messages /\ rendered'.messages = messages
  BY <1>1, Shown
<1> QED
  BY <1>1, <1>2 DEF ConnInv, ShownInv

\* A reload, and a page that is left and opened again.
LEMMA MountShown ==
  ASSUME TypeOK, PageInv, ConnInv, ShownInv, Reload \/ Leave
  PROVE  ConnInv' /\ ShownInv'
<1> DEFINE l == sanitizeMessagesOnLoad(storage)
<1>1. ShowAndSave(l, FALSE) /\ source' = NoSource /\ UNCHANGED <<stream, received, raced>>
  BY DEF Reload, Leave, Mount
<1>2. \A q \in Requests :
         /\ conn'[q] = conn[q] \/ conn'[q] \in Dropped
         /\ conn[q] \in Live \cup Dropped \/ Interrupted(q) => conn'[q] \in Dropped
  BY DEF Reload, Leave, Interrupted, Live
<1>t. /\ storage \in Seq(Message) /\ storage = rendered.messages
      /\ DOMAIN storage = 1..Len(storage)
  BY RenderedTyped DEF TypeOK, PageInv, ListInv
<1>3. messages' = l /\ rendered'.messages = l
  BY <1>1, Shown
<1>4. \A q \in Requests : conn'[q] \notin Live /\ (conn'[q] = conn[q] \/ conn'[q] \in Dropped)
  BY <1>2 DEF Live
<1>5. ConnInv'
  BY <1>1, <1>4, ConnStays
<1>6. Evolves(conn, received, conn', received')
  BY <1>1, <1>4 DEF Evolves
<1>7. ASSUME NEW i \in 1..Len(storage), Unsettled(storage[i])
      PROVE  conn'[storage[i].key] \in Dropped
  <2>1. storage[i] \in Range(storage)
    BY <1>t DEF Range
  <2>2. storage[i].key \in Requests
    BY <1>t, ElementOfSeq, MessageFields
  <2> QED
    BY <1>2, <1>7, <2>1, <2>2 DEF Interrupted
<1>8. ASSUME ~raced' PROVE ShownInv'
  <2>1. ~raced
    BY <1>1, <1>8
  <2>2. Honest(l, conn', received')
    BY <1>6, <1>7, <1>t, <2>1, SanitizeHonest DEF ShownInv
  <2>3. l \in Seq(Message) /\ Settled(l)
    BY <1>t, <2>1, SanitizeList DEF PageInv, ListInv
  <2> HIDE DEF l
  <2>4. InStep(l, conn', received')
    BY <2>3, LastTyped DEF InStep, Settled
  <2> QED
    BY <1>3, <1>4, <2>2, <2>4 DEF ShownInv
<1> QED
  BY <1>5, <1>8 DEF ShownInv

\* The end of a stream of a page that was left.
LEMMA LeftShown ==
  ASSUME TypeOK, ConnInv, ShownInv, NEW r \in Requests, LeftEnds(r)
  PROVE  ConnInv' /\ ShownInv'
<1>1. /\ conn[r] = "left" /\ conn' = [conn EXCEPT ![r] = "gone"]
      /\ UNCHANGED <<stream, messages, rendered, source, received, raced>>
  BY DEF LeftEnds
<1>t. conn \in [Requests -> Conn] /\ messages \in Seq(Message)
      /\ rendered.messages \in Seq(Message)
  BY RenderedTyped DEF TypeOK
<1>c. conn'[r] = "gone" /\ \A q \in Requests : q # r => conn'[q] = conn[q]
  BY <1>1, <1>t
<1>2. ConnInv'
  BY <1>1, <1>c, ConnStays
<1>3. Evolves(conn, received, conn', received')
  BY <1>1, <1>c DEF Evolves
<1>4. ASSUME ~raced' PROVE ShownInv'
  <2>1. ~raced
    BY <1>1, <1>4
  <2>2. /\ Honest(messages, conn', received')
        /\ Honest(rendered.messages, conn', received')
    BY <1>3, <1>t, <2>1, HonestStays DEF ShownInv
  <2>3. \A q \in Requests : conn'[q] \in Live => conn[q] \in Live
    BY <1>c DEF Live
  <2>4. ASSUME messages # <<>>, conn'[Last(messages).key] \notin Dropped
        PROVE  conn[Last(messages).key] \notin Dropped
    <3>1. Last(messages).key \in Requests
      BY <1>t, <2>4, LastTyped, MessageFields
    <3> QED
      BY <1>c, <2>4, <3>1
  <2>5. InStep(messages, conn', received')
    BY <1>1, <2>1, <2>4 DEF ShownInv, InStep
  <2> QED
    BY <1>1, <2>1, <2>2, <2>3, <2>5 DEF ShownInv
<1> QED
  BY <1>2, <1>4 DEF ShownInv

\* ConnInv and ShownInv are inductive beside TypeOK and PageInv.
LEMMA ShownStep ==
  ASSUME TypeOK, PageInv, ConnInv, ShownInv, [Next]_vars
  PROVE  ConnInv' /\ ShownInv'
<1>1. CASE UNCHANGED vars
  BY <1>1 DEF vars, ConnInv, ShownInv
<1>2. ASSUME NEW r \in Requests,
             \/ \E chunk \in ChunkTexts : OnChunk(r, "content", chunk)
             \/ OnChunk(r, "reasoning", <<"text">>)
      PROVE  ConnInv' /\ ShownInv'
  BY <1>2, Texts, ChunkShown
<1>3. ASSUME NEW r \in Requests, OnParseError(r) PROVE ConnInv' /\ ShownInv'
  BY <1>3, ErrorShown DEF OnParseError
<1> QED
  BY <1>1, <1>2, <1>3, SendShown, EndsShown, EditShown, StopShown, RenderShown,
     MountShown, LeftShown DEF Next

\* The empty page shows nothing.
LEMMA InitShown ==
  ASSUME Init
  PROVE  ConnInv /\ ShownInv
<1>1. ConnInv
  BY DEF Init, ConnInv, Nothing
<1>2. Len(<<>>) = 0
  BY EmptySeq
<1>3. \A q \in Requests : conn[q] \notin Live
  BY DEF Init, Live
<1>4. Honest(<<>>, conn, received) /\ InStep(<<>>, conn, received)
  BY <1>2 DEF Honest, InStep
<1>5. messages = <<>> /\ rendered.messages = <<>>
  BY DEF Init
<1> QED
  BY <1>1, <1>3, <1>4, <1>5 DEF ShownInv

-----------------------------------------------------------------------------
(* The theorems                                                               *)

\* Every reachable state of the playground is well-typed: whatever the order of
\* chunks, answers, errors, clicks, renders and reloads, each list is a list of
\* messages (Playground.TypeOK; message-utils.ts, use-chat-handler.ts).
THEOREM PlaygroundTypeCorrect == Spec => []TypeOK
<1>1. Init => TypeOK
  BY InitPage
<1>2. TypeOK /\ [Next]_vars => TypeOK'
  BY TypeStep
<1> QED
  BY <1>1, <1>2, PTL DEF Spec

\* The page keeps its invariant: whatever the order of clicks, callbacks,
\* renders and reloads, storage, page and connections agree as PageInv says.
THEOREM PlaygroundPageInv == Spec => [](TypeOK /\ PageInv)
<1>1. Init => TypeOK /\ PageInv
  BY InitPage
<1>2. (TypeOK /\ PageInv) /\ [Next]_vars => (TypeOK /\ PageInv)'
  BY TypeStep, PageStep
<1> QED
  BY <1>1, <1>2, PTL DEF Spec

\* For any number of generations and any texts: unless a control the guards do
\* not cover was used during a generation, a stream this page opened is the one
\* stopStream would close and the page shows that it generates, although the
\* handlers read a flag as old as the last render (use-message-action-guard.ts).
\* A stream whose page was left is out of the reach of the new one.
THEOREM OneStreamHolds == Spec => []OneStream
<1>1. TypeOK /\ PageInv => OneStream
  BY DEF PageInv
<1> QED
  BY <1>1, PlaygroundPageInv, PTL

\* In the same runs a reload at any moment leaves no message that waits for a
\* stream that is gone, although sanitizeMessagesOnLoad finalizes a single
\* message: ListInv says that at most the last stored one can wait.
THEOREM ReloadSettlesHolds == Spec => []ReloadSettles
<1>1. TypeOK /\ PageInv => ReloadSettles
  <2> SUFFICES ASSUME TypeOK, PageInv, ~raced,
                      NEW m \in Range(sanitizeMessagesOnLoad(storage))
               PROVE  ~Unsettled(m)
    BY DEF ReloadSettles
  <2> DEFINE l == sanitizeMessagesOnLoad(storage)
  <2>1. storage \in Seq(Message) /\ OnlyLast(storage)
    BY DEF TypeOK, PageInv, ListInv
  <2>2. l \in Seq(Message) /\ Settled(l)
    BY <2>1, SanitizeList
  <2> HIDE DEF l
  <2>3. DOMAIN l = 1..Len(l)
    BY <2>2, LenProperties
  <2>4. PICK i \in DOMAIN l : m = l[i]
    BY DEF Range, l
  <2> QED
    BY <2>2, <2>3, <2>4 DEF Settled
<1> QED
  BY <1>1, PlaygroundPageInv, PTL

\* For any number of generations, any chunks and any answers: unless a control
\* raced, a finished message shows what its own generation delivered, with the
\* think parts separated as the reference definition separates them, although
\* chunks are cut anywhere, within a tag too, and whenever the user stopped
\* (use-chat-handler.ts, message-utils.ts).  Where all think parts are empty half
\* a closing tag may be left as the reasoning.
THEOREM ShowsWhatArrivedHolds == Spec => []ShowsWhatArrived
<1>1. Init => TypeOK /\ PageInv /\ ConnInv /\ ShownInv
  BY InitPage, InitShown
<1>2. (TypeOK /\ PageInv /\ ConnInv /\ ShownInv) /\ [Next]_vars
        => (TypeOK /\ PageInv /\ ConnInv /\ ShownInv)'
  BY TypeStep, PageStep, ShownStep
<1>3. TypeOK /\ PageInv /\ ConnInv /\ ShownInv => ShowsWhatArrived
  <2> SUFFICES ASSUME TypeOK, ShownInv, ~raced, NEW m \in Range(messages),
                      m.from = "assistant", m.status = "complete",
                      m.content # <<"edit">>, conn[m.key] \notin Dropped
               PROVE  LET own == received[m.key]
                          thought == RefReasoning(own.content)
                      IN  /\ m.content = RefVisible(own.content)
                          /\ own.reasoning = <<>> =>
                                m.reasoning \in IF thought # <<>> THEN {thought}
                                                ELSE {<<>>, <<"</thi">>}
                          /\ "<think>" \notin Range(own.content) =>
                                m.reasoning = own.reasoning
    BY DEF ShowsWhatArrived
  <2>1. messages \in Seq(Message) /\ DOMAIN messages = 1..Len(messages)
        /\ received \in [Requests -> Delivered]
    BY LenProperties DEF TypeOK
  <2>2. PICK i \in 1..Len(messages) : m = messages[i]
    BY <2>1 DEF Range
  <2>3. m \in Message /\ Finished(m, conn, received)
    BY <2>1, <2>2, ElementOfSeq DEF ShownInv, Honest
  <2>4. m.key \in Requests /\ Shows(m, received[m.key])
    BY <2>3, MessageFields DEF Finished
  <2>5. received[m.key].content \in Seq(Token)
    BY <2>1, <2>4, DeliveredTexts
  <2>6. Agrees(received[m.key].content)
    BY <2>5, ParseIsReference
  <2> QED
    BY <2>4, <2>6 DEF Shows, Reasons, Agrees, Thoughts
<1> QED
  BY <1>1, <1>2, <1>3, PTL DEF Spec
=============================================================================
