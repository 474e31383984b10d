------------------------ MODULE PricingEditorProofs ------------------------
(***************************************************************************)
(* Proofs about PricingEditor, for every set of prices, bounds, stored and *)
(* typed expressions and presets, tables and rules of any length and any   *)
(* number of acts.                                                         *)
(*                                                                         *)
(* Three copies of one price are kept together by effects: the dialog's    *)
(* two halves, the table and groups of the visual mode, the text of the    *)
(* raw mode.  That a settled editor saves what was entered (EditsStick)    *)
(* says nothing of the rounds before it settles; StickInv does: the editor *)
(* stands for what was entered in every round, and the dialog's copy does  *)
(* whenever the first effect is about to read it back.                     *)
(*                                                                         *)
(* ChargesWhatTheTableSays follows from the types alone, but takes what    *)
(* the writer of rules and the product of multipliers compute: induction   *)
(* over the groups, with the set form of induction of FoldLemmas.          *)
(***************************************************************************)
EXTENDS PricingEditor, FoldLemmas, SequenceTheorems

-----------------------------------------------------------------------------
(* Kept and Product                                                           *)

\* The bodies of the two recursions.
KeptStep(f, s, good, n) ==
  IF n = 0 THEN <<>>
  ELSE IF s[n] \in good THEN Append(f[n - 1], s[n]) ELSE f[n - 1]

ProductStep(f, s, n) == IF n = 0 THEN 1 ELSE f[n - 1] * s[n]

\* Each recursion has a solution up to any length: one for k extends to k + 1.
LEMMA KeptExists ==
  ASSUME NEW s, NEW good, NEW len \in Nat
  PROVE  \E f : f = [n \in 0..len |-> KeptStep(f, s, good, n)]
<1> DEFINE T == {k \in Nat : \E f : f = [n \in 0..k |-> KeptStep(f, s, good, n)]}
<1>1. 0 \in T
  <2> DEFINE f == [n \in 0..0 |-> <<>>]
  <2>1. \A n \in 0..0 : n = 0
    OBVIOUS
  <2>2. f = [n \in 0..0 |-> KeptStep(f, s, good, n)]
    BY <2>1 DEF KeptStep
  <2> HIDE DEF f
  <2> QED
    BY <2>2
<1>2. ASSUME NEW k \in T PROVE k + 1 \in T
  <2>1. k \in Nat
    OBVIOUS
  <2>2. PICK g : g = [n \in 0..k |-> KeptStep(g, s, good, n)]
    OBVIOUS
  <2> DEFINE f == [n \in 0..(k + 1) |-> IF n \in 0..k THEN g[n] ELSE KeptStep(g, s, good, n)]
  <2>3. \A n \in 0..k : f[n] = g[n]
    BY <2>1
  <2>4. \A n \in 0..(k + 1) : n # 0 => n - 1 \in 0..k
    BY <2>1
  <2>d. f = [n \in 0..(k + 1) |-> IF n \in 0..k THEN g[n] ELSE KeptStep(g, s, good, n)]
    OBVIOUS
  <2> HIDE DEF f
  <2>5. \A n \in 0..(k + 1) : KeptStep(f, s, good, n) = KeptStep(g, s, good, n)
    BY <2>3, <2>4 DEF KeptStep
  <2>6. \A n \in 0..(k + 1) : f[n] = KeptStep(f, s, good, n)
    BY <2>2, <2>d, <2>5
  <2>7. f = [n \in 0..(k + 1) |-> KeptStep(f, s, good, n)]
    BY <2>d, <2>6
  <2> QED
    BY <2>1, <2>7
<1>3. T = Nat
  <2>1. T \in SUBSET Nat
    OBVIOUS
  <2> HIDE DEF T
  <2> QED
    BY <1>1, <1>2, <2>1, NatSetInduction
<1> QED
  BY <1>3

\* The same for a product.
LEMMA ProductExists ==
  ASSUME NEW s, NEW len \in Nat
  PROVE  \E f : f = [n \in 0..len |-> ProductStep(f, s, n)]
<1> DEFINE T == {k \in Nat : \E f : f = [n \in 0..k |-> ProductStep(f, s, n)]}
<1>1. 0 \in T
  <2> DEFINE f == [n \in 0..0 |-> 1]
  <2>1. \A n \in 0..0 : n = 0
    OBVIOUS
  <2>2. f = [n \in 0..0 |-> ProductStep(f, s, n)]
    BY <2>1 DEF ProductStep
  <2> HIDE DEF f
  <2> QED
    BY <2>2
<1>2. ASSUME NEW k \in T PROVE k + 1 \in T
  <2>1. k \in Nat
    OBVIOUS
  <2>2. PICK g : g = [n \in 0..k |-> ProductStep(g, s, n)]
    OBVIOUS
  <2> DEFINE f == [n \in 0..(k + 1) |-> IF n \in 0..k THEN g[n] ELSE ProductStep(g, s, n)]
  <2>3. \A n \in 0..k : f[n] = g[n]
    BY <2>1
  <2>4. \A n \in 0..(k + 1) : n # 0 => n - 1 \in 0..k
    BY <2>1
  <2>d. f = [n \in 0..(k + 1) |-> IF n \in 0..k THEN g[n] ELSE ProductStep(g, s, n)]
    OBVIOUS
  <2> HIDE DEF f
  <2>5. \A n \in 0..(k + 1) : ProductStep(f, s, n) = ProductStep(g, s, n)
    BY <2>3, <2>4 DEF ProductStep
  <2>6. \A n \in 0..(k + 1) : f[n] = ProductStep(f, s, n)
    BY <2>2, <2>d, <2>5
  <2>7. f = [n \in 0..(k + 1) |-> ProductStep(f, s, n)]
    BY <2>d, <2>6
  <2> QED
    BY <2>1, <2>7
<1>3. T = Nat
  <2>1. T \in SUBSET Nat
    OBVIOUS
  <2> HIDE DEF T
  <2> QED
    BY <1>1, <1>2, <2>1, NatSetInduction
<1> QED
  BY <1>3

\* So Kept and Product are the last values of functions that satisfy the two
\* recursions.
LEMMA KeptIs ==
  ASSUME NEW S, NEW s \in Seq(S), NEW good
  PROVE  \E f : /\ f[0] = <<>>
                /\ \A n \in 1..Len(s) :
                     f[n] = IF s[n] \in good THEN Append(f[n - 1], s[n]) ELSE f[n - 1]
                /\ Kept(s, good) = f[Len(s)]
<1> DEFINE f == CHOOSE f : f = [n \in 0..Len(s) |-> KeptStep(f, s, good, n)]
<1>0. Len(s) \in Nat
  BY LenProperties
<1>1. f = [n \in 0..Len(s) |-> KeptStep(f, s, good, n)]
  BY <1>0, KeptExists
<1>2. Kept(s, good) = f[Len(s)]
  BY DEF Kept, KeptStep
<1> HIDE DEF f
<1>3. f[0] = <<>>
  BY <1>0, <1>1 DEF KeptStep
<1>4. ASSUME NEW n \in 1..Len(s)
      PROVE  f[n] = IF s[n] \in good THEN Append(f[n - 1], s[n]) ELSE f[n - 1]
  <2>1. n \in 0..Len(s) /\ n # 0
    BY <1>0
  <2> QED
    BY <1>1, <2>1 DEF KeptStep
<1> QED
  BY <1>2, <1>3, <1>4

\* The product of the first n members, for every n.
LEMMA ProductIs ==
  ASSUME NEW S, NEW s \in Seq(S)
  PROVE  \E f : /\ f[0] = 1
                /\ \A n \in 1..Len(s) : f[n] = f[n - 1] * s[n]
                /\ Product(s) = f[Len(s)]
<1> DEFINE f == CHOOSE f : f = [n \in 0..Len(s) |-> ProductStep(f, s, n)]
<1>0. Len(s) \in Nat
  BY LenProperties
<1>1. f = [n \in 0..Len(s) |-> ProductStep(f, s, n)]
  BY <1>0, ProductExists
<1>2. Product(s) = f[Len(s)]
  BY DEF Product, ProductStep
<1> HIDE DEF f
<1>3. f[0] = 1
  BY <1>0, <1>1 DEF ProductStep
<1>4. ASSUME NEW n \in 1..Len(s) PROVE f[n] = f[n - 1] * s[n]
  <2>1. n \in 0..Len(s) /\ n # 0
    BY <1>0
  <2> QED
    BY <1>1, <2>1 DEF ProductStep
<1> QED
  BY <1>2, <1>3, <1>4

\* Kept keeps members of both sets, in a sequence.
LEMMA KeptTyped ==
  ASSUME NEW S, NEW s \in Seq(S), NEW good
  PROVE  Kept(s, good) \in Seq(S \cap good)
<1>0. Len(s) \in Nat /\ \A i \in 1..Len(s) : s[i] \in S
  BY LenProperties, ElementOfSeq
<1>1. PICK f : /\ f[0] = <<>>
               /\ \A n \in 1..Len(s) :
                    f[n] = IF s[n] \in good THEN Append(f[n - 1], s[n]) ELSE f[n - 1]
               /\ Kept(s, good) = f[Len(s)]
  BY KeptIs
<1> DEFINE T == {n \in Nat : n <= Len(s) => f[n] \in Seq(S \cap good)}
<1>2. 0 \in T
  BY <1>1, EmptySeq
<1>3. ASSUME NEW n \in T PROVE n + 1 \in T
  <2>1. CASE n + 1 <= Len(s)
    <3>1. n \in Nat /\ n + 1 \in 1..Len(s) /\ (n + 1) - 1 = n
      BY <1>0, <2>1
    <3>2. f[n] \in Seq(S \cap good)
      BY <1>0, <2>1, <3>1
    <3>3. f[n + 1] = IF s[n + 1] \in good THEN Append(f[n], s[n + 1]) ELSE f[n]
      BY <1>1, <3>1
    <3>4. f[n + 1] \in Seq(S \cap good)
      BY <1>0, <3>1, <3>2, <3>3, AppendProperties
    <3> QED
      BY <3>1, <3>4
  <2> QED
    BY <2>1
<1>4. T = Nat
  <2>1. T \in SUBSET Nat
    OBVIOUS
  <2> HIDE DEF T
  <2> QED
    BY <1>2, <1>3, <2>1, NatSetInduction
<1> QED
  BY <1>0, <1>1, <1>4

\* What is all good is kept as it is.
LEMMA KeptAll ==
  ASSUME NEW S, NEW s \in Seq(S), NEW good, S \subseteq good
  PROVE  Kept(s, good) = s
<1>0. Len(s) \in Nat /\ \A i \in 1..Len(s) : s[i] \in S
  BY LenProperties, ElementOfSeq
<1>1. PICK f : /\ f[0] = <<>>
               /\ \A n \in 1..Len(s) :
                    f[n] = IF s[n] \in good THEN Append(f[n - 1], s[n]) ELSE f[n - 1]
               /\ Kept(s, good) = f[Len(s)]
  BY KeptIs
<1> DEFINE Same(n) == f[n] \in Seq(S) /\ Len(f[n]) = n /\ \A i \in 1..n : f[n][i] = s[i]
           T == {n \in Nat : n <= Len(s) => Same(n)}
<1>2. 0 \in T
  <2>1. f[0] \in Seq(S) /\ Len(f[0]) = 0
    BY <1>1, EmptySeq
  <2> QED
    BY <2>1
<1>3. ASSUME NEW n \in T PROVE n + 1 \in T
  <2>1. CASE n + 1 <= Len(s)
    <3>1. n \in Nat /\ n + 1 \in 1..Len(s) /\ (n + 1) - 1 = n
      BY <1>0, <2>1
    <3>2. f[n] \in Seq(S) /\ Len(f[n]) = n /\ \A i \in 1..n : f[n][i] = s[i]
      BY <1>0, <2>1, <3>1
    <3>3. f[n + 1] = Append(f[n], s[n + 1]) /\ s[n + 1] \in S
      BY <1>0, <1>1, <3>1
    <3>4. /\ Append(f[n], s[n + 1]) \in Seq(S) /\ Len(Append(f[n], s[n + 1])) = n + 1
          /\ \A i \in 1..n : Append(f[n], s[n + 1])[i] = f[n][i]
          /\ Append(f[n], s[n + 1])[n + 1] = s[n + 1]
      BY <3>2, <3>3, AppendProperties
    <3>5. \A i \in 1..(n + 1) : i \in 1..n \/ i = n + 1
      BY <3>1
    <3>6. Same(n + 1)
      BY <3>2, <3>3, <3>4, <3>5
    <3> QED
      BY <3>1, <3>6
  <2>2. CASE ~(n + 1 <= Len(s))
    BY <2>2
  <2> QED
    BY <2>1, <2>2
<1>4. T = Nat
  <2>1. T \in SUBSET Nat
    OBVIOUS
  <2> HIDE DEF T
  <2> QED
    BY <1>2, <1>3, <2>1, NatSetInduction
<1>5. f[Len(s)] \in Seq(S) /\ Len(f[Len(s)]) = Len(s) /\ \A i \in 1..Len(s) : f[Len(s)][i] = s[i]
  BY <1>0, <1>4
<1> QED
  BY <1>1, <1>5, SeqEqual

-----------------------------------------------------------------------------
(* Rules: billing-expr.ts                                                     *)

\* The conditions of a factor.
Conds == Cond \ {"blank"}

\* What is written of a group: no blank conditions.
LEMMA WrittenTyped ==
  ASSUME NEW g \in Group
  PROVE  Written(g) \in Seq(Conds)
<1>1. g.conds \in Seq(Cond)
  BY DEF Group
<1>2. Kept(g.conds, Conds) \in Seq(Cond \cap Conds)
  BY <1>1, KeptTyped
<1>3. Cond \cap Conds = Conds
  BY DEF Conds
<1> QED
  BY <1>2, <1>3 DEF Written, Conds

\* The factors without a quoted condition.
PlainFactor == [conds: Seq(Conds) \ {<<>>}, mult: {2}]

\* Such a factor is a group that is filled in, and all of it is written.
LEMMA FactorFilled ==
  ASSUME NEW r \in PlainFactor
  PROVE  r \in Group /\ r \in Filled /\ Written(r) = r.conds
<1>1. r.conds \in Seq(Conds) /\ r.conds # <<>> /\ r.mult = 2
  BY DEF PlainFactor, Conds
<1>2. Conds \subseteq Cond
  BY DEF Conds
<1>3. r.conds \in Seq(Cond)
  BY <1>1, <1>2, SeqMonotonic
<1>4. r \in Group
  BY <1>3 DEF PlainFactor, Group
<1>5. Kept(r.conds, Conds) = r.conds
  BY <1>1, KeptAll
<1>6. Written(r) = r.conds
  BY <1>5 DEF Written, Conds
<1> QED
  BY <1>1, <1>4, <1>6 DEF Filled

\* What the parser makes of a rule has no quoted condition.
LEMMA ParsedTyped ==
  ASSUME NEW rule \in Rule
  PROVE  ParsedGroups(rule) \in Seq(PlainFactor)
<1>1. rule \in Seq(Factor) /\ DOMAIN rule = 1..Len(rule) /\ Len(rule) \in Nat
  BY LenProperties DEF Rule
<1>2. ASSUME NEW r \in Factor PROVE ParsedGroup(r) \in PlainFactor
  <2> DEFINE conds == r.conds
             read == [k \in DOMAIN conds |-> parseExprLiteral(conds[k])]
  <2>1. conds \in Seq(Test) /\ conds # <<>> /\ r.mult = 2
    BY DEF Factor
  <2> HIDE DEF conds
  <2>2. /\ DOMAIN conds = 1..Len(conds) /\ Len(conds) \in Nat /\ Len(conds) # 0
        /\ \A k \in 1..Len(conds) : conds[k] \in Test
    BY <2>1, LenProperties, ElementOfSeq, EmptySeq
  <2>3. \A k \in 1..Len(conds) : parseExprLiteral(conds[k]) \in Conds
    BY <2>2 DEF parseExprLiteral, Test, Conds, Cond
  <2>4. read \in [1..Len(conds) -> Conds]
    BY <2>2, <2>3
  <2>5. read # <<>>
    <3>1. DOMAIN read = 1..Len(conds) /\ 1 \in 1..Len(conds)
      BY <2>2
    <3> HIDE DEF read
    <3>2. DOMAIN <<>> = 1..0
      OBVIOUS
    <3> QED
      BY <3>1, <3>2
  <2> HIDE DEF read
  <2>6. read \in Seq(Conds)
    BY <2>2, <2>4, SeqDef
  <2>7. ParsedGroup(r) = [conds |-> read, mult |-> r.mult]
    BY DEF ParsedGroup, read, conds
  <2> QED
    BY <2>1, <2>5, <2>6, <2>7 DEF PlainFactor
<1>3. \A i \in 1..Len(rule) : ParsedGroup(rule[i]) \in PlainFactor
  BY <1>1, <1>2, ElementOfSeq
<1>4. ParsedGroups(rule) \in [1..Len(rule) -> PlainFactor]
  BY <1>1, <1>3 DEF ParsedGroups
<1> QED
  BY <1>1, <1>4, SeqDef

\* The groups of a rule are groups the editor can show.
LEMMA RuleGroups ==
  ASSUME NEW rule \in Rule
  PROVE  GroupsOf(rule) \in Seq(Group)
<1>1. PlainFactor \subseteq Group
  BY FactorFilled
<1>2. ParsedGroups(rule) \in Seq(Group)
  BY <1>1, ParsedTyped, SeqMonotonic
<1>3. <<>> \in Seq(Group)
  BY EmptySeq
<1> QED
  BY <1>2, <1>3 DEF GroupsOf

\* buildRequestRuleExpr writes a rule, of the groups that are filled in.
LEMMA BuildTyped ==
  ASSUME NEW groups \in Seq(Group)
  PROVE  buildRequestRuleExpr(groups) \in Rule
<1> DEFINE filled == Kept(groups, Filled)
           rule == [i \in DOMAIN filled |-> [conds |-> Written(filled[i]),
                                             mult |-> filled[i].mult]]
<1>1. filled \in Seq(Group \cap Filled)
  BY KeptTyped
<1> HIDE DEF filled
<1>2. DOMAIN filled = 1..Len(filled) /\ Len(filled) \in Nat
  BY <1>1, LenProperties
<1>3. ASSUME NEW i \in 1..Len(filled)
      PROVE  [conds |-> Written(filled[i]), mult |-> filled[i].mult] \in Factor
  <2>1. filled[i] \in Group /\ filled[i] \in Filled
    BY <1>1, ElementOfSeq
  <2>2. Written(filled[i]) \in Seq(Test)
    <3>1. Conds \subseteq Test
      BY DEF Conds, Cond, Test
    <3> QED
      BY <2>1, <3>1, WrittenTyped, SeqMonotonic
  <2>3. filled[i].mult = 2 /\ Written(filled[i]) # <<>>
    BY <2>1 DEF Filled, Group
  <2> QED
    BY <2>2, <2>3 DEF Factor
<1>4. rule \in [1..Len(filled) -> Factor]
  BY <1>2, <1>3
<1> HIDE DEF rule
<1>5. rule \in Seq(Factor)
  BY <1>2, <1>4, SeqDef
<1> QED
  BY <1>5 DEF buildRequestRuleExpr, Rule, rule, filled

\* A rule that reads back as it is written is written again as it was.
LEMMA BuildRule ==
  ASSUME NEW rule \in Rule, tryParseRequestRuleExpr(rule) = {rule}
  PROVE  GroupsOf(rule) = rule /\ buildRequestRuleExpr(rule) = rule
<1>0. ParsedGroups(rule) = rule /\ GroupsOf(rule) = rule
  <2>1. tryParseRequestRuleExpr(rule) # {}
    OBVIOUS
  <2>2. tryParseRequestRuleExpr(rule) = {ParsedGroups(rule)}
    BY <2>1 DEF tryParseRequestRuleExpr
  <2> QED
    BY <2>1, <2>2 DEF GroupsOf
<1>1. rule \in Seq(PlainFactor) /\ PlainFactor \subseteq Filled
  BY <1>0, ParsedTyped, FactorFilled
<1>2. Kept(rule, Filled) = rule
  BY <1>1, KeptAll
<1>3. DOMAIN rule = 1..Len(rule)
  BY <1>1, LenProperties
<1>4. ASSUME NEW i \in DOMAIN rule
      PROVE  [conds |-> Written(rule[i]), mult |-> rule[i].mult] = rule[i]
  <2>1. rule[i] \in PlainFactor
    BY <1>1, <1>3, ElementOfSeq
  <2>2. Written(rule[i]) = rule[i].conds
    BY <2>1, FactorFilled
  <2> QED
    BY <2>1, <2>2 DEF PlainFactor
<1>5. rule = [i \in DOMAIN rule |-> rule[i]]
  BY <1>1, <1>3, SeqDef
<1>6. [i \in DOMAIN rule |-> [conds |-> Written(rule[i]), mult |-> rule[i].mult]]
        = [i \in DOMAIN rule |-> rule[i]]
  BY <1>4
<1> QED
  BY <1>0, <1>2, <1>5, <1>6 DEF buildRequestRuleExpr

-----------------------------------------------------------------------------
(* Expressions: billing-expr.ts, tier-expr.ts                                 *)

Kinds == {"empty", "zero", "chain", "spaced", "other"}

\* The layers of request rules.
Layers == Seq(Rule \ {<<>>})

\* What it is to be an expression.
LEMMA TextFields ==
  ASSUME NEW t \in Texts
  PROVE  /\ t \in [kind: Kinds, tiers: Seq(Tier), layers: Layers]
         /\ t.kind \in Kinds /\ t.tiers \in Seq(Tier) /\ t.layers \in Layers
         /\ t.kind = "empty" => t = Empty
         /\ t.kind \in {"chain", "spaced"} =>
              t.tiers # <<>> /\ (Len(t.tiers) > 1 => Last(t.tiers).conds = {})
  BY DEF Texts, Kinds, Layers

\* And how to make one.
LEMMA MakeText ==
  ASSUME NEW k \in Kinds \ {"empty"}, NEW tiers \in Seq(Tier), NEW layers \in Layers,
         k \in {"chain", "spaced"} =>
           tiers # <<>> /\ (Len(tiers) > 1 => Last(tiers).conds = {})
  PROVE  Text(k, tiers, layers) \in Texts
<1> DEFINE t == Text(k, tiers, layers)
<1>1. t \in [kind: Kinds, tiers: Seq(Tier), layers: Layers]
  BY DEF Text
<1>2. t.kind = k /\ t.tiers = tiers
  BY DEF Text
<1> HIDE DEF t
<1> QED
  BY <1>1, <1>2 DEF Texts, Kinds, Layers, t

\* The empty expression and zero.
LEMMA PlainTexts ==
  Empty \in Texts /\ Zero \in Texts /\ <<>> \in Layers /\ <<>> \in Rule
<1>1. <<>> \in Seq(Tier) /\ <<>> \in Layers /\ <<>> \in Rule
  BY EmptySeq DEF Layers, Rule
<1>2. Zero \in Texts
  BY <1>1, MakeText DEF Zero, Kinds
<1>3. Empty \in [kind: Kinds, tiers: Seq(Tier), layers: Layers] /\ Empty.kind = "empty"
  BY <1>1 DEF Empty, Text, Kinds
<1>4. Empty \in Texts
  BY <1>3 DEF Texts, Kinds, Layers
<1> QED
  BY <1>1, <1>2, <1>4

\* An expression is its three parts.
LEMMA TextParts ==
  ASSUME NEW t \in Texts
  PROVE  t = Text(t.kind, t.tiers, t.layers)
  BY TextFields DEF Text

\* combineBillingExpr adds a layer, or nothing.
LEMMA CombineTyped ==
  ASSUME NEW t \in Texts, NEW rule \in Rule
  PROVE  /\ combineBillingExpr(t, rule) \in Texts
         /\ combineBillingExpr(t, rule).kind = t.kind
         /\ combineBillingExpr(t, rule).tiers = t.tiers
         /\ combineBillingExpr(t, rule).layers =
              IF t.kind = "empty" \/ rule = <<>> THEN t.layers ELSE Append(t.layers, rule)
<1>1. CASE t.kind = "empty" \/ rule = <<>>
  BY <1>1 DEF combineBillingExpr
<1>2. CASE ~(t.kind = "empty" \/ rule = <<>>)
  <2> DEFINE layers == Append(t.layers, rule)
             c == [t EXCEPT !.layers = layers]
  <2>1. combineBillingExpr(t, rule) = c
    BY <1>2 DEF combineBillingExpr
  <2>2. layers \in Layers
    BY <1>2, TextFields, AppendProperties DEF Layers
  <2> HIDE DEF layers
  <2>3. c = Text(t.kind, t.tiers, layers)
    BY TextFields DEF Text
  <2>4. Text(t.kind, t.tiers, layers) \in Texts
    BY <1>2, <2>2, TextFields, MakeText
  <2>5. c.kind = t.kind /\ c.tiers = t.tiers /\ c.layers = layers
    BY <2>3 DEF Text
  <2> QED
    BY <1>2, <2>1, <2>3, <2>4, <2>5 DEF layers
<1> QED
  BY <1>1, <1>2

\* splitBillingExprAndRequestRules takes the last layer away, or nothing.
LEMMA SplitTyped ==
  ASSUME NEW t \in Texts
  PROVE  LET split == splitBillingExprAndRequestRules(t)
         IN  /\ split.billingExpr \in Texts /\ split.requestRuleExpr \in Rule
             /\ split.billingExpr.kind = t.kind /\ split.billingExpr.tiers = t.tiers
             /\ IF /\ t.layers # <<>>
                   /\ tryParseRequestRuleExpr(Last(t.layers)) # {}
                THEN /\ split.billingExpr.layers = Front(t.layers)
                     /\ split.requestRuleExpr = Last(t.layers)
                ELSE split.billingExpr = t /\ split.requestRuleExpr = <<>>
<1> DEFINE split == splitBillingExprAndRequestRules(t)
           able == t.layers # <<>> /\ tryParseRequestRuleExpr(Last(t.layers)) # {}
<1>1. CASE ~able
  <2>1. split = [billingExpr |-> t, requestRuleExpr |-> <<>>]
    BY <1>1 DEF splitBillingExprAndRequestRules
  <2> HIDE DEF split
  <2> QED
    BY <1>1, <2>1, PlainTexts DEF split
<1>2. CASE able
  <2> DEFINE n == Len(t.layers)
             front == Front(t.layers)
             b == [t EXCEPT !.layers = front]
  <2>1. split = [billingExpr |-> b, requestRuleExpr |-> Last(t.layers)]
    BY <1>2 DEF splitBillingExprAndRequestRules
  <2>2. t.layers \in Layers /\ t.layers # <<>>
    BY <1>2, TextFields
  <2>3. n \in Nat /\ n \in 1..n /\ n - 1 \in Nat
    BY <2>2, LenProperties, EmptySeq DEF Layers
  <2>4. Last(t.layers) \in Rule
    BY <2>2, <2>3, ElementOfSeq DEF Last, Layers
  <2>5. front \in Layers
    <3>1. \A i \in 1..(n - 1) : t.layers[i] \in Rule \ {<<>>}
      BY <2>2, <2>3, ElementOfSeq DEF Layers
    <3> QED
      BY <2>2, <2>3, <3>1 DEF Front, Layers
  <2>6. t.kind # "empty"
    BY <2>2, TextFields DEF Empty, Text
  <2> HIDE DEF front
  <2>7. b = Text(t.kind, t.tiers, front)
    BY TextFields DEF Text
  <2>8. Text(t.kind, t.tiers, front) \in Texts
    BY <2>5, <2>6, TextFields, MakeText
  <2>9. b \in Texts /\ b.kind = t.kind /\ b.tiers = t.tiers /\ b.layers = front
    BY <2>7, <2>8 DEF Text
  <2> HIDE DEF b, split
  <2>10. split.billingExpr = b /\ split.requestRuleExpr = Last(t.layers)
    BY <2>1
  <2> QED
    BY <1>2, <2>4, <2>9, <2>10 DEF split, front
<1> QED
  BY <1>1, <1>2

\* The conditions of one tier of a table replaced.
WithConds(tiers, i, cs) == [tiers EXCEPT ![i].conds = cs]

\* Nothing else changes.
LEMMA SetConds ==
  ASSUME NEW tiers \in Seq(Tier), NEW i \in 1..Len(tiers), NEW cs \in SUBSET Bounds
  PROVE  LET new == WithConds(tiers, i, cs)
         IN  /\ new \in Seq(Tier) /\ Len(new) = Len(tiers) /\ new[i].conds = cs
             /\ new[i].price = tiers[i].price
             /\ \A k \in 1..Len(tiers) : k # i => new[k] = tiers[k]
<1> DEFINE m == [tiers[i] EXCEPT !.conds = cs]
           new == [tiers EXCEPT ![i] = m]
<1>1. tiers[i] \in Tier /\ DOMAIN tiers = 1..Len(tiers)
  BY ElementOfSeq, LenProperties
<1>2. m \in Tier /\ m.conds = cs /\ m.price = tiers[i].price
  BY <1>1 DEF Tier
<1> HIDE DEF m
<1>3. new \in Seq(Tier) /\ Len(new) = Len(tiers)
  BY <1>2, ExceptSeq
<1>4. new[i] = m /\ \A k \in 1..Len(tiers) : k # i => new[k] = tiers[k]
  BY <1>1
<1>5. WithConds(tiers, i, cs) = new
  BY DEF m, WithConds
<1> HIDE DEF new
<1> QED
  BY <1>2, <1>3, <1>4, <1>5

\* A table has a last row unless it is empty.
LEMMA LastTier ==
  ASSUME NEW tiers \in Seq(Tier), tiers # <<>>
  PROVE  Len(tiers) \in Nat /\ Len(tiers) \in 1..Len(tiers)
  BY LenProperties, EmptySeq

\* generateExprFromVisualConfig writes a chain without rules, zero for no table.
LEMMA GenerateTyped ==
  ASSUME NEW tiers \in Seq(Tier)
  PROVE  LET t == generateExprFromVisualConfig(tiers)
         IN  /\ t \in Texts /\ t.layers = <<>>
             /\ tiers = <<>> => t = Zero
             /\ tiers # <<>> => /\ t.kind = "chain" /\ Len(t.tiers) = Len(tiers)
                                /\ t.tiers = IF Len(tiers) = 1 THEN tiers
                                   ELSE [tiers EXCEPT ![Len(tiers)].conds = {}]
<1> DEFINE t == generateExprFromVisualConfig(tiers)
<1>1. CASE tiers = <<>>
  BY <1>1, PlainTexts DEF generateExprFromVisualConfig, Zero, Text
<1>2. CASE tiers # <<>> /\ Len(tiers) = 1
  <2>1. t = Text("chain", tiers, <<>>)
    BY <1>2 DEF generateExprFromVisualConfig
  <2>2. Text("chain", tiers, <<>>) \in Texts
    <3>1. "chain" \in Kinds \ {"empty"} /\ <<>> \in Layers /\ ~(Len(tiers) > 1)
      BY <1>2, PlainTexts DEF Kinds
    <3> QED
      BY <1>2, <3>1, MakeText
  <2> QED
    BY <1>2, <2>1, <2>2 DEF Text
<1>3. CASE tiers # <<>> /\ Len(tiers) # 1
  <2> DEFINE n == Len(tiers)
             new == [tiers EXCEPT ![n].conds = {}]
  <2>1. n \in 1..n /\ n \in Nat
    BY <1>3, LastTier
  <2>2. new \in Seq(Tier) /\ Len(new) = n /\ new[n].conds = {}
    <3> DEFINE m == WithConds(tiers, n, {})
    <3>1. m \in Seq(Tier) /\ Len(m) = n /\ m[n].conds = {}
      BY <2>1, SetConds
    <3> QED
      BY <3>1 DEF WithConds
  <2>3. t = Text("chain", new, <<>>)
    BY <1>3 DEF generateExprFromVisualConfig
  <2> HIDE DEF new
  <2>4. new # <<>> /\ Last(new).conds = {}
    BY <2>1, <2>2, EmptySeq DEF Last
  <2>5. Text("chain", new, <<>>) \in Texts
    BY <2>2, <2>4, PlainTexts, MakeText DEF Kinds
  <2>6. /\ Text("chain", new, <<>>).kind = "chain" /\ Text("chain", new, <<>>).tiers = new
        /\ Text("chain", new, <<>>).layers = <<>>
    BY DEF Text
  <2> QED
    BY <1>3, <2>2, <2>3, <2>5, <2>6 DEF new
<1> QED
  BY <1>1, <1>2, <1>3

\* The tiers of a chain are written again as they were: the parser accepts
\* only what the generator makes.
LEMMA GenerateChain ==
  ASSUME NEW t \in Texts, t.kind \in {"chain", "spaced"}
  PROVE  generateExprFromVisualConfig(t.tiers) = Text("chain", t.tiers, <<>>)
<1> DEFINE tiers == t.tiers
           n == Len(tiers)
<1>1. tiers \in Seq(Tier) /\ tiers # <<>> /\ (n > 1 => Last(tiers).conds = {})
  BY TextFields
<1> HIDE DEF tiers
<1>2. n \in 1..n /\ n \in Nat
  BY <1>1, LastTier
<1>3. CASE n = 1
  BY <1>1, <1>3 DEF generateExprFromVisualConfig, tiers
<1>4. CASE n # 1
  <2>1. tiers[n].conds = {} /\ tiers[n] \in Tier
    <3>1. tiers[n].conds = {}
      <4>1. n > 1
        <5> HIDE DEF n
        <5> QED
          BY <1>2, <1>4
      <4> QED
        BY <1>1, <4>1 DEF Last
    <3>2. tiers[n] \in Tier
      BY <1>1, <1>2, ElementOfSeq
    <3> QED
      BY <3>1, <3>2
  <2>2. [tiers[n] EXCEPT !.conds = {}] = tiers[n]
    BY <2>1 DEF Tier
  <2>3. [tiers EXCEPT ![n].conds = {}] = [tiers EXCEPT ![n] = tiers[n]]
    BY <2>2
  <2>4. [tiers EXCEPT ![n] = tiers[n]] = tiers
    <3>1. tiers \in [1..n -> Tier]
      BY <1>1, LenProperties
    <3> QED
      BY <1>2, <3>1
  <2> QED
    BY <1>1, <1>4, <2>3, <2>4 DEF generateExprFromVisualConfig, tiers
<1> QED
  BY <1>3, <1>4

\* tryParseVisualConfig gives the tiers of a chain without rules.
LEMMA TiersTyped ==
  ASSUME NEW t \in Texts
  PROVE  /\ tryParseVisualConfig(t) \in Seq(Tier)
         /\ tryParseVisualConfig(t) # <<>> <=>
              t.kind \in {"chain", "spaced"} /\ t.layers = <<>>
         /\ t.kind \in {"chain", "spaced"} /\ t.layers = <<>> =>
              tryParseVisualConfig(t) = t.tiers
<1>1. <<>> \in Seq(Tier)
  BY EmptySeq
<1> QED
  BY <1>1, TextFields DEF tryParseVisualConfig

\* The table the editor shows when there is none, and the one it shows else.
LEMMA DefaultTyped ==
  /\ createDefaultVisualConfig \in Seq(Tier) /\ createDefaultVisualConfig # <<>>
  /\ \A tiers \in Seq(Tier) : /\ normalizeVisualConfig(tiers) \in Seq(Tier)
                              /\ normalizeVisualConfig(tiers) # <<>>
                              /\ tiers # <<>> => normalizeVisualConfig(tiers) = tiers
<1>1. [conds |-> {}, price |-> 0] \in Tier
  BY PricesAssumption DEF Tier
<1>2. createDefaultVisualConfig \in Seq(Tier) /\ createDefaultVisualConfig # <<>>
  BY <1>1 DEF createDefaultVisualConfig
<1> QED
  BY <1>2 DEF normalizeVisualConfig

\* What is on display is an expression: the table, under the rules if they
\* are not empty.
LEMMA OnDisplayTyped ==
  ASSUME NEW tiers \in Seq(Tier), NEW groups \in Seq(Group)
  PROVE  LET t == OnDisplay(tiers, groups)
             g == generateExprFromVisualConfig(tiers)
             rule == buildRequestRuleExpr(groups)
         IN  /\ t \in Texts /\ t.kind = g.kind /\ t.tiers = g.tiers
             /\ t.layers = IF rule = <<>> THEN <<>> ELSE <<rule>>
<1> DEFINE g == generateExprFromVisualConfig(tiers)
           rule == buildRequestRuleExpr(groups)
<1>1. g \in Texts /\ g.layers = <<>> /\ g.kind # "empty"
  <2>1. g \in Texts /\ g.layers = <<>> /\ (g = Zero \/ g.kind = "chain")
    BY GenerateTyped
  <2>2. Zero.kind = "zero"
    BY DEF Zero, Text
  <2> QED
    BY <2>1, <2>2
<1>2. rule \in Rule
  BY BuildTyped
<1>3. OnDisplay(tiers, groups) = combineBillingExpr(g, rule)
  BY DEF OnDisplay
<1> HIDE DEF g, rule
<1>4. /\ combineBillingExpr(g, rule) \in Texts
      /\ combineBillingExpr(g, rule).kind = g.kind
      /\ combineBillingExpr(g, rule).tiers = g.tiers
      /\ combineBillingExpr(g, rule).layers =
           IF g.kind = "empty" \/ rule = <<>> THEN g.layers ELSE Append(g.layers, rule)
  BY <1>1, <1>2, CombineTyped
<1>5. Append(<<>>, rule) = <<rule>>
  BY <1>2
<1> QED
  BY <1>1, <1>3, <1>4, <1>5 DEF g, rule

\* The states of the editor.
Editors == [mode: {"visual", "raw"}, visual: Seq(Tier), raw: Texts, groups: Seq(Group)]

\* The state the editor is mounted with.
LEMMA MountTyped ==
  ASSUME NEW b \in Texts, NEW rule \in Rule
  PROVE  /\ Mount(b, rule) \in Editors /\ Mount(b, rule).mode = "visual"
         /\ Mount(b, rule).visual = tryParseVisualConfig(b)
         /\ Mount(b, rule).raw = combineBillingExpr(b, rule)
         /\ Mount(b, rule).groups = GroupsOf(rule)
<1>1. /\ tryParseVisualConfig(b) \in Seq(Tier) /\ combineBillingExpr(b, rule) \in Texts
      /\ GroupsOf(rule) \in Seq(Group)
  BY TiersTyped, CombineTyped, RuleGroups
<1> QED
  BY <1>1 DEF Mount, Editors

-----------------------------------------------------------------------------
(* The records of the state                                                   *)

\* A state of the editor by its four parts.
Ed(mode, visual, raw, groups) ==
  [mode |-> mode, visual |-> visual, raw |-> raw, groups |-> groups]

\* Its parts are what it was made of.
LEMMA EdFields ==
  ASSUME NEW mode \in {"visual", "raw"}, NEW visual \in Seq(Tier), NEW raw \in Texts,
         NEW groups \in Seq(Group)
  PROVE  LET e == Ed(mode, visual, raw, groups)
         IN  /\ e \in Editors /\ e.mode = mode /\ e.visual = visual /\ e.raw = raw
             /\ e.groups = groups
  BY DEF Ed, Editors

\* What the handlers write of it.
LEMMA EdUpdates ==
  ASSUME NEW e \in Editors, NEW mode \in {"visual", "raw"}, NEW visual \in Seq(Tier),
         NEW raw \in Texts, NEW groups \in Seq(Group)
  PROVE  /\ e = Ed(e.mode, e.visual, e.raw, e.groups)
         /\ [e EXCEPT !.visual = visual] = Ed(e.mode, visual, e.raw, e.groups)
         /\ [e EXCEPT !.groups = groups] = Ed(e.mode, e.visual, e.raw, groups)
         /\ [e EXCEPT !.raw = raw] = Ed(e.mode, e.visual, raw, e.groups)
         /\ [e EXCEPT !.mode = mode] = Ed(mode, e.visual, e.raw, e.groups)
  BY DEF Editors, Ed

\* The updates of several parts: the first effect, the change to raw and the
\* change to visual mode.
EdTable(e, mode, visual) == [e EXCEPT !.mode = mode, !.visual = visual]
EdText(e, mode, raw) == [e EXCEPT !.mode = mode, !.raw = raw]
EdWhole(e, mode, visual, groups) ==
  [e EXCEPT !.mode = mode, !.visual = visual, !.groups = groups]

\* They change what they name.
LEMMA EdTwoUpdates ==
  ASSUME NEW e \in Editors, NEW mode \in {"visual", "raw"}, NEW visual \in Seq(Tier),
         NEW raw \in Texts, NEW groups \in Seq(Group)
  PROVE  /\ EdTable(e, mode, visual) = Ed(mode, visual, e.raw, e.groups)
         /\ EdText(e, mode, raw) = Ed(mode, e.visual, raw, e.groups)
         /\ EdWhole(e, mode, visual, groups) = Ed(mode, visual, e.raw, groups)
<1> DEFINE p == Ed(mode, e.visual, e.raw, e.groups)
           q == Ed(mode, visual, e.raw, e.groups)
<1>1. [e EXCEPT !.mode = mode] = p
  BY EdUpdates
<1>2. e.visual \in Seq(Tier) /\ e.raw \in Texts /\ e.groups \in Seq(Group)
  BY DEF Editors
<1>3. /\ p \in Editors /\ p.mode = mode /\ p.visual = e.visual /\ p.raw = e.raw
      /\ p.groups = e.groups
  BY <1>2, EdFields
<1>4. /\ q \in Editors /\ q.mode = mode /\ q.visual = visual /\ q.raw = e.raw
      /\ q.groups = e.groups
  BY <1>2, EdFields
<1>5. /\ EdTable(e, mode, visual)
           = [[e EXCEPT !.mode = mode] EXCEPT !.visual = visual]
      /\ EdText(e, mode, raw) = [[e EXCEPT !.mode = mode] EXCEPT !.raw = raw]
      /\ EdWhole(e, mode, visual, groups)
           = [[[e EXCEPT !.mode = mode] EXCEPT !.visual = visual] EXCEPT !.groups = groups]
  BY Zenon DEF EdTable, EdText, EdWhole
<1> HIDE DEF p, q
<1>6. [p EXCEPT !.visual = visual] = Ed(p.mode, visual, p.raw, p.groups)
  BY <1>3, EdUpdates
<1>7. [p EXCEPT !.raw = raw] = Ed(p.mode, p.visual, raw, p.groups)
  BY <1>3, EdUpdates
<1>8. [q EXCEPT !.groups = groups] = Ed(q.mode, q.visual, q.raw, groups)
  BY <1>4, EdUpdates
<1>9. [p EXCEPT !.visual = visual] = q
  BY <1>3, <1>6 DEF q
<1> QED
  BY <1>1, <1>3, <1>4, <1>5, <1>7, <1>8, <1>9 DEF q

\* The states of the dialog.
Dialogs == [model: Models \cup {None}, adding: BOOLEAN, tiered: BOOLEAN, billing: Texts,
            rule: Rule]

\* What the handlers write of the dialog.
LEMMA DialogRule ==
  ASSUME NEW d \in Dialogs, NEW r \in Rule
  PROVE  LET new == [d EXCEPT !.rule = r]
         IN  /\ new \in Dialogs /\ new.model = d.model /\ new.adding = d.adding
             /\ new.tiered = d.tiered /\ new.billing = d.billing /\ new.rule = r
  BY DEF Dialogs

\* What a round of the effects writes of the dialog.
Pushed(d, b, r) == [d EXCEPT !.billing = b, !.rule = r]

\* Both halves change, nothing else does.
LEMMA DialogHalves ==
  ASSUME NEW d \in Dialogs, NEW b \in Texts, NEW r \in Rule
  PROVE  LET new == Pushed(d, b, r)
         IN  /\ new \in Dialogs /\ new.model = d.model /\ new.adding = d.adding
             /\ new.tiered = d.tiered /\ new.billing = b /\ new.rule = r
<1> DEFINE p == [d EXCEPT !.billing = b]
<1>1. /\ p \in Dialogs /\ p.model = d.model /\ p.adding = d.adding
      /\ p.tiered = d.tiered /\ p.billing = b
  BY DEF Dialogs
<1>2. Pushed(d, b, r) = [p EXCEPT !.rule = r]
  BY DEF Dialogs, Pushed
<1> HIDE DEF p
<1>3. LET new == [p EXCEPT !.rule = r]
      IN  /\ new \in Dialogs /\ new.model = p.model /\ new.adding = p.adding
          /\ new.tiered = p.tiered /\ new.billing = p.billing /\ new.rule = r
  BY <1>1, DialogRule
<1> QED
  BY <1>1, <1>2, <1>3

\* The state by its types.
LEMMA Types ==
  ASSUME TypeOK
  PROVE  /\ stored \in [Models -> Texts] /\ dialog \in Dialogs /\ ed \in Editors
         /\ initRef \in BOOLEAN /\ seen \in Texts \X Rule /\ fresh \in BOOLEAN
         /\ renamed \in BOOLEAN /\ acts \in 0..MaxActs /\ meant \in SUBSET Texts
         /\ dialog.billing \in Texts /\ dialog.rule \in Rule /\ dialog.tiered \in BOOLEAN
         /\ ed.mode \in {"visual", "raw"} /\ ed.visual \in Seq(Tier) /\ ed.raw \in Texts
         /\ ed.groups \in Seq(Group)
  BY DEF TypeOK, Dialogs, Editors

-----------------------------------------------------------------------------
(* The changes of the table and of the rules                                  *)

\* The table on display is not empty.
LEMMA ShownTyped ==
  ASSUME TypeOK
  PROVE  /\ Shown \in Seq(Tier) /\ Shown # <<>> /\ DOMAIN Shown = 1..Len(Shown)
         /\ Len(Shown) \in Nat /\ Len(Shown) \in 1..Len(Shown)
<1>1. Shown \in Seq(Tier) /\ Shown # <<>>
  BY Types, DefaultTyped DEF Shown
<1> QED
  BY <1>1, LastTier, LenProperties

\* Removing a member of a sequence.
LEMMA RemoveTyped ==
  ASSUME NEW S, NEW s \in Seq(S), NEW i \in 1..Len(s)
  PROVE  RemoveAt(s, i) \in Seq(S) /\ Len(RemoveAt(s, i)) = Len(s) - 1
<1>0. Len(s) \in Nat /\ i \in Nat
  BY LenProperties
<1> DEFINE p == SubSeq(s, 1, i - 1)
           q == SubSeq(s, i + 1, Len(s))
<1>1. p \in Seq(S) /\ Len(p) = i - 1
  BY <1>0
<1>2. q \in Seq(S) /\ Len(q) = Len(s) - i
  BY <1>0
<1>3. RemoveAt(s, i) = p \o q
  BY DEF RemoveAt
<1> HIDE DEF p, q
<1>4. p \o q \in Seq(S) /\ Len(p \o q) = Len(p) + Len(q)
  BY <1>1, <1>2, ConcatProperties
<1> QED
  BY <1>0, <1>1, <1>2, <1>3, <1>4

\* Every handler of the visual editor replaces the table by another, which is
\* not empty either.
LEMMA EditTiersKind ==
  ASSUME TypeOK, EditTiers
  PROVE  \E tiers \in Seq(Tier) : tiers # <<>> /\ EditVisual(tiers)
<1> DEFINE t == Shown
           n == Len(t)
<1>0. t \in Seq(Tier) /\ t # <<>> /\ DOMAIN t = 1..n /\ n \in Nat /\ n \in 1..n
  BY ShownTyped
<1>e. ASSUME NEW s \in Seq(Tier), Len(s) >= 1 PROVE s # <<>>
  BY <1>e, EmptySeq
<1>c. \A i \in 1..n : t[i] \in Tier /\ t[i].conds \in SUBSET Bounds
  <2>1. \A i \in 1..n : t[i] \in Tier
    BY <1>0, ElementOfSeq
  <2> QED
    BY <2>1 DEF Tier
<1>1. ASSUME NEW i \in 1..MaxTiers, NEW tier \in Tier, HandleTierChange(i, tier)
      PROVE  \E tiers \in Seq(Tier) : tiers # <<>> /\ EditVisual(tiers)
  <2> DEFINE new == [t EXCEPT ![i] = tier]
  <2>1. i \in 1..n /\ EditVisual(new)
    BY <1>0, <1>1 DEF HandleTierChange
  <2>2. new \in Seq(Tier) /\ Len(new) = n
    BY <1>0, <2>1, ExceptSeq
  <2> HIDE DEF new
  <2> QED
    BY <1>0, <1>e, <2>1, <2>2
<1>2. ASSUME HandleAddTier
      PROVE  \E tiers \in Seq(Tier) : tiers # <<>> /\ EditVisual(tiers)
  <2> DEFINE base == IF t[n].conds = {} THEN [t EXCEPT ![n].conds = {DefaultBound}] ELSE t
             new == Append(base, [conds |-> {}, price |-> 0])
  <2>1. EditVisual(new)
    BY <1>2 DEF HandleAddTier
  <2>2. base \in Seq(Tier)
    <3>1. {DefaultBound} \in SUBSET Bounds
      BY BoundsAssumption
    <3>2. WithConds(t, n, {DefaultBound}) \in Seq(Tier)
      BY <1>0, <3>1, SetConds
    <3> QED
      BY <1>0, <3>2 DEF WithConds
  <2>3. [conds |-> {}, price |-> 0] \in Tier
    BY PricesAssumption DEF Tier
  <2> HIDE DEF base
  <2>4. new \in Seq(Tier) /\ Len(new) = Len(base) + 1 /\ Len(base) \in Nat
    BY <2>2, <2>3, AppendProperties, LenProperties
  <2> HIDE DEF new
  <2> QED
    BY <1>e, <2>1, <2>4
<1>3. ASSUME NEW i \in 1..MaxTiers, HandleRemoveTier(i)
      PROVE  \E tiers \in Seq(Tier) : tiers # <<>> /\ EditVisual(tiers)
  <2> DEFINE new == RemoveAt(t, i)
  <2>1. i \in 1..n /\ n > 1 /\ EditVisual(new)
    BY <1>0, <1>3 DEF HandleRemoveTier
  <2>2. new \in Seq(Tier) /\ Len(new) = n - 1
    BY <1>0, <2>1, RemoveTyped
  <2> HIDE DEF new
  <2> QED
    BY <1>0, <1>e, <2>1, <2>2
<1>4. ASSUME NEW i \in 1..MaxTiers, HandleAddCondition(i)
      PROVE  \E tiers \in Seq(Tier) : tiers # <<>> /\ EditVisual(tiers)
  <2> DEFINE new == WithConds(t, i, t[i].conds \cup {DefaultBound})
  <2>1. i \in 1..n /\ EditVisual(new)
    BY <1>0, <1>4 DEF HandleAddCondition, WithConds
  <2>2. t[i].conds \cup {DefaultBound} \in SUBSET Bounds
    BY <1>c, <2>1, BoundsAssumption
  <2>3. new \in Seq(Tier) /\ Len(new) = n
    BY <1>0, <2>1, <2>2, SetConds
  <2> HIDE DEF new
  <2> QED
    BY <1>0, <1>e, <2>1, <2>3
<1>5. ASSUME NEW i \in 1..MaxTiers, NEW b \in Bounds, HandleConditionRemove(i, b)
      PROVE  \E tiers \in Seq(Tier) : tiers # <<>> /\ EditVisual(tiers)
  <2> DEFINE new == WithConds(t, i, t[i].conds \ {b})
  <2>1. i \in 1..n /\ EditVisual(new)
    BY <1>0, <1>5 DEF HandleConditionRemove, WithConds
  <2>2. t[i].conds \ {b} \in SUBSET Bounds
    BY <1>c, <2>1
  <2>3. new \in Seq(Tier) /\ Len(new) = n
    BY <1>0, <2>1, <2>2, SetConds
  <2> HIDE DEF new
  <2> QED
    BY <1>0, <1>e, <2>1, <2>3
<1> QED
  BY <1>1, <1>2, <1>3, <1>4, <1>5 DEF EditTiers

\* A group with other conditions or another multiplier.
LEMMA GroupUpdates ==
  ASSUME NEW groups \in Seq(Group), NEW i \in DOMAIN groups
  PROVE  /\ \A cs \in Seq(Cond) : [groups EXCEPT ![i].conds = cs] \in Seq(Group)
         /\ [groups EXCEPT ![i].mult = 2] \in Seq(Group)
         /\ groups[i].conds \in Seq(Cond)
<1>1. i \in 1..Len(groups) /\ groups[i] \in Group
  BY LenProperties, ElementOfSeq
<1>2. ASSUME NEW g \in Group PROVE [groups EXCEPT ![i] = g] \in Seq(Group)
  BY <1>1, ExceptSeq
<1>3. \A cs \in Seq(Cond) : [groups[i] EXCEPT !.conds = cs] \in Group
  BY <1>1 DEF Group
<1>4. [groups[i] EXCEPT !.mult = 2] \in Group
  BY <1>1 DEF Group
<1>5. groups[i].conds \in Seq(Cond)
  BY <1>1 DEF Group
<1> QED
  BY <1>2, <1>3, <1>4, <1>5

\* Every handler of the rules replaces the groups by others.
LEMMA EditRulesKind ==
  ASSUME TypeOK, EditRules
  PROVE  \E groups \in Seq(Group) : HandleRuleGroupsChange(groups)
<1> DEFINE g == ed.groups
<1>0. g \in Seq(Group) /\ DOMAIN g = 1..Len(g)
  BY Types, LenProperties
<1>1. ASSUME AddRuleGroup PROVE \E groups \in Seq(Group) : HandleRuleGroupsChange(groups)
  <2>1. [conds |-> <<"blank">>, mult |-> 0] \in Group
    BY DEF Group, Cond
  <2>2. Append(g, [conds |-> <<"blank">>, mult |-> 0]) \in Seq(Group)
    BY <1>0, <2>1, AppendProperties
  <2> QED
    BY <1>1, <2>2 DEF AddRuleGroup
<1>2. ASSUME NEW i \in 1..MaxGroups, RemoveRuleGroup(i)
      PROVE  \E groups \in Seq(Group) : HandleRuleGroupsChange(groups)
  <2>1. i \in 1..Len(g) /\ HandleRuleGroupsChange(RemoveAt(g, i))
    BY <1>0, <1>2 DEF RemoveRuleGroup
  <2>2. RemoveAt(g, i) \in Seq(Group)
    BY <1>0, <2>1, RemoveTyped
  <2> QED
    BY <2>1, <2>2
<1>3. ASSUME NEW i \in 1..MaxGroups, NEW c \in Cond, ChangeRuleCondition(i, c)
      PROVE  \E groups \in Seq(Group) : HandleRuleGroupsChange(groups)
  <2> DEFINE cs == g[i].conds
             last == [cs EXCEPT ![Len(cs)] = c]
             new == [g EXCEPT ![i].conds = last]
  <2>1. i \in DOMAIN g /\ cs # <<>> /\ HandleRuleGroupsChange(new)
    BY <1>3 DEF ChangeRuleCondition
  <2>2. cs \in Seq(Cond)
    BY <1>0, <2>1, GroupUpdates
  <2>3. last \in Seq(Cond)
    <3> HIDE DEF cs
    <3>1. Len(cs) \in 1..Len(cs)
      BY <2>1, <2>2, LenProperties, EmptySeq
    <3> QED
      BY <2>2, <3>1, ExceptSeq
  <2> HIDE DEF last
  <2>4. new \in Seq(Group)
    BY <1>0, <2>1, <2>3, GroupUpdates
  <2> QED
    BY <2>1, <2>4
<1>4. ASSUME NEW i \in 1..MaxGroups, AddRuleCondition(i)
      PROVE  \E groups \in Seq(Group) : HandleRuleGroupsChange(groups)
  <2> DEFINE cs == Append(g[i].conds, "blank")
             new == [g EXCEPT ![i].conds = cs]
  <2>1. i \in DOMAIN g /\ HandleRuleGroupsChange(new)
    BY <1>4 DEF AddRuleCondition
  <2>2. cs \in Seq(Cond)
    <3>1. g[i].conds \in Seq(Cond) /\ "blank" \in Cond
      BY <1>0, <2>1, GroupUpdates DEF Cond
    <3> QED
      BY <3>1, AppendProperties
  <2> HIDE DEF cs
  <2>3. new \in Seq(Group)
    BY <1>0, <2>1, <2>2, GroupUpdates
  <2> QED
    BY <2>1, <2>3
<1>5. ASSUME NEW i \in 1..MaxGroups, RemoveRuleCondition(i)
      PROVE  \E groups \in Seq(Group) : HandleRuleGroupsChange(groups)
  <2> DEFINE cs == g[i].conds
             front == Front(cs)
             new == [g EXCEPT ![i].conds = front]
  <2>1. i \in DOMAIN g /\ cs # <<>> /\ HandleRuleGroupsChange(new)
    BY <1>5 DEF RemoveRuleCondition
  <2>2. cs \in Seq(Cond)
    BY <1>0, <2>1, GroupUpdates
  <2>3. front \in Seq(Cond)
    <3> HIDE DEF cs
    <3>1. Len(cs) \in Nat /\ \A k \in 1..(Len(cs) - 1) : cs[k] \in Cond
      BY <2>2, LenProperties, ElementOfSeq
    <3> QED
      BY <2>2, <3>1 DEF Front
  <2> HIDE DEF front
  <2>4. new \in Seq(Group)
    BY <1>0, <2>1, <2>3, GroupUpdates
  <2> QED
    BY <2>1, <2>4
<1>6. ASSUME NEW i \in 1..MaxGroups, ChangeMultiplier(i)
      PROVE  \E groups \in Seq(Group) : HandleRuleGroupsChange(groups)
  <2>1. i \in DOMAIN g /\ HandleRuleGroupsChange([g EXCEPT ![i].mult = 2])
    BY <1>6 DEF ChangeMultiplier
  <2>2. [g EXCEPT ![i].mult = 2] \in Seq(Group)
    BY <1>0, <2>1, GroupUpdates
  <2> QED
    BY <2>1, <2>2
<1> QED
  BY <1>1, <1>2, <1>3, <1>4, <1>5, <1>6 DEF EditRules

-----------------------------------------------------------------------------
(* Type correctness                                                           *)

\* What every act of the user in the mounted editor has in common.
LEMMA ActKeeps ==
  ASSUME TypeOK, NEW means, Act(means)
  PROVE  /\ Mounted /\ Settled /\ meant' = means /\ acts' \in 0..MaxActs
         /\ stored' = stored /\ initRef' = initRef /\ seen' = seen /\ fresh' = fresh
<1>1. acts \in 0..MaxActs /\ acts < MaxActs /\ acts' = acts + 1
  BY Types DEF Act
<1>2. acts' \in 0..MaxActs
  BY <1>1, MaxAssumption
<1> QED
  BY <1>2 DEF Act

\* The mounting and the closing of the editor.
LEMMA ShowTyped ==
  ASSUME NEW d \in Dialogs, Show(d)
  PROVE  /\ dialog' = d /\ ed' \in Editors /\ initRef' = FALSE /\ fresh' = d.tiered
         /\ renamed' = FALSE
         /\ seen' \in Texts \X Rule
         /\ d.tiered => ed' = Mount(d.billing, d.rule)
<1>1. d.billing \in Texts /\ d.rule \in Rule
  BY DEF Dialogs
<1>2. Mount(d.billing, d.rule) \in Editors
  BY <1>1, MountTyped
<1>3. Unmounted \in Editors
  <2>1. Empty \in Texts /\ <<>> \in Seq(Tier) /\ <<>> \in Seq(Group)
    BY PlainTexts, EmptySeq
  <2> QED
    BY <2>1 DEF Unmounted, Editors
<1>4. <<Empty, <<>>>> \in Texts \X Rule
  BY PlainTexts
<1> QED
  BY <1>2, <1>3, <1>4 DEF Show

\* The dialog that is not open.
LEMMA ClosedTyped == Closed \in Dialogs
  BY PlainTexts DEF Closed, Dialogs

\* The dialog with the other pricing mode.
LEMMA DialogSwitch ==
  ASSUME NEW d \in Dialogs
  PROVE  LET new == [d EXCEPT !.tiered = ~@]
         IN  /\ new \in Dialogs /\ new.model = d.model /\ new.tiered = ~d.tiered
             /\ new.billing = d.billing /\ new.rule = d.rule
  BY DEF Dialogs

\* The price the editor stands for.
LEMMA EffectiveTyped ==
  ASSUME TypeOK
  PROVE  effectiveExpr \in Texts
  BY Types, GenerateTyped, SplitTyped DEF effectiveExpr

\* What the first effect makes of the editor: where the price is a chain, the
\* state it would be mounted with.
LEMMA InitTyped ==
  ASSUME TypeOK
  PROVE  /\ InitEditor \in Editors
         /\ tryParseVisualConfig(dialog.billing) # <<>> =>
              InitEditor = Mount(dialog.billing, dialog.rule)
<1> DEFINE known == Mount(dialog.billing, dialog.rule)
<1>1. known \in Editors
  BY Types, MountTyped
<1>2. createDefaultVisualConfig \in Seq(Tier)
  BY DefaultTyped
<1>3. /\ known.mode \in {"visual", "raw"} /\ known.visual \in Seq(Tier)
      /\ known.raw \in Texts /\ known.groups \in Seq(Group)
  BY <1>1 DEF Editors
<1>4. /\ \/ InitEditor = known
         \/ InitEditor = [known EXCEPT !.mode = "raw"]
         \/ InitEditor = EdTable(known, ed.mode, createDefaultVisualConfig)
      /\ tryParseVisualConfig(dialog.billing) # <<>> => InitEditor = known
  BY DEF InitEditor, EdTable
<1> HIDE DEF known
<1>5. [known EXCEPT !.mode = "raw"] \in Editors
  <2>1. [known EXCEPT !.mode = "raw"] = Ed("raw", known.visual, known.raw, known.groups)
    BY <1>1, <1>3, EdUpdates
  <2> QED
    BY <1>3, <2>1, EdFields
<1>6. EdTable(known, ed.mode, createDefaultVisualConfig) \in Editors
  <2>1. ed.mode \in {"visual", "raw"}
    BY Types
  <2>2. EdTable(known, ed.mode, createDefaultVisualConfig)
          = Ed(ed.mode, createDefaultVisualConfig, known.raw, known.groups)
    BY <1>1, <1>2, <1>3, <2>1, EdTwoUpdates
  <2> QED
    BY <1>2, <1>3, <2>1, <2>2, EdFields
<1> QED
  BY <1>1, <1>4, <1>5, <1>6 DEF known

\* The rule a round of the effects leaves in the dialog.
PushedRule == IF ed.mode = "visual" THEN buildRequestRuleExpr(ed.groups) ELSE dialog.rule

\* The first effect runs its body in the next round.
Reads == ~initRef /\ (fresh \/ seen # <<dialog.billing, dialog.rule>>)

\* A round of the effects.
LEMMA FlushDoes ==
  ASSUME TypeOK, Flush
  PROVE  /\ dialog' \in Dialogs /\ dialog'.model = dialog.model
         /\ dialog'.tiered = dialog.tiered
         /\ dialog'.billing = effectiveExpr /\ dialog'.rule = PushedRule
         /\ ed' = (IF Reads THEN InitEditor ELSE ed)
         /\ ed' \in Editors /\ initRef' \in BOOLEAN /\ renamed' \in BOOLEAN
         /\ seen' \in Texts \X Rule /\ fresh' = FALSE
         /\ UNCHANGED <<stored, acts, meant>>
<1>1. effectiveExpr \in Texts /\ PushedRule \in Rule
  BY EffectiveTyped, Types, BuildTyped DEF PushedRule
<1>2. dialog' = Pushed(dialog, effectiveExpr, PushedRule)
  BY DEF Flush, PushedRule, Pushed
<1>3. /\ dialog' \in Dialogs /\ dialog'.model = dialog.model
      /\ dialog'.tiered = dialog.tiered
      /\ dialog'.billing = effectiveExpr /\ dialog'.rule = PushedRule
  <2> DEFINE new == Pushed(dialog, effectiveExpr, PushedRule)
  <2>1. dialog \in Dialogs
    BY Types
  <2>2. /\ new \in Dialogs /\ new.model = dialog.model /\ new.tiered = dialog.tiered
        /\ new.billing = effectiveExpr /\ new.rule = PushedRule
    BY <1>1, <2>1, DialogHalves
  <2> QED
    BY <1>2, <2>2
<1>4. ed' = (IF Reads THEN InitEditor ELSE ed)
  BY DEF Flush, Reads
<1>5. ed' \in Editors
  BY <1>4, InitTyped, Types
<1>6. initRef' \in BOOLEAN /\ renamed' \in BOOLEAN
  BY DEF Flush
<1>7. seen' \in Texts \X Rule /\ fresh' = FALSE /\ UNCHANGED <<stored, acts, meant>>
  BY Types DEF Flush
<1> QED
  BY <1>3, <1>4, <1>5, <1>6, <1>7

\* The dialog a row of the table opens.
Row(m, adding) ==
  LET row == splitBillingExprAndRequestRules(stored[m])
  IN  [model |-> m, adding |-> adding, tiered |-> stored[m] # Empty,
       billing |-> row.billingExpr, rule |-> row.requestRuleExpr]

\* Its halves are the parts the stored expression is split into.
LEMMA RowTyped ==
  ASSUME TypeOK, NEW m \in Models, NEW adding \in BOOLEAN
  PROVE  /\ stored[m] \in Texts /\ Row(m, adding) \in Dialogs /\ Row(m, adding).model = m
         /\ Row(m, adding).tiered = (stored[m] # Empty)
         /\ Row(m, adding).billing = splitBillingExprAndRequestRules(stored[m]).billingExpr
         /\ Row(m, adding).rule = splitBillingExprAndRequestRules(stored[m]).requestRuleExpr
<1>1. stored[m] \in Texts
  BY Types
<1>2. /\ splitBillingExprAndRequestRules(stored[m]).billingExpr \in Texts
      /\ splitBillingExprAndRequestRules(stored[m]).requestRuleExpr \in Rule
  BY <1>1, SplitTyped
<1> QED
  BY <1>1, <1>2 DEF Row, Dialogs

\* The acts that leave the dialog alone.
LEMMA EditVisualDoes ==
  ASSUME TypeOK, NEW tiers \in Seq(Tier), EditVisual(tiers)
  PROVE  /\ Act({OnDisplay(tiers, ed.groups)}) /\ ed.mode = "visual"
         /\ ed' = Ed("visual", tiers, ed.raw, ed.groups)
         /\ ed' \in Editors /\ UNCHANGED <<dialog, renamed>>
<1>1. ed \in Editors /\ ed.mode = "visual" /\ ed.raw \in Texts /\ ed.groups \in Seq(Group)
  BY Types DEF EditVisual
<1>2. [ed EXCEPT !.visual = tiers] = Ed("visual", tiers, ed.raw, ed.groups)
  BY <1>1, EdUpdates
<1>3. Ed("visual", tiers, ed.raw, ed.groups) \in Editors
  BY <1>1, EdFields
<1> QED
  BY <1>1, <1>2, <1>3 DEF EditVisual

\* The handlers of the rule groups.
LEMMA RulesChangeDoes ==
  ASSUME TypeOK, NEW groups \in Seq(Group), HandleRuleGroupsChange(groups)
  PROVE  /\ Act({OnDisplay(ed.visual, groups)}) /\ ed.mode = "visual"
         /\ ed' = Ed("visual", ed.visual, ed.raw, groups)
         /\ ed' \in Editors /\ UNCHANGED <<dialog, renamed>>
<1>1. ed \in Editors /\ ed.mode = "visual" /\ ed.raw \in Texts /\ ed.visual \in Seq(Tier)
  BY Types DEF HandleRuleGroupsChange
<1>2. [ed EXCEPT !.groups = groups] = Ed("visual", ed.visual, ed.raw, groups)
  BY <1>1 DEF Ed, Editors
<1>3. Ed("visual", ed.visual, ed.raw, groups) \in Editors
  BY <1>1, EdFields
<1> QED
  BY <1>1, <1>2, <1>3 DEF HandleRuleGroupsChange

\* The change to raw mode writes down what is on display.
LEMMA ToRawDoes ==
  ASSUME TypeOK, HandleModeChangeToRaw
  PROVE  /\ Act(meant) /\ ed.mode = "visual"
         /\ ed' = Ed("raw", ed.visual, OnDisplay(ed.visual, ed.groups), ed.groups)
         /\ ed' \in Editors /\ OnDisplay(ed.visual, ed.groups) \in Texts
         /\ UNCHANGED <<dialog, renamed>>
<1> DEFINE raw == OnDisplay(ed.visual, ed.groups)
<1>1. ed \in Editors /\ ed.visual \in Seq(Tier) /\ ed.groups \in Seq(Group)
  BY Types
<1>2. raw \in Texts
  BY <1>1, OnDisplayTyped
<1>3. ed' = EdText(ed, "raw", raw)
  BY DEF HandleModeChangeToRaw, EdText
<1> HIDE DEF raw
<1>4. EdText(ed, "raw", raw) = Ed("raw", ed.visual, raw, ed.groups)
  BY <1>1, <1>2, EdTwoUpdates
<1>5. Ed("raw", ed.visual, raw, ed.groups) \in Editors
  BY <1>1, <1>2, EdFields
<1>6. Act(meant) /\ ed.mode = "visual" /\ UNCHANGED <<dialog, renamed>>
  BY DEF HandleModeChangeToRaw
<1> QED
  BY <1>2, <1>3, <1>4, <1>5, <1>6 DEF raw

\* The acts that set the rules of the dialog at once.
SetsRule(r) ==
  /\ dialog' \in Dialogs /\ dialog'.model = dialog.model /\ dialog'.tiered = dialog.tiered
  /\ dialog'.billing = dialog.billing /\ dialog'.rule = r
  /\ UNCHANGED renamed

\* The assignment of the handlers, by the parts of the dialog.
LEMMA SettingRule ==
  ASSUME TypeOK, NEW r \in Rule, dialog' = [dialog EXCEPT !.rule = r], UNCHANGED renamed
  PROVE  SetsRule(r)
<1>1. dialog \in Dialogs
  BY Types
<1>2. LET new == [dialog EXCEPT !.rule = r]
      IN  /\ new \in Dialogs /\ new.model = dialog.model /\ new.adding = dialog.adding
          /\ new.tiered = dialog.tiered /\ new.billing = dialog.billing /\ new.rule = r
  BY <1>1, DialogRule
<1> QED
  BY <1>2 DEF SetsRule

\* A keystroke in the raw editor.
LEMMA RawChangeDoes ==
  ASSUME TypeOK, NEW t \in RawTexts, HandleRawChange(t)
  PROVE  LET split == splitBillingExprAndRequestRules(t)
         IN  /\ t \in Texts /\ ed.mode = "raw"
             /\ Act(Entered(split.billingExpr, split.requestRuleExpr, t))
             /\ ed' = Ed("raw", ed.visual, t, ed.groups) /\ ed' \in Editors
             /\ SetsRule(split.requestRuleExpr)
<1>1. /\ ed \in Editors /\ ed.mode = "raw" /\ ed.visual \in Seq(Tier)
      /\ ed.groups \in Seq(Group) /\ t \in Texts
  BY Types, TextsAssumption DEF HandleRawChange
<1>2. [ed EXCEPT !.raw = t] = Ed("raw", ed.visual, t, ed.groups)
  BY <1>1, EdUpdates
<1>3. Ed("raw", ed.visual, t, ed.groups) \in Editors
  BY <1>1, EdFields
<1>4. splitBillingExprAndRequestRules(t).requestRuleExpr \in Rule
  BY <1>1, SplitTyped
<1>5. SetsRule(splitBillingExprAndRequestRules(t).requestRuleExpr)
  BY <1>4, SettingRule DEF HandleRawChange
<1> QED
  BY <1>1, <1>2, <1>3, <1>5 DEF HandleRawChange

\* The change to visual mode parses the text, or shows the default table.
LEMMA ToVisualDoes ==
  ASSUME TypeOK, HandleModeChangeToVisual
  PROVE  LET split  == splitBillingExprAndRequestRules(ed.raw)
             parsed == tryParseVisualConfig(split.billingExpr)
             groups == GroupsOf(split.requestRuleExpr)
         IN  /\ ed.mode = "raw" /\ parsed \in Seq(Tier)
             /\ Act(IF parsed # <<>> THEN meant
                    ELSE Entered(generateExprFromVisualConfig(createDefaultVisualConfig),
                                 split.requestRuleExpr,
                                 OnDisplay(createDefaultVisualConfig, groups)))
             /\ ed' = Ed("visual", normalizeVisualConfig(parsed), ed.raw, groups)
             /\ ed' \in Editors /\ split.requestRuleExpr \in Rule
             /\ groups \in Seq(Group)
             /\ SetsRule(split.requestRuleExpr)
<1> DEFINE split  == splitBillingExprAndRequestRules(ed.raw)
           rule   == split.requestRuleExpr
           parsed == tryParseVisualConfig(split.billingExpr)
           groups == GroupsOf(rule)
           table  == normalizeVisualConfig(parsed)
<1>1. ed \in Editors /\ ed.raw \in Texts
  BY Types
<1>2. split.billingExpr \in Texts /\ rule \in Rule
  BY <1>1, SplitTyped
<1>3. parsed \in Seq(Tier)
  BY <1>2, TiersTyped
<1>4. table \in Seq(Tier)
  BY <1>3, DefaultTyped
<1>5. groups \in Seq(Group)
  BY <1>2, RuleGroups
<1>6. /\ ed.mode = "raw" /\ ed' = EdWhole(ed, "visual", table, groups)
      /\ Act(IF parsed # <<>> THEN meant
             ELSE Entered(generateExprFromVisualConfig(createDefaultVisualConfig), rule,
                          OnDisplay(createDefaultVisualConfig, groups)))
      /\ dialog' = [dialog EXCEPT !.rule = rule] /\ UNCHANGED renamed
  BY DEF HandleModeChangeToVisual, EdWhole
<1> HIDE DEF split, rule, parsed, table, groups
<1>7. EdWhole(ed, "visual", table, groups) = Ed("visual", table, ed.raw, groups)
  BY <1>1, <1>4, <1>5, EdTwoUpdates
<1>8. Ed("visual", table, ed.raw, groups) \in Editors
  BY <1>1, <1>4, <1>5, EdFields
<1>9. SetsRule(rule)
  BY <1>2, <1>6, SettingRule
<1> QED
  BY <1>2, <1>3, <1>5, <1>6, <1>7, <1>8, <1>9 DEF split, rule, parsed, table, groups

\* A preset replaces the table and the groups.
LEMMA PresetDoes ==
  ASSUME TypeOK, NEW p \in Presets, ApplyPreset(p)
  PROVE  /\ Act(Entered(Text("chain", p.tiers, <<>>), buildRequestRuleExpr(p.groups),
                        OnDisplay(p.tiers, p.groups)))
         /\ p.tiers \in Seq(Tier) /\ p.groups \in Seq(Group) /\ p.tiers # <<>>
         /\ ed' \in Editors /\ ed'.mode = "visual" /\ ed'.visual = p.tiers
         /\ ed'.groups = p.groups
         /\ SetsRule(buildRequestRuleExpr(p.groups))
<1> DEFINE expr == Text("chain", p.tiers, <<>>)
           rule == buildRequestRuleExpr(p.groups)
<1>1. expr \in Texts /\ p.groups \in Seq(Group)
  BY PresetsAssumption
<1>2. expr.kind = "chain" /\ expr.tiers = p.tiers /\ expr.layers = <<>>
  BY DEF Text
<1>3. p.tiers \in Seq(Tier) /\ p.tiers # <<>>
  BY <1>1, <1>2, TextFields
<1>4. tryParseVisualConfig(expr) = p.tiers
  BY <1>2 DEF tryParseVisualConfig
<1>5. rule \in Rule
  BY <1>1, BuildTyped
<1>6. /\ Act(Entered(expr, rule, OnDisplay(p.tiers, p.groups)))
      /\ ed' = Ed("visual", tryParseVisualConfig(expr), combineBillingExpr(expr, rule),
                  p.groups)
      /\ dialog' = [dialog EXCEPT !.rule = rule] /\ UNCHANGED renamed
  BY DEF ApplyPreset, Ed
<1> HIDE DEF expr, rule
<1>7. combineBillingExpr(expr, rule) \in Texts
  BY <1>1, <1>5, CombineTyped
<1>8. /\ ed' \in Editors /\ ed'.mode = "visual" /\ ed'.visual = p.tiers
      /\ ed'.groups = p.groups
  <2> DEFINE e == Ed("visual", p.tiers, combineBillingExpr(expr, rule), p.groups)
  <2>1. e \in Editors /\ e.mode = "visual" /\ e.visual = p.tiers /\ e.groups = p.groups
    BY <1>1, <1>3, <1>7, EdFields
  <2> HIDE DEF e
  <2>2. ed' = e
    BY <1>4, <1>6 DEF e
  <2> QED
    BY <2>1, <2>2
<1>9. SetsRule(rule)
  BY <1>5, <1>6, SettingRule
<1> QED
  BY <1>1, <1>3, <1>6, <1>8, <1>9 DEF expr, rule

\* A state of typed parts.
LEMMA TypesBack ==
  ASSUME stored' \in [Models -> Texts], dialog' \in Dialogs, ed' \in Editors,
         initRef' \in BOOLEAN, seen' \in Texts \X Rule, fresh' \in BOOLEAN,
         renamed' \in BOOLEAN, acts' \in 0..MaxActs, meant' \in SUBSET Texts
  PROVE  TypeOK'
  BY DEF TypeOK, Dialogs, Editors

\* An act that keeps its parts typed.
LEMMA ActTyped ==
  ASSUME TypeOK, NEW means \in SUBSET Texts, Act(means), dialog' \in Dialogs,
         ed' \in Editors, renamed' \in BOOLEAN
  PROVE  TypeOK'
<1>1. /\ meant' = means /\ acts' \in 0..MaxActs /\ stored' = stored /\ seen' = seen
      /\ fresh' = fresh /\ initRef' = initRef
  BY ActKeeps
<1>2. /\ stored \in [Models -> Texts] /\ seen \in Texts \X Rule /\ fresh \in BOOLEAN
      /\ initRef \in BOOLEAN
  BY Types
<1> QED
  BY <1>1, <1>2, TypesBack

\* What the user meant, unless it is Torn.
LEMMA EnteredTyped ==
  ASSUME NEW t \in Texts, NEW b, NEW r
  PROVE  /\ Entered(b, r, t) \in SUBSET Texts
         /\ \A x \in Entered(b, r, t) : x = t /\ ~Torn(b, r)
  BY DEF Entered

\* Before the dialog is first opened.
LEMMA TypeInit ==
  ASSUME Init
  PROVE  TypeOK
<1>1. stored \in [Models -> Texts]
  BY TextsAssumption DEF Init
<1>2. dialog \in Dialogs
  BY ClosedTyped DEF Init
<1>3. ed \in Editors
  <2>1. Empty \in Texts /\ <<>> \in Seq(Tier) /\ <<>> \in Seq(Group)
    BY PlainTexts, EmptySeq
  <2> QED
    BY <2>1 DEF Init, Unmounted, Editors
<1>4. seen \in Texts \X Rule
  BY PlainTexts DEF Init
<1>5. acts \in 0..MaxActs
  BY MaxAssumption DEF Init
<1> QED
  BY <1>1, <1>2, <1>3, <1>4, <1>5 DEF Init, TypeOK, Dialogs, Editors

\* The steps, by their kinds.
LEMMA NextKinds ==
  ASSUME TypeOK, Next
  PROVE  \/ \E m \in Models, adding \in BOOLEAN : OpenDialog(m, adding)
         \/ SetPricingMode \/ HandleSave \/ HandleCancel \/ Flush
         \/ \E tiers \in Seq(Tier) : tiers # <<>> /\ EditVisual(tiers)
         \/ \E groups \in Seq(Group) : HandleRuleGroupsChange(groups)
         \/ \E t \in RawTexts : HandleRawChange(t)
         \/ HandleModeChangeToVisual \/ HandleModeChangeToRaw
         \/ \E p \in Presets : ApplyPreset(p)
         \/ TypeName
  BY EditTiersKind, EditRulesKind DEF Next

\* Every step keeps the types.
LEMMA TypeStep ==
  ASSUME TypeOK, [Next]_vars
  PROVE  TypeOK'
<1>0. /\ stored \in [Models -> Texts] /\ dialog \in Dialogs /\ ed \in Editors
      /\ initRef \in BOOLEAN /\ seen \in Texts \X Rule /\ fresh \in BOOLEAN
      /\ renamed \in BOOLEAN /\ acts \in 0..MaxActs /\ meant \in SUBSET Texts
      /\ ed.visual \in Seq(Tier) /\ ed.groups \in Seq(Group)
  BY Types
<1>1. ASSUME NEW m \in Models, NEW adding \in BOOLEAN, OpenDialog(m, adding)
      PROVE  TypeOK'
  <2>1. Show(Row(m, adding)) /\ meant' = {stored[m]} /\ UNCHANGED <<stored, acts>>
    BY <1>1 DEF OpenDialog, Row
  <2>2. Row(m, adding) \in Dialogs /\ stored[m] \in Texts
        /\ Row(m, adding).tiered \in BOOLEAN
    BY RowTyped
  <2>3. /\ dialog' \in Dialogs /\ ed' \in Editors /\ initRef' \in BOOLEAN /\ renamed' \in BOOLEAN
        /\ fresh' \in BOOLEAN /\ seen' \in Texts \X Rule
    BY <2>1, <2>2, ShowTyped
  <2> QED
    BY <1>0, <2>1, <2>2, <2>3, TypesBack
<1>2. CASE SetPricingMode
  <2> DEFINE d == [dialog EXCEPT !.tiered = ~@]
  <2>1. Show(d) /\ acts < MaxActs /\ acts' = acts + 1 /\ UNCHANGED <<stored, meant>>
    BY <1>2 DEF SetPricingMode
  <2>2. d \in Dialogs
    BY <1>0, DialogSwitch
  <2> HIDE DEF d
  <2>3. d.tiered \in BOOLEAN
    BY <2>2 DEF Dialogs
  <2>4. /\ dialog' \in Dialogs /\ ed' \in Editors /\ initRef' \in BOOLEAN /\ renamed' \in BOOLEAN
        /\ fresh' \in BOOLEAN /\ seen' \in Texts \X Rule
    BY <2>1, <2>2, <2>3, ShowTyped
  <2>5. acts' \in 0..MaxActs
    BY <1>0, <2>1, MaxAssumption
  <2> QED
    BY <1>0, <2>1, <2>4, <2>5, TypesBack
<1>3. ASSUME Show(Closed)
      PROVE  /\ dialog' \in Dialogs /\ ed' \in Editors /\ initRef' \in BOOLEAN /\ renamed' \in BOOLEAN
             /\ fresh' \in BOOLEAN /\ seen' \in Texts \X Rule
  <2>1. Closed.tiered \in BOOLEAN
    BY DEF Closed
  <2> QED
    BY <1>3, <2>1, ClosedTyped, ShowTyped
<1>4. CASE HandleSave
  <2> DEFINE new == IF dialog.tiered THEN combineBillingExpr(dialog.billing, dialog.rule)
                    ELSE Empty
  <2>1. Show(Closed) /\ stored' = [stored EXCEPT ![dialog.model] = new]
        /\ UNCHANGED <<acts, meant>>
    BY <1>4 DEF HandleSave
  <2>2. new \in Texts
    BY Types, CombineTyped, PlainTexts
  <2> HIDE DEF new
  <2>3. stored' \in [Models -> Texts]
    BY <1>0, <2>1, <2>2
  <2> QED
    BY <1>0, <1>3, <2>1, <2>3, TypesBack
<1>5. CASE HandleCancel
  <2>1. Show(Closed) /\ UNCHANGED <<stored, acts, meant>>
    BY <1>5 DEF HandleCancel
  <2> QED
    BY <1>0, <1>3, <2>1, TypesBack
<1>6. CASE Flush
  <2>1. /\ dialog' \in Dialogs /\ ed' \in Editors /\ initRef' \in BOOLEAN /\ renamed' \in BOOLEAN
        /\ seen' \in Texts \X Rule /\ fresh' = FALSE /\ UNCHANGED <<stored, acts, meant>>
    BY <1>6, FlushDoes
  <2> QED
    BY <1>0, <2>1, TypesBack
<1>7. ASSUME NEW tiers \in Seq(Tier), EditVisual(tiers)
      PROVE  TypeOK'
  <2>1. /\ Act({OnDisplay(tiers, ed.groups)}) /\ ed' \in Editors
        /\ UNCHANGED <<dialog, renamed>>
    BY <1>7, EditVisualDoes
  <2>2. {OnDisplay(tiers, ed.groups)} \in SUBSET Texts
    BY <1>0, OnDisplayTyped
  <2> QED
    BY <1>0, <2>1, <2>2, ActTyped
<1>8. ASSUME NEW groups \in Seq(Group), HandleRuleGroupsChange(groups)
      PROVE  TypeOK'
  <2>1. /\ Act({OnDisplay(ed.visual, groups)}) /\ ed' \in Editors
        /\ UNCHANGED <<dialog, renamed>>
    BY <1>8, RulesChangeDoes
  <2>2. {OnDisplay(ed.visual, groups)} \in SUBSET Texts
    BY <1>0, OnDisplayTyped
  <2> QED
    BY <1>0, <2>1, <2>2, ActTyped
<1>9. ASSUME NEW t \in RawTexts, HandleRawChange(t)
      PROVE  TypeOK'
  <2> DEFINE split == splitBillingExprAndRequestRules(t)
             means == Entered(split.billingExpr, split.requestRuleExpr, t)
  <2>1. /\ t \in Texts /\ Act(means) /\ ed' \in Editors /\ dialog' \in Dialogs
        /\ renamed' = renamed
    BY <1>9, RawChangeDoes DEF SetsRule
  <2>2. means \in SUBSET Texts
    BY <2>1, EnteredTyped
  <2> HIDE DEF means
  <2> QED
    BY <1>0, <2>1, <2>2, ActTyped
<1>10. CASE HandleModeChangeToVisual
  <2> DEFINE split  == splitBillingExprAndRequestRules(ed.raw)
             parsed == tryParseVisualConfig(split.billingExpr)
             groups == GroupsOf(split.requestRuleExpr)
             shown  == OnDisplay(createDefaultVisualConfig, groups)
             means  == IF parsed # <<>> THEN meant
                       ELSE Entered(generateExprFromVisualConfig(createDefaultVisualConfig),
                                    split.requestRuleExpr, shown)
  <2>1. /\ Act(means) /\ ed' \in Editors /\ groups \in Seq(Group)
        /\ SetsRule(split.requestRuleExpr)
    BY <1>10, ToVisualDoes
  <2>2. shown \in Texts
    BY <2>1, DefaultTyped, OnDisplayTyped
  <2> HIDE DEF shown
  <2>3. means \in SUBSET Texts
    BY <1>0, <2>2, EnteredTyped
  <2>4. dialog' \in Dialogs /\ renamed' \in BOOLEAN
    BY <1>0, <2>1 DEF SetsRule
  <2> HIDE DEF means
  <2> QED
    BY <2>1, <2>3, <2>4, ActTyped
<1>11. CASE HandleModeChangeToRaw
  <2>1. Act(meant) /\ ed' \in Editors /\ UNCHANGED <<dialog, renamed>>
    BY <1>11, ToRawDoes
  <2> QED
    BY <1>0, <2>1, ActTyped
<1>12. ASSUME NEW p \in Presets, ApplyPreset(p)
       PROVE  TypeOK'
  <2> DEFINE shown == OnDisplay(p.tiers, p.groups)
             means == Entered(Text("chain", p.tiers, <<>>),
                              buildRequestRuleExpr(p.groups), shown)
  <2>1. /\ Act(means) /\ ed' \in Editors /\ dialog' \in Dialogs
        /\ renamed' = renamed /\ p.tiers \in Seq(Tier) /\ p.groups \in Seq(Group)
    BY <1>12, PresetDoes DEF SetsRule
  <2>2. shown \in Texts
    BY <2>1, OnDisplayTyped
  <2> HIDE DEF shown
  <2>3. means \in SUBSET Texts
    BY <2>2, EnteredTyped
  <2> HIDE DEF means
  <2> QED
    BY <1>0, <2>1, <2>3, ActTyped
<1>13. CASE TypeName
  <2>1. Act(meant) /\ renamed' = TRUE /\ UNCHANGED <<dialog, ed>>
    BY <1>13 DEF TypeName
  <2> QED
    BY <1>0, <2>1, ActTyped
<1>14. CASE UNCHANGED vars
  BY <1>0, <1>14, TypesBack DEF vars
<1> QED
  BY <1>1, <1>2, <1>4, <1>5, <1>6, <1>7, <1>8, <1>9, <1>10, <1>11, <1>12, <1>13, <1>14,
     NextKinds

\* Every part of the dialog and of the editor keeps its type: in particular the
\* editor never builds a text it could not have been given.
THEOREM PricingTypeCorrect == Spec => []TypeOK
<1>1. Init => TypeOK
  BY TypeInit
<1>2. TypeOK /\ [Next]_vars => TypeOK'
  BY TypeStep
<1> QED
  BY <1>1, <1>2, PTL DEF Spec

-----------------------------------------------------------------------------
(* What the user entered is what a save would store                           *)

\* The rule of an expression with at most one layer.
LayerOf(t) == IF t.layers = <<>> THEN <<>> ELSE t.layers[1]

\* The two halves of a price are those of t, whose rules they parse.
Halves(b, r, t) ==
  /\ b.kind \in {"chain", "spaced"} /\ b.tiers = t.tiers /\ b.layers = <<>>
  /\ r = LayerOf(t)

\* An editor in state e over a dialog with the rule r stands for t.
Displays(e, r, t) ==
  IF e.mode = "visual"
  THEN /\ generateExprFromVisualConfig(e.visual) = Text("chain", t.tiers, <<>>)
       /\ buildRequestRuleExpr(e.groups) = LayerOf(t)
  ELSE /\ e.raw.kind \in {"chain", "spaced"} /\ e.raw.tiers = t.tiers
       /\ e.raw.layers = t.layers
       /\ r = LayerOf(t)

\* The editor stands for what was last entered, and so does the dialog when the
\* next round of the effects copies it into the editor; the dialog alone when
\* the editor is not there.
StickInv ==
  dialog.model # None =>
    \A t \in meant : Visual(t) =>
      IF dialog.tiered
      THEN /\ Displays(ed, dialog.rule, t)
           /\ Reads => Halves(dialog.billing, dialog.rule, t)
      ELSE Halves(dialog.billing, dialog.rule, t)

\* An expression with a visual form has no rules or one layer of them, which
\* parses.
LEMMA VisualLayers ==
  ASSUME NEW t \in Texts, Visual(t)
  PROVE  /\ t.kind \in {"chain", "spaced"} /\ LayerOf(t) \in Rule
         /\ tryParseRequestRuleExpr(LayerOf(t)) = {LayerOf(t)}
         /\ t.layers = IF LayerOf(t) = <<>> THEN <<>> ELSE <<LayerOf(t)>>
         /\ t.layers # <<>> => /\ LayerOf(t) # <<>> /\ Last(t.layers) = LayerOf(t)
                               /\ Front(t.layers) = <<>>
<1>1. t.kind \in {"chain", "spaced"} /\ t.layers \in Layers /\ Len(t.layers) <= 1
  BY TextFields DEF Visual
<1>2. CASE t.layers = <<>>
  <2>1. LayerOf(t) = <<>> /\ <<>> \in Rule
    BY <1>2, PlainTexts DEF LayerOf
  <2>2. tryParseRequestRuleExpr(<<>>) = {<<>>}
    <3>1. DOMAIN <<>> = {}
      OBVIOUS
    <3>2. ParsedGroups(<<>>) = <<>>
      BY <3>1 DEF ParsedGroups
    <3> QED
      BY <3>1, <3>2 DEF tryParseRequestRuleExpr
  <2> QED
    BY <1>1, <1>2, <2>1, <2>2
<1>3. CASE t.layers # <<>>
  <2> DEFINE layers == t.layers
  <2>1. Len(layers) = 1 /\ DOMAIN layers = 1..1
    <3>1. layers \in Seq(Rule \ {<<>>}) /\ layers # <<>> /\ Len(layers) <= 1
      BY <1>1, <1>3 DEF Layers
    <3> HIDE DEF layers
    <3>2. Len(layers) \in Nat /\ Len(layers) # 0 /\ DOMAIN layers = 1..Len(layers)
      BY <3>1, EmptySeq, LenProperties
    <3>3. Len(layers) = 1
      BY <3>1, <3>2
    <3> QED
      BY <3>2, <3>3
  <2>2. layers[1] \in Rule /\ layers[1] # <<>>
    BY <1>1, <2>1, ElementOfSeq DEF Layers
  <2>3. tryParseRequestRuleExpr(layers[1]) = {layers[1]}
    BY <2>1 DEF Visual
  <2>4. layers = <<layers[1]>>
    <3>1. layers \in Seq(Rule \ {<<>>})
      BY <1>1 DEF Layers
    <3> HIDE DEF layers
    <3> QED
      BY <2>1, <3>1
  <2>5. Last(layers) = layers[1] /\ Front(layers) = <<>>
    <3>1. layers \in Seq(Rule \ {<<>>})
      BY <1>1 DEF Layers
    <3> HIDE DEF layers
    <3> QED
      BY <2>1, <3>1 DEF Last, Front
  <2>6. LayerOf(t) = layers[1]
    BY <1>3 DEF LayerOf
  <2> HIDE DEF layers
  <2>7. layers = t.layers
    BY DEF layers
  <2> QED
    BY <1>1, <1>3, <2>2, <2>3, <2>4, <2>5, <2>6, <2>7
<1> QED
  BY <1>2, <1>3

\* Splitting a text with the tiers and the layers of t gives the halves of t.
LEMMA SplitHalves ==
  ASSUME NEW t \in Texts, Visual(t), NEW s \in Texts, s.kind \in {"chain", "spaced"},
         s.tiers = t.tiers, s.layers = t.layers
  PROVE  LET split == splitBillingExprAndRequestRules(s)
         IN  Halves(split.billingExpr, split.requestRuleExpr, t)
<1> DEFINE b == splitBillingExprAndRequestRules(s).billingExpr
           r == splitBillingExprAndRequestRules(s).requestRuleExpr
<1>1. b.kind = s.kind /\ b.tiers = s.tiers
  BY SplitTyped
<1>2. CASE t.layers = <<>>
  <2>1. b = s /\ r = <<>>
    BY <1>2, SplitTyped
  <2> QED
    BY <1>1, <1>2, <2>1 DEF Halves, LayerOf
<1>3. CASE t.layers # <<>>
  <2>1. /\ Last(s.layers) = LayerOf(t) /\ Front(s.layers) = <<>>
        /\ tryParseRequestRuleExpr(Last(s.layers)) = {LayerOf(t)}
    BY <1>3, VisualLayers
  <2>2. b.layers = Front(s.layers) /\ r = Last(s.layers)
    BY <1>3, <2>1, SplitTyped
  <2> QED
    BY <1>1, <2>1, <2>2 DEF Halves
<1> QED
  BY <1>2, <1>3

\* The editor mounted over the halves of t stands for t.
LEMMA MountShows ==
  ASSUME NEW t \in Texts, Visual(t), NEW b \in Texts, NEW r \in Rule, Halves(b, r, t)
  PROVE  /\ \A x : Displays(Mount(b, r), x, t)
         /\ tryParseVisualConfig(b) # <<>>
<1>1. b.kind \in {"chain", "spaced"} /\ b.tiers = t.tiers /\ b.layers = <<>> /\ r = LayerOf(t)
  BY DEF Halves
<1>2. tryParseRequestRuleExpr(r) = {r}
  BY <1>1, VisualLayers
<1>3. Mount(b, r).mode = "visual" /\ Mount(b, r).groups = r
      /\ Mount(b, r).visual = tryParseVisualConfig(b)
  BY <1>2, MountTyped, BuildRule
<1>4. tryParseVisualConfig(b) = t.tiers /\ tryParseVisualConfig(b) # <<>>
  BY <1>1, TiersTyped
<1>5. generateExprFromVisualConfig(t.tiers) = Text("chain", t.tiers, <<>>)
  BY VisualLayers, GenerateChain
<1>6. buildRequestRuleExpr(r) = r
  BY <1>2, BuildRule
<1> QED
  BY <1>1, <1>3, <1>4, <1>5, <1>6 DEF Displays

\* The table and the rules that are on display stand for what is on display.
LEMMA DisplayShows ==
  ASSUME NEW tiers \in Seq(Tier), NEW groups \in Seq(Group),
         Visual(OnDisplay(tiers, groups))
  PROVE  LET t == OnDisplay(tiers, groups)
         IN  /\ generateExprFromVisualConfig(tiers) = Text("chain", t.tiers, <<>>)
             /\ buildRequestRuleExpr(groups) = LayerOf(t)
<1> DEFINE t == OnDisplay(tiers, groups)
           g == generateExprFromVisualConfig(tiers)
           rule == buildRequestRuleExpr(groups)
<1>1. /\ t.kind = g.kind /\ t.tiers = g.tiers
      /\ t.layers = IF rule = <<>> THEN <<>> ELSE <<rule>>
  BY OnDisplayTyped
<1>2. g \in Texts /\ g.layers = <<>> /\ (g = Zero \/ g.kind = "chain")
  BY GenerateTyped
<1>3. g.kind = "chain"
  <2>1. t.kind \in {"chain", "spaced"}
    BY DEF Visual
  <2>2. Zero.kind = "zero"
    BY DEF Zero, Text
  <2> QED
    BY <1>1, <1>2, <2>1, <2>2
<1>4. LayerOf(t) = rule
  <2> HIDE DEF rule, t
  <2> QED
    BY <1>1 DEF LayerOf
<1> HIDE DEF g, t
<1>5. g = Text("chain", g.tiers, <<>>)
  BY <1>2, <1>3, TextParts
<1> QED
  BY <1>1, <1>4, <1>5 DEF g, t, rule

\* A round of the effects puts into the dialog the halves of what the editor
\* stands for.
LEMMA PushesHalves ==
  ASSUME TypeOK, NEW t \in Texts, Visual(t), Displays(ed, dialog.rule, t)
  PROVE  Halves(effectiveExpr, PushedRule, t)
<1>1. CASE ed.mode = "visual"
  <2>1. effectiveExpr = Text("chain", t.tiers, <<>>) /\ PushedRule = LayerOf(t)
    BY <1>1 DEF Displays, effectiveExpr, PushedRule
  <2> QED
    BY <2>1 DEF Halves, Text
<1>2. CASE ed.mode # "visual"
  <2>1. /\ ed.raw.kind \in {"chain", "spaced"} /\ ed.raw.tiers = t.tiers
        /\ ed.raw.layers = t.layers /\ dialog.rule = LayerOf(t) /\ ed.raw \in Texts
    BY <1>2, Types DEF Displays
  <2> DEFINE split == splitBillingExprAndRequestRules(ed.raw)
  <2>2. Halves(split.billingExpr, split.requestRuleExpr, t)
    BY <2>1, SplitHalves
  <2>3. effectiveExpr = split.billingExpr /\ PushedRule = dialog.rule
    BY <1>2 DEF effectiveExpr, PushedRule
  <2> QED
    BY <2>1, <2>2, <2>3 DEF Halves
<1> QED
  BY <1>1, <1>2

\* When the effects are at rest, the dialog has them already.
LEMMA RestHalves ==
  ASSUME TypeOK, Mounted, Settled, NEW t \in Texts, Visual(t), Displays(ed, dialog.rule, t)
  PROVE  Halves(dialog.billing, dialog.rule, t)
<1>1. effectiveExpr = dialog.billing /\ PushedRule = dialog.rule
  BY DEF Settled, PushedRule
<1> QED
  BY <1>1, PushesHalves

\* At rest the first effect has nothing to do, whatever initRef says.
LEMMA RestReads ==
  ASSUME Mounted, Settled
  PROVE  ~fresh /\ seen = <<dialog.billing, dialog.rule>>
  BY DEF Settled

\* An act that leaves the dialog alone keeps the first effect at rest: it is
\* enough that the editor stands for what was meant.
LEMMA StickAct ==
  ASSUME TypeOK, NEW means, Act(means), dialog' = dialog,
         \A t \in means : Visual(t) => Displays(ed', dialog.rule, t)
  PROVE  StickInv'
<1>1. /\ Mounted /\ Settled /\ meant' = means /\ seen' = seen /\ fresh' = fresh
  BY ActKeeps
<1>2. ~fresh /\ seen = <<dialog.billing, dialog.rule>> /\ dialog.tiered
  BY <1>1, RestReads DEF Mounted
<1>3. ~Reads' /\ dialog'.tiered
  BY <1>1, <1>2 DEF Reads
<1>4. \A t \in meant' : Visual(t) => Displays(ed', dialog'.rule, t)
  BY <1>1
<1> QED
  BY <1>3, <1>4 DEF StickInv

\* An act that sets the rules of the dialog: where that is news to the first
\* effect, the price of the dialog must be the new one already.
LEMMA StickSet ==
  ASSUME TypeOK, NEW means, Act(means), NEW r, SetsRule(r),
         \A t \in means : Visual(t) =>
            /\ Displays(ed', r, t)
            /\ ~initRef /\ r # dialog.rule => Halves(dialog.billing, r, t)
  PROVE  StickInv'
<1>1. /\ Mounted /\ Settled /\ meant' = means /\ seen' = seen /\ fresh' = fresh
  BY ActKeeps
<1>2. ~fresh /\ seen = <<dialog.billing, dialog.rule>> /\ dialog.tiered
  BY <1>1, RestReads DEF Mounted
<1>3. dialog'.tiered /\ dialog'.billing = dialog.billing /\ dialog'.rule = r
      /\ initRef' = initRef
  BY <1>2, ActKeeps DEF SetsRule
<1>4. Reads' => ~initRef /\ r # dialog.rule
  BY <1>1, <1>2, <1>3 DEF Reads
<1>5. \A t \in meant' : Visual(t) =>
         /\ Displays(ed', dialog'.rule, t)
         /\ Reads' => Halves(dialog'.billing, dialog'.rule, t)
  BY <1>1, <1>3, <1>4
<1> QED
  BY <1>3, <1>5 DEF StickInv

\* What is not Torn: new rules only with the price the dialog has.
LEMMA WholeHalves ==
  ASSUME NEW t, NEW b, NEW r, Halves(b, r, t), ~Torn(b, r), ~initRef, r # dialog.rule
  PROVE  Halves(dialog.billing, r, t)
<1>1. b = dialog.billing
  BY DEF Torn
<1> QED
  BY <1>1

\* The editor in visual mode over a table and groups that stand for t.
LEMMA EdDisplays ==
  ASSUME NEW tiers \in Seq(Tier), NEW groups \in Seq(Group), NEW raw \in Texts, NEW t,
         generateExprFromVisualConfig(tiers) = Text("chain", t.tiers, <<>>),
         buildRequestRuleExpr(groups) = LayerOf(t), NEW r
  PROVE  Displays(Ed("visual", tiers, raw, groups), r, t)
<1> DEFINE e == Ed("visual", tiers, raw, groups)
<1>1. e.mode = "visual" /\ e.visual = tiers /\ e.groups = groups
  BY EdFields
<1> HIDE DEF e
<1>2. Displays(e, r, t)
  BY <1>1 DEF Displays
<1> QED
  BY <1>2 DEF e

\* Every step keeps StickInv.  The round of effects needs its second part: the
\* first effect may overwrite the editor only with what was entered.
LEMMA StickStep ==
  ASSUME TypeOK, StickInv, [Next]_vars
  PROVE  StickInv'
<1>0. /\ stored \in [Models -> Texts] /\ dialog \in Dialogs /\ ed \in Editors
      /\ meant \in SUBSET Texts /\ ed.raw \in Texts
      /\ ed.visual \in Seq(Tier) /\ ed.groups \in Seq(Group)
      /\ dialog.billing \in Texts /\ dialog.rule \in Rule
  BY Types
<1>a. ASSUME Mounted, Settled, NEW t \in meant, Visual(t)
      PROVE  Displays(ed, dialog.rule, t) /\ Halves(dialog.billing, dialog.rule, t)
  <2>1. Displays(ed, dialog.rule, t)
    BY <1>a DEF StickInv, Mounted
  <2> QED
    BY <1>0, <1>a, <2>1, RestHalves
<1>b. ASSUME NEW d \in Dialogs, Show(d),
             \A t \in meant' : Visual(t) => Halves(d.billing, d.rule, t),
             meant' \in SUBSET Texts
      PROVE  StickInv'
  <2>1. dialog' = d /\ (d.tiered => ed' = Mount(d.billing, d.rule))
    BY <1>b, ShowTyped
  <2>2. d.billing \in Texts /\ d.rule \in Rule
    BY DEF Dialogs
  <2>3. ASSUME NEW t \in meant', Visual(t)
        PROVE  /\ Halves(d.billing, d.rule, t)
               /\ d.tiered => Displays(ed', d.rule, t)
    BY <1>b, <2>1, <2>2, <2>3, MountShows
  <2> QED
    BY <2>1, <2>3 DEF StickInv
<1>1. ASSUME NEW m \in Models, NEW adding \in BOOLEAN, OpenDialog(m, adding)
      PROVE  StickInv'
  <2>1. Show(Row(m, adding)) /\ meant' = {stored[m]}
    BY <1>1 DEF OpenDialog, Row
  <2> DEFINE split == splitBillingExprAndRequestRules(stored[m])
  <2>2. /\ Row(m, adding) \in Dialogs /\ stored[m] \in Texts
        /\ Row(m, adding).billing = split.billingExpr
        /\ Row(m, adding).rule = split.requestRuleExpr
    BY RowTyped
  <2>3. ASSUME Visual(stored[m])
        PROVE  Halves(split.billingExpr, split.requestRuleExpr, stored[m])
    <3>1. stored[m].kind \in {"chain", "spaced"}
      BY <2>3 DEF Visual
    <3> QED
      BY <2>2, <2>3, <3>1, SplitHalves
  <2> HIDE DEF split
  <2> QED
    BY <1>b, <2>1, <2>2, <2>3
<1>2. CASE SetPricingMode
  <2> DEFINE d == [dialog EXCEPT !.tiered = ~@]
  <2>1. Show(d) /\ meant' = meant /\ dialog.model # None /\ Settled
    BY <1>2 DEF SetPricingMode
  <2>2. d \in Dialogs /\ d.billing = dialog.billing /\ d.rule = dialog.rule
    BY <1>0, DialogSwitch
  <2> HIDE DEF d
  <2>3. ASSUME NEW t \in meant, Visual(t)
        PROVE  Halves(dialog.billing, dialog.rule, t)
    <3>1. CASE dialog.tiered
      BY <1>a, <2>1, <2>3, <3>1 DEF Mounted
    <3>2. CASE ~dialog.tiered
      BY <2>1, <2>3, <3>2 DEF StickInv
    <3> QED
      BY <3>1, <3>2
  <2> QED
    BY <1>0, <1>b, <2>1, <2>2, <2>3
<1>3. ASSUME Show(Closed) PROVE StickInv'
  <2>1. dialog'.model = None
    BY <1>3 DEF Show, Closed
  <2> QED
    BY <2>1 DEF StickInv
<1>4. CASE HandleSave
  BY <1>3, <1>4 DEF HandleSave
<1>5. CASE HandleCancel
  BY <1>3, <1>5 DEF HandleCancel
<1>6. CASE Flush
  <2>1. Mounted
    BY <1>6 DEF Flush, Settled
  <2>2. /\ dialog'.model = dialog.model /\ dialog'.tiered = dialog.tiered
        /\ dialog'.billing = effectiveExpr /\ dialog'.rule = PushedRule
        /\ ed' = (IF Reads THEN InitEditor ELSE ed) /\ meant' = meant
    BY <1>6, FlushDoes
  <2>3. ASSUME NEW t \in meant, Visual(t)
        PROVE  Halves(effectiveExpr, PushedRule, t) /\ Displays(ed', PushedRule, t)
    <3>1. /\ Displays(ed, dialog.rule, t)
          /\ Reads => Halves(dialog.billing, dialog.rule, t)
      BY <2>1, <2>3 DEF StickInv, Mounted
    <3>2. Halves(effectiveExpr, PushedRule, t)
      BY <1>0, <2>3, <3>1, PushesHalves
    <3>3. CASE Reads
      <4>1. Displays(Mount(dialog.billing, dialog.rule), PushedRule, t)
            /\ tryParseVisualConfig(dialog.billing) # <<>>
        BY <1>0, <2>3, <3>1, <3>3, MountShows
      <4> QED
        BY <2>2, <3>2, <3>3, <4>1, InitTyped
    <3>4. CASE ~Reads
      <4>1. PushedRule = LayerOf(t)
        BY <3>2 DEF Halves
      <4> QED
        BY <2>2, <3>1, <3>2, <3>4, <4>1 DEF Displays
    <3> QED
      BY <3>3, <3>4, <3>2
  <2> QED
    BY <2>1, <2>2, <2>3 DEF StickInv, Mounted
<1>7. ASSUME NEW tiers \in Seq(Tier), EditVisual(tiers)
      PROVE  StickInv'
  <2> DEFINE t == OnDisplay(tiers, ed.groups)
  <2>1. /\ Act({t}) /\ ed' = Ed("visual", tiers, ed.raw, ed.groups) /\ dialog' = dialog
    BY <1>7, EditVisualDoes
  <2>2. ASSUME Visual(t) PROVE Displays(ed', dialog.rule, t)
    <3>1. /\ generateExprFromVisualConfig(tiers) = Text("chain", t.tiers, <<>>)
          /\ buildRequestRuleExpr(ed.groups) = LayerOf(t)
      BY <1>0, <2>2, DisplayShows
    <3> HIDE DEF t
    <3> QED
      BY <1>0, <2>1, <3>1, EdDisplays
  <2> HIDE DEF t
  <2> QED
    BY <2>1, <2>2, StickAct
<1>8. ASSUME NEW groups \in Seq(Group), HandleRuleGroupsChange(groups)
      PROVE  StickInv'
  <2> DEFINE t == OnDisplay(ed.visual, groups)
  <2>1. /\ Act({t}) /\ ed' = Ed("visual", ed.visual, ed.raw, groups) /\ dialog' = dialog
    BY <1>8, RulesChangeDoes
  <2>2. ASSUME Visual(t) PROVE Displays(ed', dialog.rule, t)
    <3>1. /\ generateExprFromVisualConfig(ed.visual) = Text("chain", t.tiers, <<>>)
          /\ buildRequestRuleExpr(groups) = LayerOf(t)
      BY <1>0, <2>2, DisplayShows
    <3> HIDE DEF t
    <3> QED
      BY <1>0, <2>1, <3>1, EdDisplays
  <2> HIDE DEF t
  <2> QED
    BY <2>1, <2>2, StickAct
<1>9. ASSUME NEW t \in RawTexts, HandleRawChange(t)
      PROVE  StickInv'
  <2> DEFINE b == splitBillingExprAndRequestRules(t).billingExpr
             r == splitBillingExprAndRequestRules(t).requestRuleExpr
  <2>1. /\ t \in Texts /\ Act(Entered(b, r, t))
        /\ ed' = Ed("raw", ed.visual, t, ed.groups)
        /\ SetsRule(r)
    BY <1>9, RawChangeDoes
  <2>2. ASSUME NEW x \in Entered(b, r, t), Visual(x)
        PROVE  /\ Displays(ed', r, x)
               /\ ~initRef /\ r # dialog.rule => Halves(dialog.billing, r, x)
    <3>1. x = t /\ ~Torn(b, r) /\ Visual(t)
      BY <2>1, <2>2, EnteredTyped
    <3>2. r = LayerOf(t) /\ t.kind \in {"chain", "spaced"} /\ Halves(b, r, t)
      <4>1. t.kind \in {"chain", "spaced"}
        BY <3>1 DEF Visual
      <4>2. Halves(b, r, t)
        BY <2>1, <3>1, <4>1, SplitHalves
      <4> QED
        BY <4>1, <4>2 DEF Halves
    <3> HIDE DEF b, r
    <3>3. ed'.mode = "raw" /\ ed'.raw = t
      BY <1>0, <2>1, EdFields
    <3>4. Displays(ed', r, t)
      BY <3>2, <3>3 DEF Displays
    <3>5. ~initRef /\ r # dialog.rule => Halves(dialog.billing, r, t)
      BY <3>1, <3>2, WholeHalves
    <3> QED
      BY <3>1, <3>4, <3>5
  <2> HIDE DEF b, r
  <2> QED
    BY <2>1, <2>2, StickSet
<1>10. CASE HandleModeChangeToVisual
  <2> DEFINE split  == splitBillingExprAndRequestRules(ed.raw)
             r      == split.requestRuleExpr
             parsed == tryParseVisualConfig(split.billingExpr)
             table  == normalizeVisualConfig(parsed)
             groups == GroupsOf(r)
             default == generateExprFromVisualConfig(createDefaultVisualConfig)
             shown  == OnDisplay(createDefaultVisualConfig, groups)
             means  == IF parsed # <<>> THEN meant ELSE Entered(default, r, shown)
  <2>1. /\ ed.mode = "raw" /\ parsed \in Seq(Tier) /\ Act(means)
        /\ ed' = Ed("visual", table, ed.raw, groups)
        /\ r \in Rule /\ groups \in Seq(Group) /\ SetsRule(r)
    BY <1>10, ToVisualDoes
  <2>2. Mounted /\ Settled
    BY <2>1, ActKeeps
  <2>3. table \in Seq(Tier) /\ (parsed # <<>> => table = parsed)
        /\ (parsed = <<>> => table = createDefaultVisualConfig)
    BY <2>1, DefaultTyped DEF normalizeVisualConfig
  <2>4. split.billingExpr \in Texts
    BY <1>0, SplitTyped
  <2>5. createDefaultVisualConfig \in Seq(Tier)
    BY DefaultTyped
  <2>6. shown \in Texts
    BY <2>1, <2>5, OnDisplayTyped
  <2>7. parsed = <<>> => dialog.billing # default
    <3>1. dialog.billing = split.billingExpr
      BY <2>1, <2>2 DEF Settled, effectiveExpr
    <3>2. default \in Texts /\ default.kind = "chain" /\ default.layers = <<>>
      BY <2>5, DefaultTyped, GenerateTyped
    <3>3. tryParseVisualConfig(default) # <<>>
      BY <3>2, TiersTyped
    <3> QED
      BY <3>1, <3>3
  <2>8. ASSUME NEW t \in means, Visual(t)
        PROVE  /\ Displays(ed', r, t)
               /\ ~initRef /\ r # dialog.rule => Halves(dialog.billing, r, t)
    <3>1. CASE parsed # <<>>
      <4>1. t \in meant /\ t \in Texts
        BY <1>0, <2>8, <3>1
      <4>2. Displays(ed, dialog.rule, t)
        BY <1>a, <2>2, <2>8, <4>1
      <4>3. /\ ed.raw.kind \in {"chain", "spaced"} /\ ed.raw.tiers = t.tiers
            /\ ed.raw.layers = t.layers /\ dialog.rule = LayerOf(t)
        BY <2>1, <4>2 DEF Displays
      <4>4. Halves(split.billingExpr, r, t)
        BY <1>0, <2>8, <4>1, <4>3, SplitHalves
      <4>5. parsed = t.tiers /\ r = LayerOf(t)
        BY <2>4, <4>4, TiersTyped DEF Halves
      <4>6. generateExprFromVisualConfig(t.tiers) = Text("chain", t.tiers, <<>>)
        BY <2>8, <4>1, VisualLayers, GenerateChain
      <4> HIDE DEF r, table, parsed, split
      <4>7. table = t.tiers
        BY <2>3, <3>1, <4>5
      <4>a. groups = r /\ buildRequestRuleExpr(r) = r
        BY <2>1, <2>8, <4>1, <4>5, VisualLayers, BuildRule
      <4> HIDE DEF groups
      <4>8. /\ generateExprFromVisualConfig(table) = Text("chain", t.tiers, <<>>)
            /\ buildRequestRuleExpr(groups) = LayerOf(t)
        BY <4>5, <4>6, <4>7, <4>a
      <4>9. Displays(ed', r, t)
        BY <1>0, <2>1, <2>3, <4>8, EdDisplays
      <4> QED
        BY <4>3, <4>5, <4>9
    <3>2. CASE parsed = <<>>
      <4>1. t = shown /\ ~Torn(default, r)
        BY <2>6, <2>8, <3>2, EnteredTyped
      <4>2. /\ generateExprFromVisualConfig(createDefaultVisualConfig)
                 = Text("chain", shown.tiers, <<>>)
            /\ buildRequestRuleExpr(groups) = LayerOf(shown)
        BY <2>1, <2>5, <2>8, <4>1, DisplayShows
      <4> HIDE DEF r, table, parsed, split, shown, groups, default
      <4>3. generateExprFromVisualConfig(table) = Text("chain", shown.tiers, <<>>)
        BY <2>3, <3>2, <4>2
      <4>4. Displays(ed', r, shown)
        BY <1>0, <2>1, <2>3, <4>2, <4>3, EdDisplays
      <4>5. ~(~initRef /\ r # dialog.rule)
        BY <2>7, <3>2, <4>1 DEF Torn
      <4> QED
        BY <4>1, <4>4, <4>5
    <3> QED
      BY <3>1, <3>2
  <2> HIDE DEF means, r
  <2> QED
    BY <2>1, <2>8, StickSet
<1>11. CASE HandleModeChangeToRaw
  <2> DEFINE raw == OnDisplay(ed.visual, ed.groups)
  <2>1. /\ Act(meant) /\ ed.mode = "visual" /\ dialog' = dialog
        /\ ed' = Ed("raw", ed.visual, raw, ed.groups) /\ raw \in Texts
    BY <1>11, ToRawDoes
  <2>2. Mounted /\ Settled
    BY <2>1, ActKeeps
  <2>3. ASSUME NEW t \in meant, Visual(t)
        PROVE  Displays(ed', dialog.rule, t)
    <3>1. Displays(ed, dialog.rule, t) /\ Halves(dialog.billing, dialog.rule, t)
      BY <1>a, <2>2, <2>3
    <3>2. /\ generateExprFromVisualConfig(ed.visual) = Text("chain", t.tiers, <<>>)
          /\ buildRequestRuleExpr(ed.groups) = LayerOf(t) /\ dialog.rule = LayerOf(t)
      BY <2>1, <3>1 DEF Displays, Halves
    <3>3. /\ raw.kind = generateExprFromVisualConfig(ed.visual).kind
          /\ raw.tiers = generateExprFromVisualConfig(ed.visual).tiers
          /\ raw.layers = IF buildRequestRuleExpr(ed.groups) = <<>> THEN <<>>
                          ELSE <<buildRequestRuleExpr(ed.groups)>>
      BY <1>0, OnDisplayTyped
    <3>4. t.layers = IF LayerOf(t) = <<>> THEN <<>> ELSE <<LayerOf(t)>>
      BY <1>0, <2>3, VisualLayers
    <3> HIDE DEF raw
    <3>5. raw.kind = "chain" /\ raw.tiers = t.tiers /\ raw.layers = t.layers
      BY <3>2, <3>3, <3>4 DEF Text
    <3>6. ed'.mode = "raw" /\ ed'.raw = raw
      BY <1>0, <2>1, EdFields
    <3> QED
      BY <3>2, <3>5, <3>6 DEF Displays
  <2> QED
    BY <2>1, <2>3, StickAct
<1>12. ASSUME NEW p \in Presets, ApplyPreset(p)
       PROVE  StickInv'
  <2> DEFINE t == OnDisplay(p.tiers, p.groups)
             b == Text("chain", p.tiers, <<>>)
             r == buildRequestRuleExpr(p.groups)
  <2>1. /\ Act(Entered(b, r, t)) /\ p.tiers \in Seq(Tier) /\ p.groups \in Seq(Group)
        /\ ed'.mode = "visual" /\ ed'.visual = p.tiers /\ ed'.groups = p.groups
        /\ SetsRule(r)
    BY <1>12, PresetDoes
  <2>2. t \in Texts
    BY <2>1, OnDisplayTyped
  <2>3. ASSUME NEW x \in Entered(b, r, t), Visual(x)
        PROVE  /\ Displays(ed', r, x)
               /\ ~initRef /\ r # dialog.rule => Halves(dialog.billing, r, x)
    <3>1. x = t /\ ~Torn(b, r) /\ Visual(t)
      BY <2>2, <2>3, EnteredTyped
    <3>2. /\ generateExprFromVisualConfig(p.tiers) = Text("chain", t.tiers, <<>>)
          /\ r = LayerOf(t)
      BY <2>1, <3>1, DisplayShows
    <3>3. Displays(ed', r, t)
      <4> HIDE DEF t
      <4> QED
        BY <2>1, <3>2 DEF Displays
    <3>5. Halves(b, r, t)
      <4>1. b \in Texts /\ b.kind = "chain" /\ b.tiers = p.tiers /\ b.layers = <<>>
        BY PresetsAssumption DEF Text
      <4>2. generateExprFromVisualConfig(p.tiers) = b
        BY <4>1, GenerateChain
      <4>3. t.tiers = p.tiers
        BY <2>1, <4>1, <4>2, OnDisplayTyped
      <4> HIDE DEF b, r, t
      <4> QED
        BY <3>2, <4>1, <4>3 DEF Halves
    <3> HIDE DEF b, r, t
    <3>4. ~initRef /\ r # dialog.rule => Halves(dialog.billing, r, t)
      BY <3>1, <3>5, WholeHalves
    <3> QED
      BY <3>1, <3>3, <3>4
  <2> HIDE DEF b, r, t
  <2> QED
    BY <2>1, <2>3, StickSet
<1>13. CASE TypeName
  <2>1. Act(meant) /\ dialog' = dialog /\ ed' = ed
    BY <1>13 DEF TypeName
  <2>2. Mounted /\ Settled
    BY <2>1, ActKeeps
  <2>3. \A t \in meant : Visual(t) => Displays(ed', dialog.rule, t)
    BY <1>a, <2>1, <2>2
  <2> QED
    BY <2>1, <2>3, StickAct
<1>14. CASE UNCHANGED vars
  BY <1>14 DEF vars, StickInv, Reads
<1> QED
  BY <1>1, <1>2, <1>4, <1>5, <1>6, <1>7, <1>8, <1>9, <1>10, <1>11, <1>12, <1>13, <1>14,
     NextKinds

\* The halves of t, put together, are priced as t is.
LEMMA HalvesPrice ==
  ASSUME NEW t \in Texts, Visual(t), NEW b \in Texts, NEW r \in Rule, Halves(b, r, t)
  PROVE  SamePrice(combineBillingExpr(b, r), t)
<1> DEFINE s == combineBillingExpr(b, r)
<1>1. /\ b.kind \in {"chain", "spaced"} /\ b.tiers = t.tiers /\ b.layers = <<>>
      /\ r = LayerOf(t)
  BY DEF Halves
<1>2. /\ s.kind = b.kind /\ s.tiers = b.tiers
      /\ s.layers = IF b.kind = "empty" \/ r = <<>> THEN b.layers ELSE Append(b.layers, r)
  BY CombineTyped
<1>3. Append(<<>>, r) = <<r>>
  OBVIOUS
<1>4. t.layers = (IF r = <<>> THEN <<>> ELSE <<r>>) /\ t.kind \in {"chain", "spaced"}
  BY <1>1, VisualLayers
<1> HIDE DEF s
<1>5. s.kind \in {"chain", "spaced"} /\ s.tiers = t.tiers /\ s.layers = t.layers
  BY <1>1, <1>2, <1>3, <1>4
<1>6. Compiles(s) <=> Compiles(t)
  BY <1>4, <1>5 DEF Compiles
<1>7. ASSUME NEW u \in Usages PROVE Price(s, u) = Price(t, u)
  <2>1. LeafPrice(s, u) = ChainPrice(t.tiers, u) /\ LeafPrice(t, u) = ChainPrice(t.tiers, u)
    BY <1>4, <1>5 DEF LeafPrice
  <2> QED
    BY <1>5, <2>1 DEF Price
<1>8. s.kind # "empty" /\ t.kind # "empty"
  BY <1>4, <1>5
<1> QED
  BY <1>6, <1>7, <1>8 DEF SamePrice, s

\* EditsStick for every table, every rule and any number of acts: what the user
\* loaded or entered last is what a save would store, if the visual editor has a
\* form for it that reads back as it is written (no compound condition, no
\* == "true" or == "5") and it was not Torn.
THEOREM EditsStickHolds == Spec => []EditsStick
<1>1. Init => StickInv
  BY DEF Init, StickInv, Closed
<1>2. TypeOK /\ StickInv /\ [Next]_vars => StickInv'
  BY StickStep
<1>3. TypeOK /\ StickInv => EditsStick
  <2> SUFFICES ASSUME TypeOK, StickInv, Mounted, Settled, NEW t \in meant, Visual(t)
               PROVE  SamePrice(Saved, t)
    BY DEF EditsStick
  <2>1. t \in Texts /\ dialog.billing \in Texts /\ dialog.rule \in Rule
    BY Types
  <2>2. Displays(ed, dialog.rule, t)
    BY DEF StickInv, Mounted
  <2>3. Halves(dialog.billing, dialog.rule, t)
    BY <2>1, <2>2, RestHalves
  <2> QED
    BY <2>1, <2>3, HalvesPrice DEF Saved
<1> QED
  BY <1>1, <1>2, <1>3, PricingTypeCorrect, PTL DEF Spec

-----------------------------------------------------------------------------
(* The table on the screen states what the server charges                     *)

\* The product of nothing.
LEMMA ProductEmpty ==
  ASSUME NEW s \in Seq(Int), Len(s) = 0
  PROVE  Product(s) = 1
  BY ProductIs

\* One more factor.
LEMMA ProductAppend ==
  ASSUME NEW s \in Seq(Int), NEW x \in Int
  PROVE  Product(s) \in Int /\ Product(Append(s, x)) = Product(s) * x
<1> DEFINE t == Append(s, x)
           len == Len(s)
<1>0. len \in Nat /\ \A k \in 1..len : s[k] \in Int
  BY LenProperties, ElementOfSeq
<1>1. t \in Seq(Int) /\ Len(t) = len + 1 /\ t[len + 1] = x
      /\ \A k \in 1..len : t[k] = s[k]
  BY AppendProperties
<1> HIDE DEF t
<1>2. PICK f : f[0] = 1 /\ (\A n \in 1..len : f[n] = f[n - 1] * s[n]) /\ Product(s) = f[len]
  BY ProductIs
<1>3. PICK g : /\ g[0] = 1 /\ (\A n \in 1..Len(t) : g[n] = g[n - 1] * t[n])
               /\ Product(t) = g[Len(t)]
  BY <1>1, ProductIs
<1> DEFINE T == {n \in Nat : n <= len => f[n] \in Int /\ g[n] = f[n]}
<1> HIDE DEF len
<1>4. 0 \in T
  BY <1>2, <1>3
<1>5. ASSUME NEW n \in T PROVE n + 1 \in T
  <2>1. CASE n + 1 <= len
    <3>1. n \in Nat /\ n + 1 \in 1..len /\ n + 1 \in 1..Len(t) /\ (n + 1) - 1 = n
      BY <1>0, <1>1, <2>1
    <3>2. f[n] \in Int /\ g[n] = f[n]
      BY <1>0, <2>1, <3>1
    <3>3. f[n + 1] = f[n] * s[n + 1] /\ g[n + 1] = g[n] * t[n + 1]
      BY <1>2, <1>3, <3>1
    <3>4. t[n + 1] = s[n + 1] /\ s[n + 1] \in Int
      BY <1>0, <1>1, <3>1
    <3>5. f[n] * s[n + 1] \in Int
      BY <3>2, <3>4
    <3> QED
      BY <3>1, <3>2, <3>3, <3>4, <3>5
  <2> QED
    BY <2>1
<1>6. T = Nat
  <2>1. T \in SUBSET Nat
    OBVIOUS
  <2> HIDE DEF T
  <2> QED
    BY <1>4, <1>5, <2>1, NatSetInduction
<1>7. f[len] \in Int /\ g[len] = f[len]
  BY <1>0, <1>6
<1>8. g[len + 1] = g[len] * x
  <2>1. len + 1 \in 1..Len(t) /\ (len + 1) - 1 = len
    BY <1>0, <1>1
  <2> QED
    BY <1>1, <1>3, <2>1
<1> QED
  BY <1>1, <1>2, <1>3, <1>7, <1>8 DEF t

\* The weights of the members of a sequence.
Weighed(s, w) == [i \in DOMAIN s |-> w[s[i]]]

\* They are as many as the members.
LEMMA WeighedTyped ==
  ASSUME NEW S, NEW s \in Seq(S), NEW w \in [S -> Int]
  PROVE  /\ Weighed(s, w) \in Seq(Int) /\ Len(Weighed(s, w)) = Len(s)
         /\ \A i \in 1..Len(s) : Weighed(s, w)[i] = w[s[i]]
<1>1. Len(s) \in Nat /\ DOMAIN s = 1..Len(s) /\ \A i \in 1..Len(s) : s[i] \in S
  BY LenProperties, ElementOfSeq
<1>2. Weighed(s, w) \in [1..Len(s) -> Int]
  BY <1>1 DEF Weighed
<1>3. \A i \in 1..Len(s) : Weighed(s, w)[i] = w[s[i]]
  BY <1>1 DEF Weighed
<1>4. Weighed(s, w) \in Seq(Int)
  BY <1>1, <1>2, SeqDef
<1>5. DOMAIN Weighed(s, w) = 1..Len(s)
  BY <1>2
<1>6. Len(Weighed(s, w)) = Len(s)
  BY <1>1, <1>4, <1>5
<1> QED
  BY <1>3, <1>4, <1>6

\* One more member is one more weight.
LEMMA WeighedAppend ==
  ASSUME NEW S, NEW s \in Seq(S), NEW x \in S, NEW w \in [S -> Int]
  PROVE  Weighed(Append(s, x), w) = Append(Weighed(s, w), w[x])
<1> DEFINE t == Append(s, x)
           a == Weighed(t, w)
           b == Append(Weighed(s, w), w[x])
           n == Len(s)
<1>0. n \in Nat /\ w[x] \in Int
  BY LenProperties
<1>1. t \in Seq(S) /\ Len(t) = n + 1 /\ t[n + 1] = x /\ \A k \in 1..n : t[k] = s[k]
  BY AppendProperties
<1>2. a \in Seq(Int) /\ Len(a) = n + 1 /\ \A k \in 1..(n + 1) : a[k] = w[t[k]]
  <2> HIDE DEF t
  <2> QED
    BY <1>1, WeighedTyped
<1>3. Weighed(s, w) \in Seq(Int) /\ Len(Weighed(s, w)) = n
      /\ \A k \in 1..n : Weighed(s, w)[k] = w[s[k]]
  BY WeighedTyped
<1>4. /\ b \in Seq(Int) /\ Len(b) = n + 1 /\ b[n + 1] = w[x]
      /\ \A k \in 1..n : b[k] = Weighed(s, w)[k]
  BY <1>0, <1>3, AppendProperties
<1> HIDE DEF a, b, t
<1>5. ASSUME NEW k \in 1..(n + 1) PROVE a[k] = b[k]
  <2>1. CASE k = n + 1
    BY <1>1, <1>2, <1>4, <2>1
  <2>2. CASE k # n + 1
    <3>1. k \in 1..n
      <4> HIDE DEF n
      <4> QED
        BY <1>0, <2>2
    <3> QED
      BY <1>1, <1>2, <1>3, <1>4, <3>1
  <2> QED
    BY <2>1, <2>2
<1>6. a = b
  BY <1>2, <1>4, <1>5, SeqEqual
<1> QED
  BY <1>6 DEF a, b, t

\* What weighs 1 may be left out of a product.
LEMMA KeptProduct ==
  ASSUME NEW S, NEW s \in Seq(S), NEW good, NEW w \in [S -> Int],
         \A x \in S \ good : w[x] = 1
  PROVE  Product(Weighed(Kept(s, good), w)) = Product(Weighed(s, w))
<1> DEFINE len == Len(s)
           ws == Weighed(s, w)
<1>0. len \in Nat /\ \A k \in 1..len : s[k] \in S
  BY LenProperties, ElementOfSeq
<1>1. PICK f : /\ f[0] = <<>>
               /\ \A n \in 1..len :
                    f[n] = IF s[n] \in good THEN Append(f[n - 1], s[n]) ELSE f[n - 1]
               /\ Kept(s, good) = f[len]
  BY KeptIs
<1>2. ws \in Seq(Int) /\ Len(ws) = len /\ \A k \in 1..len : ws[k] = w[s[k]]
  BY WeighedTyped
<1>3. PICK g : /\ g[0] = 1 /\ (\A n \in 1..len : g[n] = g[n - 1] * ws[n])
               /\ Product(ws) = g[len]
  <2> HIDE DEF ws
  <2> QED
    BY <1>2, ProductIs
<1> DEFINE T == {n \in Nat : n <= len => f[n] \in Seq(S) /\ Product(Weighed(f[n], w)) = g[n]}
<1> HIDE DEF len, ws
<1>4. 0 \in T
  <2>1. f[0] \in Seq(S) /\ Len(f[0]) = 0
    BY <1>1, EmptySeq
  <2>2. Weighed(f[0], w) \in Seq(Int) /\ Len(Weighed(f[0], w)) = 0
    BY <2>1, WeighedTyped
  <2>3. Product(Weighed(f[0], w)) = 1
    BY <2>2, ProductEmpty
  <2> QED
    BY <1>3, <2>1, <2>3
<1>5. ASSUME NEW n \in T PROVE n + 1 \in T
  <2>1. CASE n + 1 <= len
    <3>1. n \in Nat /\ n + 1 \in 1..len /\ (n + 1) - 1 = n
      BY <1>0, <2>1
    <3>2. f[n] \in Seq(S) /\ Product(Weighed(f[n], w)) = g[n]
      BY <1>0, <2>1, <3>1
    <3> DEFINE x == s[n + 1]
               v == Weighed(f[n], w)
    <3>3. x \in S /\ w[x] \in Int /\ ws[n + 1] = w[x]
      BY <1>0, <1>2, <3>1
    <3>4. g[n + 1] = g[n] * w[x]
      BY <1>3, <3>1, <3>3
    <3>5. v \in Seq(Int)
      BY <3>2, WeighedTyped
    <3>6. Product(v) \in Int /\ Product(Append(v, w[x])) = Product(v) * w[x]
      <4> HIDE DEF v, x
      <4> QED
        BY <3>3, <3>5, ProductAppend
    <3>7. CASE x \in good
      <4>1. f[n + 1] = Append(f[n], x)
        BY <1>1, <3>1, <3>7
      <4>2. Weighed(Append(f[n], x), w) = Append(v, w[x])
        <5> HIDE DEF x
        <5> QED
          BY <3>2, <3>3, WeighedAppend
      <4>3. Append(f[n], x) \in Seq(S)
        BY <3>2, <3>3, AppendProperties
      <4>4. Product(Weighed(f[n + 1], w)) = g[n + 1]
        BY <3>2, <3>4, <3>6, <4>1, <4>2
      <4>5. f[n + 1] \in Seq(S)
        BY <4>1, <4>3
      <4> HIDE DEF x, v
      <4> QED
        BY <3>1, <4>4, <4>5
    <3>8. CASE x \notin good
      <4>1. f[n + 1] = f[n]
        BY <1>1, <3>1, <3>8
      <4>2. w[x] = 1
        BY <3>3, <3>8
      <4>3. g[n + 1] = g[n]
        <5>1. g[n] \in Int
          BY <3>2, <3>6
        <5> HIDE DEF x
        <5> QED
          BY <3>4, <4>2, <5>1
      <4> QED
        BY <3>1, <3>2, <4>1, <4>3
    <3> QED
      BY <3>7, <3>8
  <2> QED
    BY <2>1
<1>6. T = Nat
  <2>1. T \in SUBSET Nat
    OBVIOUS
  <2> HIDE DEF T
  <2> QED
    BY <1>4, <1>5, <2>1, NatSetInduction
<1>7. Product(Weighed(f[len], w)) = g[len]
  BY <1>0, <1>6
<1> QED
  BY <1>1, <1>3, <1>7 DEF ws

\* The multipliers of the rules that match, by the groups of the table and by
\* the rule that is written of them.
LEMMA RulesPrice ==
  ASSUME NEW groups \in Seq(Group), NEW u \in Usages
  PROVE  /\ Product([i \in DOMAIN groups |-> RuleFactor(groups[i], u)]) \in Int
         /\ LayerMultiplier(buildRequestRuleExpr(groups), u)
              = Product([i \in DOMAIN groups |-> RuleFactor(groups[i], u)])
<1> DEFINE w == [g \in Group |-> RuleFactor(g, u)]
           filled == Kept(groups, Filled)
           rule == buildRequestRuleExpr(groups)
<1>1. \A g \in Group : RuleFactor(g, u) \in Int /\ (g \notin Filled => RuleFactor(g, u) = 1)
  BY DEF RuleFactor, Filled, Group
<1>2. w \in [Group -> Int] /\ \A g \in Group \ Filled : w[g] = 1
  BY <1>1
<1>w. \A g \in Group : w[g] = RuleFactor(g, u)
  OBVIOUS
<1>3. [i \in DOMAIN groups |-> RuleFactor(groups[i], u)] = Weighed(groups, w)
  <2>1. \A i \in DOMAIN groups : groups[i] \in Group
    BY LenProperties, ElementOfSeq
  <2> HIDE DEF w
  <2> QED
    BY <1>w, <2>1 DEF Weighed
<1>4. filled \in Seq(Group \cap Filled)
  BY KeptTyped
<1>5. rule = [i \in DOMAIN filled |-> [conds |-> Written(filled[i]), mult |-> filled[i].mult]]
  BY DEF buildRequestRuleExpr
<1> HIDE DEF filled, w
<1>6. DOMAIN filled = 1..Len(filled) /\ \A i \in DOMAIN filled : filled[i] \in Group \cap Filled
  BY <1>4, LenProperties, ElementOfSeq
<1>7. [i \in DOMAIN rule |-> Multiplier(rule[i], u)] = Weighed(filled, w)
  <2>1. DOMAIN rule = DOMAIN filled
    BY <1>5
  <2>2. ASSUME NEW i \in DOMAIN filled
        PROVE  Multiplier(rule[i], u) = w[filled[i]]
    <3> DEFINE g == filled[i]
    <3>1. g \in Group /\ g \in Filled
      BY <1>6
    <3>2. rule[i] = [conds |-> Written(g), mult |-> g.mult]
      BY <1>5
    <3> HIDE DEF g, rule
    <3>3. Written(g) # <<>> /\ g.mult # 0
      BY <3>1 DEF Filled
    <3>4. Multiplier(rule[i], u) = RuleFactor(g, u)
      BY <3>2, <3>3 DEF Multiplier, RuleFactor
    <3>5. Multiplier(rule[i], u) = w[g]
      BY <1>w, <3>1, <3>4
    <3> QED
      BY <3>5 DEF g
  <2> HIDE DEF rule
  <2> QED
    BY <2>1, <2>2 DEF Weighed
<1>8. Product(Weighed(filled, w)) = Product(Weighed(groups, w))
  BY <1>2, KeptProduct DEF filled
<1>9. Weighed(groups, w) \in Seq(Int)
  BY <1>2, WeighedTyped
<1>10. Product(Weighed(groups, w)) \in Int
  <2>1. 1 \in Int
    OBVIOUS
  <2> QED
    BY <1>9, <2>1, ProductAppend
<1> QED
  BY <1>3, <1>7, <1>8, <1>10 DEF LayerMultiplier

\* No rules, or one layer of them.
LEMMA LayersPrice ==
  ASSUME NEW rule \in Rule, NEW u \in Usages, LayerMultiplier(rule, u) \in Int
  PROVE  LayersMultiplier(IF rule = <<>> THEN <<>> ELSE <<rule>>, u) = LayerMultiplier(rule, u)
<1>1. CASE rule = <<>>
  <2> DEFINE a == [i \in DOMAIN <<>> |-> LayerMultiplier(<<>>[i], u)]
             b == [i \in DOMAIN <<>> |-> Multiplier(<<>>[i], u)]
  <2>1. a \in [1..0 -> Int] /\ b \in [1..0 -> Int]
    OBVIOUS
  <2> HIDE DEF a, b
  <2>2. a \in Seq(Int) /\ b \in Seq(Int)
    BY <2>1, SeqDef
  <2>3. Len(a) = 0 /\ Len(b) = 0
    BY <2>1, <2>2
  <2>4. Product(a) = 1 /\ Product(b) = 1
    BY <2>2, <2>3, ProductEmpty
  <2> QED
    BY <1>1, <2>4 DEF LayersMultiplier, LayerMultiplier, a, b
<1>2. CASE rule # <<>>
  <2> DEFINE m == LayerMultiplier(rule, u)
             a == [i \in DOMAIN <<rule>> |-> LayerMultiplier(<<rule>>[i], u)]
  <2>1. DOMAIN <<rule>> = 1..1 /\ <<rule>>[1] = rule
    OBVIOUS
  <2>2. a \in [1..1 -> Int] /\ a[1] = m
    <3>1. \A i \in 1..1 : i = 1
      OBVIOUS
    <3> QED
      BY <2>1, <3>1
  <2> HIDE DEF a, m
  <2>3. a \in Seq(Int)
    BY <2>2, SeqDef
  <2>4. Len(a) = 1
    BY <2>2, <2>3
  <2>5. PICK f : f[0] = 1 /\ (\A n \in 1..1 : f[n] = f[n - 1] * a[n]) /\ Product(a) = f[1]
    BY <2>3, <2>4, ProductIs
  <2>6. f[1] = 1 * a[1]
    BY <2>5
  <2>7. Product(a) = m
    BY <2>2, <2>5, <2>6 DEF m
  <2> QED
    BY <1>2, <2>7 DEF LayersMultiplier, a, m
<1> QED
  BY <1>1, <1>2

\* A set of naturals has a least member.
LEMMA MinIn ==
  ASSUME NEW S \in SUBSET Nat, S # {}
  PROVE  Min(S) \in S
<1>1. PICK x \in S : \A y \in S : <<y, x>> \notin OpToRel(<, Nat)
  BY NatLessThanWellFounded, WFMin
<1>2. OpToRel(<, Nat) = {ss \in Nat \X Nat : ss[1] < ss[2]}
  BY DEF OpToRel
<1>3. ASSUME NEW y \in S PROVE x <= y
  <2>1. x \in Nat /\ y \in Nat /\ <<y, x>> \notin OpToRel(<, Nat)
    BY <1>1
  <2>2. ~(y < x)
    <3> SUFFICES ASSUME y < x PROVE FALSE
      OBVIOUS
    <3>1. <<y, x>> \in {ss \in Nat \X Nat : ss[1] < ss[2]}
      BY <2>1
    <3> QED
      BY <1>2, <2>1, <3>1
  <2>3. x \in Nat /\ y \in Nat
    OBVIOUS
  <2> QED
    BY <2>2, <2>3
<1> QED
  BY <1>3 DEF Min

\* The price of the table without its rules.
TableLeaf(tiers, u) ==
  LET n    == Len(tiers)
      hits == {i \in 1 .. n : Holds(tiers[i].conds, u) \/ (i = n /\ n > 1)}
  IN  IF hits = {} THEN 0 ELSE tiers[Min(hits)].price

\* The chain that is generated of a table is priced as the table reads: the
\* conditions of the last of several tiers are not written and do not count.
LEMMA TablePrices ==
  ASSUME NEW tiers \in Seq(Tier), tiers # <<>>, NEW u \in Usages
  PROVE  /\ ChainPrice(generateExprFromVisualConfig(tiers).tiers, u) = TableLeaf(tiers, u)
         /\ TableLeaf(tiers, u) \in Int
<1> DEFINE n == Len(tiers)
           T == generateExprFromVisualConfig(tiers).tiers
           hits == {i \in 1..n : Holds(tiers[i].conds, u) \/ (i = n /\ n > 1)}
           I == {i \in 1..n : Holds(T[i].conds, u)}
<1>0. n \in Nat /\ n \in 1..n /\ \A i \in 1..n : tiers[i] \in Tier
  BY LastTier, ElementOfSeq
<1>1. Len(T) = n /\ T = IF n = 1 THEN tiers ELSE WithConds(tiers, n, {})
  BY GenerateTyped DEF WithConds
<1> HIDE DEF T
<1>2. ASSUME NEW i \in 1..n
      PROVE  /\ T[i].price = tiers[i].price
             /\ Holds(T[i].conds, u) <=> Holds(tiers[i].conds, u) \/ (i = n /\ n > 1)
  <2>1. CASE n = 1
    <3>1. T = tiers /\ ~(n > 1)
      BY <1>1, <2>1
    <3> QED
      BY <3>1
  <2>2. CASE n # 1
    <3> DEFINE W == WithConds(tiers, n, {})
    <3>1. /\ W[n].conds = {} /\ W[n].price = tiers[n].price
          /\ \A k \in 1..n : k # n => W[k] = tiers[k]
      BY <1>0, SetConds
    <3>2. T = W
      BY <1>1, <2>2
    <3>3. n > 1
      <4> HIDE DEF n
      <4> QED
        BY <1>0, <2>2
    <3>4. Holds({}, u)
      BY DEF Holds
    <3> HIDE DEF W
    <3>5. CASE i = n
      BY <3>1, <3>2, <3>3, <3>4, <3>5
    <3>6. CASE i # n
      BY <3>1, <3>2, <3>6
    <3> QED
      BY <3>5, <3>6
  <2> QED
    BY <2>1, <2>2
<1>3. I = hits
  BY <1>2
<1>4. ChainPrice(T, u) = IF I = {} THEN 0 ELSE T[Min(I)].price
  <2>1. I # {} => Min(I) # 0
    <3>1. I \in SUBSET Nat /\ 0 \notin I
      BY <1>0
    <3> HIDE DEF I
    <3> QED
      BY <3>1, MinIn
  <2>2. SelectInSeq(T, LAMBDA tier : Holds(tier.conds, u)) = IF I # {} THEN Min(I) ELSE 0
    BY <1>1 DEF SelectInSeq
  <2> HIDE DEF I
  <2> QED
    BY <2>1, <2>2 DEF ChainPrice
<1>5. TableLeaf(tiers, u) = IF hits = {} THEN 0 ELSE tiers[Min(hits)].price
  BY DEF TableLeaf
<1>6. hits # {} => Min(hits) \in 1..n
  <2>1. hits \in SUBSET Nat /\ hits \subseteq 1..n
    BY <1>0
  <2> HIDE DEF hits
  <2> QED
    BY <2>1, MinIn
<1>7. \A i \in 1..n : tiers[i].price \in Int
  <2>1. \A tier \in Tier : tier.price \in Prices
    BY DEF Tier
  <2>2. \A p \in Prices : p \in Int
    BY PricesAssumption
  <2> QED
    BY <1>0, <2>1, <2>2
<1> HIDE DEF I, hits
<1> QED
  BY <1>2, <1>3, <1>4, <1>5, <1>6, <1>7 DEF T

\* ChargesWhatTheTableSays for every table and every list of rule groups: the
\* price the server computes of the saved expression is the one on the screen.
THEOREM ChargesWhatTheTableSaysHolds == Spec => []ChargesWhatTheTableSays
<1>1. TypeOK => ChargesWhatTheTableSays
  <2> SUFFICES ASSUME TypeOK, Mounted, Settled, ed.mode = "visual", NEW u \in Usages
               PROVE  Price(Saved, u) = TablePrice(u)
    BY DEF ChargesWhatTheTableSays
  <2> DEFINE tiers == ed.visual
             groups == ed.groups
             g == generateExprFromVisualConfig(tiers)
             rule == buildRequestRuleExpr(groups)
             rules == Product([i \in DOMAIN groups |-> RuleFactor(groups[i], u)])
  <2>1. tiers \in Seq(Tier) /\ groups \in Seq(Group)
    BY Types
  <2>2. Saved = OnDisplay(tiers, groups)
    BY DEF Saved, Settled, OnDisplay, effectiveExpr
  <2>3. /\ Saved.kind = g.kind /\ Saved.tiers = g.tiers
        /\ Saved.layers = IF rule = <<>> THEN <<>> ELSE <<rule>>
    BY <2>1, <2>2, OnDisplayTyped
  <2>4. rules \in Int /\ LayerMultiplier(rule, u) = rules
    BY <2>1, RulesPrice
  <2>5. rule \in Rule
    BY <2>1, BuildTyped
  <2>6. LayersMultiplier(Saved.layers, u) = rules
    <3> HIDE DEF rule, rules
    <3> QED
      BY <2>3, <2>4, <2>5, LayersPrice
  <2>7. Price(Saved, u) = LeafPrice(Saved, u) * rules
    BY <2>6 DEF Price
  <2>8. TablePrice(u) = TableLeaf(Shown, u) * rules
    BY DEF TablePrice, TableLeaf
  <2>9. LeafPrice(Saved, u) = TableLeaf(Shown, u)
    <3>1. CASE tiers = <<>>
      <4>1. Saved.kind = "zero"
        <5>1. g = Zero
          BY <3>1 DEF generateExprFromVisualConfig
        <5>2. Zero.kind = "zero"
          BY DEF Zero, Text
        <5> QED
          BY <2>3, <5>1, <5>2
      <4>2. LeafPrice(Saved, u) = 0
        BY <4>1 DEF LeafPrice
      <4> DEFINE d == createDefaultVisualConfig
      <4>3. Shown = d
        BY <3>1 DEF Shown, normalizeVisualConfig
      <4>4. Len(d) = 1 /\ d[1].conds = {} /\ d[1].price = 0
        BY DEF createDefaultVisualConfig
      <4>5. Holds({}, u)
        BY DEF Holds
      <4> HIDE DEF d
      <4> DEFINE hits == {i \in 1..1 : Holds(d[i].conds, u) \/ (i = 1 /\ 1 > 1)}
      <4>6. hits # {} /\ \A i \in hits : i = 1
        BY <4>4, <4>5
      <4>7. Min(hits) = 1
        <5>1. hits \in SUBSET Nat
          OBVIOUS
        <5> HIDE DEF hits
        <5> QED
          BY <4>6, <5>1, MinIn
      <4>8. TableLeaf(d, u) = IF hits = {} THEN 0 ELSE d[Min(hits)].price
        BY <4>4 DEF TableLeaf
      <4> HIDE DEF hits
      <4> QED
        BY <4>2, <4>3, <4>4, <4>6, <4>7, <4>8
    <3>2. CASE tiers # <<>>
      <4>1. Saved.kind = "chain"
        BY <2>1, <2>3, <3>2, GenerateTyped
      <4>2. Shown = tiers
        BY <3>2 DEF Shown, normalizeVisualConfig
      <4>3. LeafPrice(Saved, u) = ChainPrice(Saved.tiers, u)
        BY <4>1 DEF LeafPrice
      <4> QED
        BY <2>1, <2>3, <3>2, <4>2, <4>3, TablePrices
    <3> QED
      BY <3>1, <3>2
  <2> QED
    BY <2>7, <2>8, <2>9
<1> QED
  BY <1>1, PricingTypeCorrect, PTL
=============================================================================
