----------------------------- MODULE HoldCapture -----------------------------
(***************************************************************************)
(* What request billing promises its users, without sessions, retries or   *)
(* databases.  A hold is placed on the funding source, then captured for   *)
(* the actual price or voided to zero; a fault may abandon it with the     *)
(* amount it has.  Once a hold is over its amount never changes again.     *)
(***************************************************************************)
EXTENDS Integers

CONSTANT Holds

VARIABLES state, amount

vars == <<state, amount>>

Over == {"captured", "voided", "denied", "abandoned"}

Init ==
  /\ state = [h \in Holds |-> "none"]
  /\ amount = [h \in Holds |-> 0]

\* The request is refused: nothing was taken.
Deny(h) ==
  /\ state[h] = "none"
  /\ state' = [state EXCEPT ![h] = "denied"]
  /\ UNCHANGED amount

\* An estimate is taken in advance.
Place(h) ==
  /\ state[h] = "none"
  /\ state' = [state EXCEPT ![h] = "held"]
  /\ amount'[h] \in Nat
  /\ amount' = [amount EXCEPT ![h] = amount'[h]]

\* The actual price replaces the estimate.
Capture(h) ==
  /\ state[h] = "held"
  /\ state' = [state EXCEPT ![h] = "captured"]
  /\ amount'[h] \in Nat
  /\ amount' = [amount EXCEPT ![h] = amount'[h]]

\* The request failed: everything is given back.
Void(h) ==
  /\ state[h] = "held"
  /\ state' = [state EXCEPT ![h] = "voided"]
  /\ amount' = [amount EXCEPT ![h] = 0]

\* A fault ends requests without a capture or a void, at any point: what was
\* taken stays taken.
Abandon(S) ==
  /\ S # {} /\ \A h \in S : state[h] \notin Over
  /\ state' = [h \in Holds |-> IF h \in S THEN "abandoned" ELSE state[h]]
  /\ UNCHANGED amount

Next ==
  \/ \E h \in Holds : Deny(h) \/ Place(h) \/ Capture(h) \/ Void(h)
  \/ \E S \in SUBSET Holds : Abandon(S)

Spec == Init /\ [][Next]_vars
=============================================================================
