------------------------ MODULE BillingSessionProofs ------------------------
(***************************************************************************)
(* Proofs about BillingSession, for any set of requests, any balances and  *)
(* any combination of faults (where a theorem excludes one it says so).    *)
(*                                                                         *)
(* None of the properties is inductive: that a settled session has charged *)
(* its actual quota depends on what an open one holds, which depends on    *)
(* the source having been untouched until the session opened.  The three   *)
(* invariants below carry that history, one request at a time.             *)
(***************************************************************************)
EXTENDS BillingSession, TLAPS

\* Control points before funding.PreConsume has succeeded.
NotOpened == {"idle", "tryWallet", "trySubscription", "preToken", "decToken",
              "preFunding", "rollbackToken", "rejected"}

\* Control points of the refund goroutine.
Refunding == {"refundFunding", "refundMark", "refundToken"}

\* What the funding source has given at each control point.
FundingInvAt(r) ==
  /\ pc[r] \in NotOpened => /\ wCharge[r] = 0 /\ sCharge[r] = 0
                            /\ ~sess[r].settled /\ ~sess[r].fundingSettled
                            /\ ~sess[r].refunded
  /\ pc[r] \in {"preToken", "decToken", "preFunding", "rollbackToken", "open", "settleToken"}
       \cup Refunding => sess[r].funding # "none"
  /\ sess[r].funding # "wallet" => wCharge[r] = 0
  /\ sess[r].funding # "subscription" => sCharge[r] = 0
  /\ pc[r] \in {"open", "unsettled"} =>
       /\ FundingCharge(r) = sess[r].preConsumedQuota
       /\ sess[r].consumed = sess[r].preConsumedQuota
       /\ ~sess[r].settled /\ ~sess[r].fundingSettled /\ ~sess[r].refunded
  /\ pc[r] = "settleToken" => sess[r].fundingSettled
  /\ sess[r].fundingSettled \/ sess[r].settled => FundingCharge(r) = sess[r].actual
  /\ pc[r] \in Refunding => ~sess[r].settled /\ ~sess[r].fundingSettled /\ sess[r].refunded
  /\ sess[r].funding = "wallet" \/ pc[r] = "tryWallet" => opt[r].pref # "subscription_only"
  /\ sess[r].funding = "subscription" \/ pc[r] = "trySubscription" => opt[r].pref # "wallet_only"

\* What the token has given at each control point.  A token rollback that
\* failed leaves more taken than tokenConsumed says, never less.
TokenInvAt(r) ==
  /\ tCharge[r] >= 0
  /\ opt[r].playground => tCharge[r] = 0 /\ pc[r] # "decToken"
  /\ pc[r] \in {"idle", "tryWallet", "trySubscription", "preToken", "decToken"} =>
       sess[r].tokenConsumed = 0
  /\ pc[r] = "preFunding" => sess[r].tokenConsumed = EffectiveQuota(r)
  /\ pc[r] \in {"open", "settleToken"} => sess[r].tokenConsumed = sess[r].preConsumedQuota
  /\ pc[r] \in {"preFunding", "rollbackToken", "open", "settleToken"} \cup Refunding
       /\ ~opt[r].playground => tCharge[r] >= sess[r].tokenConsumed

\* What the refund goroutine still owes the funding source, as long as the
\* record of the refund cannot be lost.
RefundInvAt(r) ==
  /\ wCharge[r] >= 0 /\ sCharge[r] >= 0
  /\ pc[r] = "refundFunding" => FundingCharge(r) = sess[r].consumed /\ sess[r].consumed > 0
  /\ pc[r] = "refundMark" => sess[r].funding = "subscription" /\ FundingCharge(r) = 0

\* Control points before the token has been charged.
BeforeToken == {"idle", "tryWallet", "trySubscription", "preToken", "decToken"}

\* When nothing fails the token has given exactly what the session remembers,
\* and a request that ends without being settled has nothing left to give back.
FaultlessInvAt(r) ==
  /\ opt[r].playground => tCharge[r] = 0
  /\ pc[r] \in BeforeToken \cup {"rejected"} => tCharge[r] = 0
  /\ pc[r] \in {"preFunding", "rollbackToken", "open", "settleToken"} \cup Refunding
       /\ ~opt[r].playground => tCharge[r] = sess[r].tokenConsumed
  /\ pc[r] \in {"refundToken", "closed"} => wCharge[r] = 0 /\ sCharge[r] = 0
  /\ pc[r] = "settled" /\ ~opt[r].playground => tCharge[r] = FundingCharge(r)
  /\ pc[r] = "closed" => tCharge[r] = 0

FundingInv == \A r \in Requests : FundingInvAt(r)
TokenInv == \A r \in Requests : TokenInvAt(r)
RefundInv == \A r \in Requests : RefundInvAt(r)
FaultlessInv == \A r \in Requests : FaultlessInvAt(r)

-----------------------------------------------------------------------------
(* Types                                                                      *)

\* The quota a session pre-consumes is a natural number, and the trust decision
\* a truth value.
LEMMA LocalTypes ==
  ASSUME TypeOK, NEW r \in Requests
  PROVE  /\ opt[r] \in Profile /\ sess[r] \in Session
         /\ EffectiveQuota(r) \in Nat /\ ShouldTrust(r) \in BOOLEAN
         /\ sess[r].tokenConsumed \in Nat /\ sess[r].consumed \in Nat
         /\ sess[r].preConsumedQuota \in Nat /\ sess[r].actual \in Nat
         /\ sess[r].attempts \in Nat
<1>1. opt[r] \in Profile /\ sess[r] \in Session
  BY ProfilesAssumption DEF TypeOK
<1>2. opt[r].quota \in Nat
  BY <1>1 DEF Profile
<1>3. EffectiveQuota(r) \in Nat
  BY <1>2 DEF EffectiveQuota
<1>4. ShouldTrust(r) \in BOOLEAN
  BY Zenon DEF ShouldTrust
<1> QED
  BY <1>1, <1>3, <1>4 DEF Session

\* What the step does to the session of r, and to no other session.
LEMMA SessionStep ==
  ASSUME TypeOK, NEW r \in Requests, Step(r)
  PROVE  sess' \in [Requests -> Session]
<1>1. /\ sess \in [Requests -> Session] /\ sess[r] \in Session
      /\ EffectiveQuota(r) \in Nat /\ ShouldTrust(r) \in BOOLEAN
      /\ sess[r].attempts \in Nat
  BY LocalTypes DEF TypeOK
<1>2. ASSUME NEW s \in Session, SetSession(r, s)
      PROVE  sess' \in [Requests -> Session]
  BY <1>1, <1>2 DEF SetSession
<1>3. CASE NewBillingSession(r)
  <2>1. [sess[r] EXCEPT !.tokenQuota = token] \in Session
    BY <1>1 DEF Session, TypeOK
  <2> QED
    BY <2>1, <1>2, <1>3 DEF NewBillingSession
<1>4. CASE TryWallet(r)
  <2>1. [sess[r] EXCEPT !.funding = "wallet", !.fallback = FALSE,
                        !.trusted = ShouldTrust(r)] \in Session
    BY <1>1 DEF Session
  <2>2. [sess[r] EXCEPT !.fallback = TRUE] \in Session
    BY <1>1 DEF Session
  <2> QED
    BY <2>1, <2>2, <1>1, <1>2, <1>4 DEF TryWallet
<1>5. CASE TrySubscription(r)
  <2>1. [sess[r] EXCEPT !.funding = "subscription", !.fallback = FALSE,
                        !.trusted = FALSE] \in Session
    BY <1>1 DEF Session
  <2> QED
    BY <2>1, <1>2, <1>5 DEF TrySubscription
<1>6. CASE CheckToken(r) \/ PreConsumeTokenQuota(r)
  <2>1. [sess[r] EXCEPT !.tokenConsumed = EffectiveQuota(r)] \in Session
    BY <1>1 DEF Session
  <2> QED
    BY <2>1, <1>1, <1>2, <1>6 DEF CheckToken, PreConsumeTokenQuota
<1>7. CASE PreConsumeWallet(r) \/ PreConsumeUserSubscription(r)
  <2>1. [sess[r] EXCEPT !.consumed = EffectiveQuota(r),
                        !.preConsumedQuota = EffectiveQuota(r)] \in Session
    BY <1>1 DEF Session
  <2>2. \A b \in BOOLEAN : [sess[r] EXCEPT !.fallback = b] \in Session
    BY <1>1 DEF Session
  <2> QED
    BY <2>1, <2>2, <1>2, <1>7
       DEF PreConsumeWallet, PreConsumeUserSubscription, FundingTaken, FundingRefused
<1>8. CASE RollbackToken(r)
  <2>1. [sess[r] EXCEPT !.tokenConsumed = 0, !.trusted = FALSE] \in Session
    BY <1>1 DEF Session
  <2> QED
    BY <2>1, <1>2, <1>8 DEF RollbackToken
<1>9. ASSUME NEW a \in Quotas, Settle(r, a)
      PROVE  sess' \in [Requests -> Session]
  <2>1. /\ [sess[r] EXCEPT !.actual = a, !.settled = TRUE] \in Session
        /\ [sess[r] EXCEPT !.actual = a, !.fundingSettled = TRUE] \in Session
    BY <1>1, QuotasAssumption DEF Session
  <2> QED
    BY <2>1, <1>1, <1>2, <1>9 DEF Settle
<1>10. CASE SettleToken(r) \/ Refund(r)
  <2>1. /\ [sess[r] EXCEPT !.settled = TRUE] \in Session
        /\ [sess[r] EXCEPT !.refunded = TRUE] \in Session
    BY <1>1 DEF Session
  <2> QED
    BY <2>1, <1>1, <1>2, <1>10 DEF SettleToken, Refund
<1>11. CASE RefundWallet(r) \/ RefundToken(r)
  BY <1>1, <1>11 DEF RefundWallet, RefundToken
<1>12. CASE RefundSubscription(r) \/ MarkRefunded(r)
  <2>1. [sess[r] EXCEPT !.attempts = @ + 1] \in Session
    BY <1>1 DEF Session
  <2> QED
    BY <2>1, <1>1, <1>2, <1>12 DEF RefundSubscription, MarkRefunded, NextAttempt
<1> QED
  BY <1>3, <1>4, <1>5, <1>6, <1>7, <1>8, <1>9, <1>10, <1>11, <1>12
     DEF Step, PreConsume, Finish

\* Every step keeps every variable in its type.
LEMMA TypeStep ==
  ASSUME TypeOK, [Next]_vars
  PROVE  TypeOK'
<1>1. ASSUME NEW r \in Requests, Step(r)
      PROVE  TypeOK'
  <2> /\ EffectiveQuota(r) \in Nat
      /\ sess[r].tokenConsumed \in Nat /\ sess[r].consumed \in Nat
      /\ sess[r].preConsumedQuota \in Nat /\ sess[r].actual \in Nat
    BY LocalTypes
  <2> sess' \in [Requests -> Session]
    BY SessionStep, <1>1
  <2>1. CASE NewBillingSession(r)
    BY <2>1, QuotasAssumption
       DEF NewBillingSession, NoAccount, NoFunding, NoToken, Goto, TypeOK, ControlPoints, Terminal
  <2>2. CASE TryWallet(r)
    BY <2>2, QuotasAssumption
       DEF TryWallet, NoAccount, NoFunding, NoToken, Goto, TypeOK, ControlPoints, Terminal
  <2>3. CASE TrySubscription(r)
    BY <2>3, QuotasAssumption
       DEF TrySubscription, NoAccount, NoFunding, NoToken, Goto, TypeOK, ControlPoints, Terminal
  <2>4. CASE CheckToken(r)
    BY <2>4, QuotasAssumption
       DEF CheckToken, NoAccount, NoFunding, NoToken, Goto, TypeOK, ControlPoints, Terminal
  <2>5. CASE PreConsumeTokenQuota(r)
    BY <2>5, QuotasAssumption
       DEF PreConsumeTokenQuota, DecreaseTokenQuota, NoFunding, NoToken, Goto, TypeOK, ControlPoints, Terminal
  <2>6. CASE PreConsumeWallet(r)
    BY <2>6, QuotasAssumption
       DEF PreConsumeWallet, FundingTaken, FundingRefused, DecreaseUserQuota,
        NoFunding, NoToken, Goto, TypeOK, ControlPoints, Terminal
  <2>7. CASE PreConsumeUserSubscription(r)
    <3>1. UNCHANGED <<subActive, opt, token, tCharge, wallet, wCharge>>
      BY <2>7 DEF PreConsumeUserSubscription, FundingRefused, PostConsumeUserSubscriptionDelta,
        NoFunding, NoToken
    <3>2. \/ PostConsumeUserSubscriptionDelta(r, EffectiveQuota(r))
          \/ UNCHANGED <<subUsed, sCharge>>
      BY <2>7 DEF PreConsumeUserSubscription, FundingRefused, NoFunding
    <3>3. subUsed' \in Nat /\ sCharge' \in [Requests -> Int]
      BY <3>2 DEF PostConsumeUserSubscriptionDelta, TypeOK
    <3>4. pc' \in [Requests -> ControlPoints]
      BY <2>7 DEF PreConsumeUserSubscription, FundingTaken, FundingRefused, Goto, TypeOK,
        ControlPoints, Terminal
    <3> QED
      BY <3>1, <3>3, <3>4 DEF TypeOK
  <2>8. CASE RollbackToken(r)
    BY <2>8, QuotasAssumption
       DEF RollbackToken, NextSource, DecreaseTokenQuota, NoFunding, NoToken, Goto, TypeOK, ControlPoints, Terminal
  <2>9. CASE \E a \in Quotas : Settle(r, a)
    BY <2>9, QuotasAssumption
       DEF Settle, DecreaseUserQuota, PostConsumeUserSubscriptionDelta,
        NoFunding, NoToken, Goto, TypeOK, ControlPoints, Terminal
  <2>10. CASE SettleToken(r)
    BY <2>10, QuotasAssumption
       DEF SettleToken, DecreaseTokenQuota, NoFunding, NoToken, Goto, TypeOK, ControlPoints, Terminal
  <2>11. CASE Refund(r)
    BY <2>11, QuotasAssumption
       DEF Refund, NeedsRefund, NoAccount, NoFunding, NoToken, Goto, TypeOK, ControlPoints, Terminal
  <2>12. CASE RefundWallet(r)
    BY <2>12, QuotasAssumption
       DEF RefundWallet, DecreaseUserQuota, NoFunding, NoToken, Goto, TypeOK, ControlPoints, Terminal
  <2>13. CASE RefundSubscription(r)
    BY <2>13, QuotasAssumption
       DEF RefundSubscription, NextAttempt, PostConsumeUserSubscriptionDelta,
        NoFunding, NoToken, Goto, TypeOK, ControlPoints, Terminal
  <2>14. CASE MarkRefunded(r)
    BY <2>14, QuotasAssumption
       DEF MarkRefunded, NextAttempt, NoAccount, NoFunding, NoToken, Goto, TypeOK, ControlPoints, Terminal
  <2>15. CASE RefundToken(r)
    BY <2>15, QuotasAssumption
       DEF RefundToken, DecreaseTokenQuota, NoFunding, NoToken, Goto, TypeOK, ControlPoints, Terminal
  <2> QED
    BY <2>1, <2>2, <2>3, <2>4, <2>5, <2>6, <2>7, <2>8, <2>9, <2>10, <2>11, <2>12, <2>13, <2>14, <2>15, <1>1 DEF Step, PreConsume, Finish
<1>2. CASE ResetSubscription
  BY <1>2 DEF ResetSubscription, charges, TypeOK
<1>5. CASE ExpireSubscription
  BY <1>5, Zenon DEF ExpireSubscription, charges, TypeOK
<1>3. CASE Crash
  BY <1>3 DEF Crash, accounts, charges, TypeOK, ControlPoints, Terminal
<1>4. CASE Finished \/ UNCHANGED vars
  BY <1>4 DEF Finished, vars, TypeOK
<1> QED
  BY <1>1, <1>2, <1>5, <1>3, <1>4 DEF Next

\* The type invariant of the billing session holds in every reachable state.
THEOREM TypeCorrect == Spec => []TypeOK
<1>1. Init => TypeOK
  BY AccountsAssumption DEF Init, TypeOK, Session, NoSession, ControlPoints, Terminal
<1> QED
  BY <1>1, TypeStep, PTL DEF Spec

-----------------------------------------------------------------------------
(* One request at a time                                                      *)

\* A step of one request leaves the session and the charges of every other
\* request alone: requests meet only in the account rows.
LEMMA OtherRequests ==
  ASSUME TypeOK, NEW r \in Requests, Step(r), NEW x \in Requests, x # r
  PROVE  /\ pc'[x] = pc[x] /\ sess'[x] = sess[x] /\ opt'[x] = opt[x]
         /\ wCharge'[x] = wCharge[x] /\ sCharge'[x] = sCharge[x] /\ tCharge'[x] = tCharge[x]
<1> USE DEF TypeOK, Goto, SetSession, NoAccount, NoFunding, NoToken, DecreaseUserQuota,
      DecreaseTokenQuota, PostConsumeUserSubscriptionDelta
<1>1. CASE NewBillingSession(r) \/ TryWallet(r) \/ TrySubscription(r) \/ CheckToken(r)
  BY <1>1 DEF NewBillingSession, TryWallet, TrySubscription, CheckToken
<1>2. CASE PreConsumeTokenQuota(r)
  BY <1>2 DEF PreConsumeTokenQuota
<1>3. CASE PreConsumeWallet(r) \/ PreConsumeUserSubscription(r)
  BY <1>3 DEF PreConsumeWallet, PreConsumeUserSubscription, FundingTaken, FundingRefused
<1>4. CASE RollbackToken(r)
  BY <1>4 DEF RollbackToken
<1>5. ASSUME NEW a \in Quotas, Settle(r, a)
      PROVE  /\ pc'[x] = pc[x] /\ sess'[x] = sess[x] /\ opt'[x] = opt[x]
             /\ wCharge'[x] = wCharge[x] /\ sCharge'[x] = sCharge[x] /\ tCharge'[x] = tCharge[x]
  BY <1>5 DEF Settle
<1>6. CASE SettleToken(r) \/ RefundToken(r)
  BY <1>6 DEF SettleToken, RefundToken
<1>7. CASE Refund(r) \/ RefundWallet(r)
  BY <1>7 DEF Refund, RefundWallet
<1>8. CASE RefundSubscription(r) \/ MarkRefunded(r)
  BY <1>8 DEF RefundSubscription, MarkRefunded, NextAttempt
<1> QED
  BY <1>1, <1>2, <1>3, <1>4, <1>5, <1>6, <1>7, <1>8 DEF Step, PreConsume, Finish

-----------------------------------------------------------------------------
(* What each action does to its own request                                   *)

\* The fields of a session that pre-consumption leaves alone.
SameOutcome(r) ==
  /\ sess'[r].settled = sess[r].settled
  /\ sess'[r].fundingSettled = sess[r].fundingSettled
  /\ sess'[r].refunded = sess[r].refunded
  /\ sess'[r].actual = sess[r].actual

\* The amounts a session remembers.
SameAmounts(r) ==
  /\ sess'[r].preConsumedQuota = sess[r].preConsumedQuota
  /\ sess'[r].tokenConsumed = sess[r].tokenConsumed
  /\ sess'[r].consumed = sess[r].consumed

SameSource(r) == sess'[r].funding = sess[r].funding /\ sess'[r].trusted = sess[r].trusted
SameFunding(r) == wCharge'[r] = wCharge[r] /\ sCharge'[r] = sCharge[r]
SameCharges(r) == SameFunding(r) /\ tCharge'[r] = tCharge[r]

\* The first source is one the preference allows.
LEMMA NewBillingSessionEffect ==
  ASSUME TypeOK, NEW r \in Requests, NewBillingSession(r)
  PROVE  /\ pc[r] = "idle" /\ opt'[r] = opt[r]
         /\ \/ pc'[r] = "rejected"
            \/ pc'[r] = "trySubscription" /\ opt[r].pref # "wallet_only"
            \/ pc'[r] = "tryWallet" /\ opt[r].pref # "subscription_only"
         /\ SameOutcome(r) /\ SameAmounts(r) /\ SameSource(r) /\ SameCharges(r)
<1> /\ opt[r] \in Profile /\ sess[r] \in Session
    /\ EffectiveQuota(r) \in Nat /\ ShouldTrust(r) \in BOOLEAN
    /\ sess[r].tokenConsumed \in Nat /\ sess[r].consumed \in Nat
    /\ sess[r].preConsumedQuota \in Nat /\ sess[r].actual \in Nat
    /\ sess[r].attempts \in Nat
  BY LocalTypes
<1>1. /\ pc[r] = "idle" /\ opt'[r] = opt[r]
      /\ \/ pc'[r] = "rejected"
         \/ pc'[r] = "trySubscription" /\ opt[r].pref # "wallet_only"
         \/ pc'[r] = "tryWallet" /\ opt[r].pref # "subscription_only"
      /\ sess'[r] = [sess[r] EXCEPT !.tokenQuota = token]
      /\ wCharge'[r] = wCharge[r] /\ sCharge'[r] = sCharge[r] /\ tCharge'[r] = tCharge[r] /\ opt'[r] = opt[r]
  BY DEF NewBillingSession, NoAccount, NoFunding, NoToken, Goto, SetSession, TypeOK
<1>2. SameOutcome(r) /\ SameAmounts(r) /\ SameSource(r)
  BY <1>1 DEF Session, SameOutcome, SameAmounts, SameSource, SameFunding
<1> QED
  BY <1>1, <1>2 DEF SameFunding, SameCharges

\* The wallet becomes the source, or the request goes on to the subscription or ends.
LEMMA TryWalletEffect ==
  ASSUME TypeOK, NEW r \in Requests, TryWallet(r)
  PROVE  /\ pc[r] = "tryWallet" /\ opt'[r] = opt[r]
         /\ \/ /\ pc'[r] = "preFunding" /\ sess'[r].funding = "wallet"
               /\ sess'[r].trusted \/ opt[r].quota = 0
            \/ /\ pc'[r] = "preToken" /\ sess'[r].funding = "wallet"
               /\ ~sess'[r].trusted
            \/ pc'[r] \in {"trySubscription", "rejected"} /\ SameSource(r)
         /\ pc'[r] = "trySubscription" => opt[r].pref = "wallet_first"
         /\ SameOutcome(r) /\ SameAmounts(r) /\ SameCharges(r)
<1> /\ opt[r] \in Profile /\ sess[r] \in Session
    /\ EffectiveQuota(r) \in Nat /\ ShouldTrust(r) \in BOOLEAN
    /\ sess[r].tokenConsumed \in Nat /\ sess[r].consumed \in Nat
    /\ sess[r].preConsumedQuota \in Nat /\ sess[r].actual \in Nat
    /\ sess[r].attempts \in Nat
  BY LocalTypes
<1>1. /\ pc[r] = "tryWallet"
      /\ \/ /\ sess'[r] = [sess[r] EXCEPT !.funding = "wallet", !.fallback = FALSE,
                                          !.trusted = ShouldTrust(r)]
            /\ \/ pc'[r] = "preFunding" /\ (ShouldTrust(r) \/ opt[r].quota = 0)
               \/ pc'[r] = "preToken" /\ ~ShouldTrust(r)
         \/ /\ pc'[r] \in {"trySubscription", "rejected"}
            /\ pc'[r] = "trySubscription" => opt[r].pref = "wallet_first"
            /\ sess'[r] = [sess[r] EXCEPT !.fallback = TRUE] \/ sess'[r] = sess[r]
      /\ wCharge'[r] = wCharge[r] /\ sCharge'[r] = sCharge[r] /\ tCharge'[r] = tCharge[r] /\ opt'[r] = opt[r]
  BY DEF TryWallet, NoAccount, NoFunding, NoToken, Goto, SetSession, TypeOK
<1>2. /\ pc[r] = "tryWallet" /\ opt'[r] = opt[r]
      /\ \/ /\ pc'[r] = "preFunding" /\ sess'[r].funding = "wallet"
            /\ sess'[r].trusted \/ opt[r].quota = 0
         \/ /\ pc'[r] = "preToken" /\ sess'[r].funding = "wallet"
            /\ ~sess'[r].trusted
         \/ pc'[r] \in {"trySubscription", "rejected"} /\ SameSource(r)
      /\ pc'[r] = "trySubscription" => opt[r].pref = "wallet_first"
      /\ SameOutcome(r) /\ SameAmounts(r)
  BY <1>1 DEF Session, SameOutcome, SameAmounts, SameSource, SameFunding
<1> QED
  BY <1>1, <1>2 DEF SameFunding, SameCharges

\* The subscription becomes the source, without the trust bypass.
LEMMA TrySubscriptionEffect ==
  ASSUME TypeOK, NEW r \in Requests, TrySubscription(r)
  PROVE  /\ pc[r] = "trySubscription" /\ pc'[r] = "preToken" /\ opt'[r] = opt[r]
         /\ sess'[r].funding = "subscription" /\ ~sess'[r].trusted
         /\ SameOutcome(r) /\ SameAmounts(r) /\ SameCharges(r)
<1> /\ opt[r] \in Profile /\ sess[r] \in Session
    /\ EffectiveQuota(r) \in Nat /\ ShouldTrust(r) \in BOOLEAN
    /\ sess[r].tokenConsumed \in Nat /\ sess[r].consumed \in Nat
    /\ sess[r].preConsumedQuota \in Nat /\ sess[r].actual \in Nat
    /\ sess[r].attempts \in Nat
  BY LocalTypes
<1>1. /\ pc[r] = "trySubscription" /\ pc'[r] = "preToken"
      /\ sess'[r] = [sess[r] EXCEPT !.funding = "subscription", !.fallback = FALSE,
                                    !.trusted = FALSE]
      /\ wCharge'[r] = wCharge[r] /\ sCharge'[r] = sCharge[r] /\ tCharge'[r] = tCharge[r] /\ opt'[r] = opt[r]
  BY DEF TrySubscription, NoAccount, NoFunding, NoToken, Goto, SetSession, TypeOK
<1>2. /\ sess'[r].funding = "subscription" /\ ~sess'[r].trusted
      /\ SameOutcome(r) /\ SameAmounts(r)
  BY <1>1 DEF Session, SameOutcome, SameAmounts, SameSource, SameFunding
<1> QED
  BY <1>1, <1>2 DEF SameFunding, SameCharges

\* Only a playground request skips the decrement.
LEMMA CheckTokenEffect ==
  ASSUME TypeOK, NEW r \in Requests, CheckToken(r)
  PROVE  /\ pc[r] = "preToken" /\ opt'[r] = opt[r]
         /\ \/ /\ pc'[r] = "preFunding" /\ opt[r].playground
               /\ sess'[r].tokenConsumed = EffectiveQuota(r)
            \/ pc'[r] \in {"decToken", "rejected"} /\ ~opt[r].playground /\ SameAmounts(r)
         /\ sess'[r].consumed = sess[r].consumed /\ sess'[r].preConsumedQuota = sess[r].preConsumedQuota
         /\ SameOutcome(r) /\ SameSource(r) /\ SameCharges(r)
<1> /\ opt[r] \in Profile /\ sess[r] \in Session
    /\ EffectiveQuota(r) \in Nat /\ ShouldTrust(r) \in BOOLEAN
    /\ sess[r].tokenConsumed \in Nat /\ sess[r].consumed \in Nat
    /\ sess[r].preConsumedQuota \in Nat /\ sess[r].actual \in Nat
    /\ sess[r].attempts \in Nat
  BY LocalTypes
<1>1. /\ pc[r] = "preToken"
      /\ \/ /\ pc'[r] = "preFunding" /\ opt[r].playground
            /\ sess'[r] = [sess[r] EXCEPT !.tokenConsumed = EffectiveQuota(r)]
         \/ pc'[r] \in {"decToken", "rejected"} /\ ~opt[r].playground /\ sess'[r] = sess[r]
      /\ wCharge'[r] = wCharge[r] /\ sCharge'[r] = sCharge[r] /\ tCharge'[r] = tCharge[r] /\ opt'[r] = opt[r]
  BY DEF CheckToken, NoAccount, NoFunding, NoToken, Goto, SetSession, TypeOK
<1>2. /\ pc[r] = "preToken" /\ opt'[r] = opt[r]
      /\ \/ /\ pc'[r] = "preFunding" /\ opt[r].playground
            /\ sess'[r].tokenConsumed = EffectiveQuota(r)
         \/ pc'[r] \in {"decToken", "rejected"} /\ ~opt[r].playground /\ SameAmounts(r)
      /\ sess'[r].consumed = sess[r].consumed /\ sess'[r].preConsumedQuota = sess[r].preConsumedQuota
      /\ SameOutcome(r) /\ SameSource(r)
  BY <1>1 DEF Session, SameOutcome, SameAmounts, SameSource, SameFunding
<1> QED
  BY <1>1, <1>2 DEF SameFunding, SameCharges

\* The token is charged what the session will hold.
LEMMA PreConsumeTokenQuotaEffect ==
  ASSUME TypeOK, NEW r \in Requests, PreConsumeTokenQuota(r)
  PROVE  /\ pc[r] = "decToken" /\ opt'[r] = opt[r]
         /\ \/ /\ pc'[r] = "preFunding"
               /\ sess'[r].tokenConsumed = EffectiveQuota(r)
               /\ tCharge'[r] = tCharge[r] + EffectiveQuota(r)
            \/ pc'[r] = "rejected" /\ SameAmounts(r) /\ tCharge'[r] = tCharge[r]
         /\ SameOutcome(r) /\ SameSource(r) /\ SameFunding(r)
<1> /\ opt[r] \in Profile /\ sess[r] \in Session
    /\ EffectiveQuota(r) \in Nat /\ ShouldTrust(r) \in BOOLEAN
    /\ sess[r].tokenConsumed \in Nat /\ sess[r].consumed \in Nat
    /\ sess[r].preConsumedQuota \in Nat /\ sess[r].actual \in Nat
    /\ sess[r].attempts \in Nat
  BY LocalTypes
<1>1. /\ pc[r] = "decToken" /\ opt'[r] = opt[r]
      /\ \/ /\ pc'[r] = "preFunding"
            /\ sess'[r] = [sess[r] EXCEPT !.tokenConsumed = EffectiveQuota(r)]
            /\ tCharge'[r] = tCharge[r] + EffectiveQuota(r)
         \/ pc'[r] = "rejected" /\ sess'[r] = sess[r] /\ tCharge'[r] = tCharge[r]
      /\ wCharge'[r] = wCharge[r] /\ sCharge'[r] = sCharge[r]
  BY DEF PreConsumeTokenQuota, DecreaseTokenQuota, NoFunding, NoToken, Goto, SetSession, TypeOK
<1>2. /\ pc[r] = "decToken" /\ opt'[r] = opt[r]
      /\ \/ /\ pc'[r] = "preFunding"
            /\ sess'[r].tokenConsumed = EffectiveQuota(r)
            /\ tCharge'[r] = tCharge[r] + EffectiveQuota(r)
         \/ pc'[r] = "rejected" /\ SameAmounts(r) /\ tCharge'[r] = tCharge[r]
      /\ SameOutcome(r) /\ SameSource(r)
  BY <1>1 DEF Session, SameOutcome, SameAmounts, SameSource, SameFunding
<1> QED
  BY <1>1, <1>2 DEF SameFunding, SameCharges

\* The session opens with its hold taken from the wallet, or nothing is taken.
LEMMA PreConsumeWalletEffect ==
  ASSUME TypeOK, NEW r \in Requests, PreConsumeWallet(r)
  PROVE  /\ pc[r] = "preFunding" /\ sess[r].funding = "wallet" /\ opt'[r] = opt[r]
         /\ \/ /\ pc'[r] = "open"
               /\ sess'[r].consumed = EffectiveQuota(r)
               /\ sess'[r].preConsumedQuota = EffectiveQuota(r)
               /\ wCharge'[r] = wCharge[r] + EffectiveQuota(r) /\ sCharge'[r] = sCharge[r]
            \/ pc'[r] = "rollbackToken" /\ SameAmounts(r) /\ SameFunding(r)
         /\ tCharge'[r] = tCharge[r]
         /\ sess'[r].tokenConsumed = sess[r].tokenConsumed /\ SameOutcome(r) /\ SameSource(r)
<1> /\ opt[r] \in Profile /\ sess[r] \in Session
    /\ EffectiveQuota(r) \in Nat /\ ShouldTrust(r) \in BOOLEAN
    /\ sess[r].tokenConsumed \in Nat /\ sess[r].consumed \in Nat
    /\ sess[r].preConsumedQuota \in Nat /\ sess[r].actual \in Nat
    /\ sess[r].attempts \in Nat
  BY LocalTypes
<1>1. /\ pc[r] = "preFunding" /\ sess[r].funding = "wallet" /\ opt'[r] = opt[r]
      /\ \/ /\ pc'[r] = "open"
            /\ sess'[r] = [sess[r] EXCEPT !.consumed = EffectiveQuota(r),
                                          !.preConsumedQuota = EffectiveQuota(r)]
            /\ wCharge'[r] = wCharge[r] + EffectiveQuota(r) /\ sCharge'[r] = sCharge[r]
         \/ /\ pc'[r] = "rollbackToken"
            /\ \E b \in BOOLEAN : sess'[r] = [sess[r] EXCEPT !.fallback = b]
            /\ wCharge'[r] = wCharge[r] /\ sCharge'[r] = sCharge[r]
      /\ tCharge'[r] = tCharge[r]
  BY DEF PreConsumeWallet, FundingTaken, FundingRefused, DecreaseUserQuota, NoFunding, NoToken, Goto, SetSession, TypeOK
<1>2. /\ pc[r] = "preFunding" /\ sess[r].funding = "wallet" /\ opt'[r] = opt[r]
      /\ \/ /\ pc'[r] = "open"
            /\ sess'[r].consumed = EffectiveQuota(r)
            /\ sess'[r].preConsumedQuota = EffectiveQuota(r)
            /\ wCharge'[r] = wCharge[r] + EffectiveQuota(r) /\ sCharge'[r] = sCharge[r]
         \/ pc'[r] = "rollbackToken" /\ SameAmounts(r) /\ SameFunding(r)
      /\ tCharge'[r] = tCharge[r]
      /\ sess'[r].tokenConsumed = sess[r].tokenConsumed /\ SameOutcome(r) /\ SameSource(r)
  BY <1>1 DEF Session, SameOutcome, SameAmounts, SameSource, SameFunding
<1> QED
  BY <1>1, <1>2 DEF SameFunding, SameCharges

\* The session opens with its hold taken from the subscription, or nothing is taken.
LEMMA PreConsumeUserSubscriptionEffect ==
  ASSUME TypeOK, NEW r \in Requests, PreConsumeUserSubscription(r)
  PROVE  /\ pc[r] = "preFunding" /\ sess[r].funding = "subscription" /\ opt'[r] = opt[r]
         /\ \/ /\ pc'[r] = "open"
               /\ sess'[r].consumed = EffectiveQuota(r)
               /\ sess'[r].preConsumedQuota = EffectiveQuota(r)
               /\ sCharge'[r] = sCharge[r] + EffectiveQuota(r) /\ wCharge'[r] = wCharge[r]
            \/ pc'[r] = "rollbackToken" /\ SameAmounts(r) /\ SameFunding(r)
         /\ tCharge'[r] = tCharge[r]
         /\ sess'[r].tokenConsumed = sess[r].tokenConsumed /\ SameOutcome(r) /\ SameSource(r)
<1> /\ opt[r] \in Profile /\ sess[r] \in Session
    /\ EffectiveQuota(r) \in Nat /\ ShouldTrust(r) \in BOOLEAN
    /\ sess[r].tokenConsumed \in Nat /\ sess[r].consumed \in Nat
    /\ sess[r].preConsumedQuota \in Nat /\ sess[r].actual \in Nat
    /\ sess[r].attempts \in Nat
  BY LocalTypes
<1>1. /\ pc[r] = "preFunding" /\ sess[r].funding = "subscription" /\ opt'[r] = opt[r]
      /\ \/ /\ pc'[r] = "open"
            /\ sess'[r] = [sess[r] EXCEPT !.consumed = EffectiveQuota(r),
                                          !.preConsumedQuota = EffectiveQuota(r)]
            /\ sCharge'[r] = sCharge[r] + EffectiveQuota(r) /\ wCharge'[r] = wCharge[r]
         \/ /\ pc'[r] = "rollbackToken"
            /\ \E b \in BOOLEAN : sess'[r] = [sess[r] EXCEPT !.fallback = b]
            /\ wCharge'[r] = wCharge[r] /\ sCharge'[r] = sCharge[r]
      /\ tCharge'[r] = tCharge[r]
  BY DEF PreConsumeUserSubscription, FundingTaken, FundingRefused, PostConsumeUserSubscriptionDelta, NoFunding, NoToken, Goto, SetSession, TypeOK
<1>2. /\ pc[r] = "preFunding" /\ sess[r].funding = "subscription" /\ opt'[r] = opt[r]
      /\ \/ /\ pc'[r] = "open"
            /\ sess'[r].consumed = EffectiveQuota(r)
            /\ sess'[r].preConsumedQuota = EffectiveQuota(r)
            /\ sCharge'[r] = sCharge[r] + EffectiveQuota(r) /\ wCharge'[r] = wCharge[r]
         \/ pc'[r] = "rollbackToken" /\ SameAmounts(r) /\ SameFunding(r)
      /\ tCharge'[r] = tCharge[r]
      /\ sess'[r].tokenConsumed = sess[r].tokenConsumed /\ SameOutcome(r) /\ SameSource(r)
  BY <1>1 DEF Session, SameOutcome, SameAmounts, SameSource, SameFunding
<1> QED
  BY <1>1, <1>2 DEF SameFunding, SameCharges

\* The token gets its quota back, unless the rollback fails.
LEMMA RollbackTokenEffect ==
  ASSUME TypeOK, NEW r \in Requests, RollbackToken(r)
  PROVE  /\ pc[r] = "rollbackToken" /\ opt'[r] = opt[r]
         /\ \/ pc'[r] = "rejected"
            \/ pc'[r] = "tryWallet" /\ opt[r].pref = "subscription_first"
         /\ \/ /\ tCharge'[r] = tCharge[r] - sess[r].tokenConsumed
               /\ ~opt[r].playground
            \/ tCharge'[r] = tCharge[r]
         /\ sess'[r].tokenConsumed = 0 /\ sess'[r].funding = sess[r].funding
         /\ SameOutcome(r) /\ SameFunding(r)
<1> /\ opt[r] \in Profile /\ sess[r] \in Session
    /\ EffectiveQuota(r) \in Nat /\ ShouldTrust(r) \in BOOLEAN
    /\ sess[r].tokenConsumed \in Nat /\ sess[r].consumed \in Nat
    /\ sess[r].preConsumedQuota \in Nat /\ sess[r].actual \in Nat
    /\ sess[r].attempts \in Nat
  BY LocalTypes
<1>1. /\ pc[r] = "rollbackToken" /\ opt'[r] = opt[r]
      /\ \/ pc'[r] = "rejected"
         \/ pc'[r] = "tryWallet" /\ opt[r].pref = "subscription_first"
      /\ \/ /\ tCharge'[r] = tCharge[r] - sess[r].tokenConsumed
            /\ ~opt[r].playground
         \/ tCharge'[r] = tCharge[r]
      /\ sess'[r] = [sess[r] EXCEPT !.tokenConsumed = 0, !.trusted = FALSE]
      /\ wCharge'[r] = wCharge[r] /\ sCharge'[r] = sCharge[r]
  BY DEF RollbackToken, NextSource, DecreaseTokenQuota, NoFunding, NoToken, Goto, SetSession, TypeOK
<1>2. sess'[r].tokenConsumed = 0 /\ sess'[r].funding = sess[r].funding /\ SameOutcome(r)
  BY <1>1 DEF Session, SameOutcome, SameAmounts, SameSource, SameFunding
<1> QED
  BY <1>1, <1>2 DEF SameFunding, SameCharges

\* The source is moved from the hold to the actual quota, or left alone.
LEMMA SettleEffect ==
  ASSUME TypeOK, NEW r \in Requests, NEW a \in Nat, Settle(r, a)
  PROVE  /\ pc[r] = "open" /\ opt'[r] = opt[r]
         /\ \/ /\ pc'[r] = "settled" /\ a = sess[r].preConsumedQuota
               /\ sess'[r].settled /\ sess'[r].actual = a
               /\ sess'[r].fundingSettled = sess[r].fundingSettled /\ SameFunding(r)
            \/ /\ pc'[r] = "settleToken"
               /\ sess'[r].fundingSettled /\ sess'[r].actual = a
               /\ sess'[r].settled = sess[r].settled
               /\ \/ /\ sess[r].funding = "wallet" /\ sCharge'[r] = sCharge[r]
                     /\ wCharge'[r] = wCharge[r] + (a - sess[r].preConsumedQuota)
                  \/ /\ sess[r].funding = "subscription" /\ wCharge'[r] = wCharge[r]
                     /\ sCharge'[r] = sCharge[r] + (a - sess[r].preConsumedQuota)
            \/ /\ pc'[r] = "unsettled"
               /\ sess'[r].settled = sess[r].settled /\ sess'[r].fundingSettled = sess[r].fundingSettled
               /\ SameFunding(r)
         /\ tCharge'[r] = tCharge[r]
         /\ sess'[r].refunded = sess[r].refunded /\ SameAmounts(r) /\ SameSource(r)
<1> /\ opt[r] \in Profile /\ sess[r] \in Session
    /\ EffectiveQuota(r) \in Nat /\ ShouldTrust(r) \in BOOLEAN
    /\ sess[r].tokenConsumed \in Nat /\ sess[r].consumed \in Nat
    /\ sess[r].preConsumedQuota \in Nat /\ sess[r].actual \in Nat
    /\ sess[r].attempts \in Nat
  BY LocalTypes
<1>1. /\ pc[r] = "open" /\ opt'[r] = opt[r]
      /\ \/ /\ pc'[r] = "settled" /\ a = sess[r].preConsumedQuota
            /\ sess'[r] = [sess[r] EXCEPT !.actual = a, !.settled = TRUE]
            /\ wCharge'[r] = wCharge[r] /\ sCharge'[r] = sCharge[r]
         \/ /\ pc'[r] = "settleToken"
            /\ sess'[r] = [sess[r] EXCEPT !.actual = a, !.fundingSettled = TRUE]
            /\ \/ /\ sess[r].funding = "wallet" /\ sCharge'[r] = sCharge[r]
                  /\ wCharge'[r] = wCharge[r] + (a - sess[r].preConsumedQuota)
               \/ /\ sess[r].funding = "subscription" /\ wCharge'[r] = wCharge[r]
                  /\ sCharge'[r] = sCharge[r] + (a - sess[r].preConsumedQuota)
         \/ /\ pc'[r] = "unsettled" /\ sess'[r] = sess[r]
            /\ wCharge'[r] = wCharge[r] /\ sCharge'[r] = sCharge[r]
      /\ tCharge'[r] = tCharge[r]
  BY DEF Settle, DecreaseUserQuota, PostConsumeUserSubscriptionDelta, NoFunding, NoToken, Goto, SetSession, TypeOK
<1>2. /\ pc[r] = "open" /\ opt'[r] = opt[r]
      /\ \/ /\ pc'[r] = "settled" /\ a = sess[r].preConsumedQuota
            /\ sess'[r].settled /\ sess'[r].actual = a
            /\ sess'[r].fundingSettled = sess[r].fundingSettled /\ SameFunding(r)
         \/ /\ pc'[r] = "settleToken"
            /\ sess'[r].fundingSettled /\ sess'[r].actual = a
            /\ sess'[r].settled = sess[r].settled
            /\ \/ /\ sess[r].funding = "wallet" /\ sCharge'[r] = sCharge[r]
                  /\ wCharge'[r] = wCharge[r] + (a - sess[r].preConsumedQuota)
               \/ /\ sess[r].funding = "subscription" /\ wCharge'[r] = wCharge[r]
                  /\ sCharge'[r] = sCharge[r] + (a - sess[r].preConsumedQuota)
         \/ /\ pc'[r] = "unsettled"
            /\ sess'[r].settled = sess[r].settled /\ sess'[r].fundingSettled = sess[r].fundingSettled
            /\ SameFunding(r)
      /\ tCharge'[r] = tCharge[r]
      /\ sess'[r].refunded = sess[r].refunded /\ SameAmounts(r) /\ SameSource(r)
  BY <1>1 DEF Session, SameOutcome, SameAmounts, SameSource, SameFunding
<1> QED
  BY <1>1, <1>2 DEF SameFunding, SameCharges

\* The token follows, unless its update fails.
LEMMA SettleTokenEffect ==
  ASSUME TypeOK, NEW r \in Requests, SettleToken(r)
  PROVE  /\ pc[r] = "settleToken" /\ pc'[r] = "settled" /\ opt'[r] = opt[r]
         /\ \/ /\ tCharge'[r] = tCharge[r] + (sess[r].actual - sess[r].preConsumedQuota)
               /\ ~opt[r].playground
            \/ tCharge'[r] = tCharge[r]
         /\ sess'[r].settled /\ sess'[r].fundingSettled = sess[r].fundingSettled
         /\ sess'[r].refunded = sess[r].refunded /\ sess'[r].actual = sess[r].actual
         /\ SameAmounts(r) /\ SameSource(r) /\ SameFunding(r)
<1> /\ opt[r] \in Profile /\ sess[r] \in Session
    /\ EffectiveQuota(r) \in Nat /\ ShouldTrust(r) \in BOOLEAN
    /\ sess[r].tokenConsumed \in Nat /\ sess[r].consumed \in Nat
    /\ sess[r].preConsumedQuota \in Nat /\ sess[r].actual \in Nat
    /\ sess[r].attempts \in Nat
  BY LocalTypes
<1>1. /\ pc[r] = "settleToken" /\ pc'[r] = "settled" /\ opt'[r] = opt[r]
      /\ \/ /\ tCharge'[r] = tCharge[r] + (sess[r].actual - sess[r].preConsumedQuota)
            /\ ~opt[r].playground
         \/ tCharge'[r] = tCharge[r]
      /\ sess'[r] = [sess[r] EXCEPT !.settled = TRUE]
      /\ wCharge'[r] = wCharge[r] /\ sCharge'[r] = sCharge[r]
  BY DEF SettleToken, DecreaseTokenQuota, NoFunding, NoToken, Goto, SetSession, TypeOK
<1>2. /\ sess'[r].settled /\ sess'[r].fundingSettled = sess[r].fundingSettled
      /\ sess'[r].refunded = sess[r].refunded /\ sess'[r].actual = sess[r].actual
      /\ SameAmounts(r) /\ SameSource(r)
  BY <1>1 DEF Session, SameOutcome, SameAmounts, SameSource, SameFunding
<1> QED
  BY <1>1, <1>2 DEF SameFunding, SameCharges

\* A refund starts exactly when something is held.
LEMMA RefundEffect ==
  ASSUME TypeOK, NEW r \in Requests, Refund(r)
  PROVE  /\ pc[r] = "open" /\ opt'[r] = opt[r]
         /\ \/ pc'[r] = "refundFunding" /\ sess'[r].refunded /\ NeedsRefund(r)
            \/ /\ pc'[r] = "closed" /\ sess'[r].refunded = sess[r].refunded
               /\ ~NeedsRefund(r)
         /\ sess'[r].settled = sess[r].settled /\ sess'[r].fundingSettled = sess[r].fundingSettled
         /\ sess'[r].actual = sess[r].actual /\ SameAmounts(r) /\ SameSource(r) /\ SameCharges(r)
<1> /\ opt[r] \in Profile /\ sess[r] \in Session
    /\ EffectiveQuota(r) \in Nat /\ ShouldTrust(r) \in BOOLEAN
    /\ sess[r].tokenConsumed \in Nat /\ sess[r].consumed \in Nat
    /\ sess[r].preConsumedQuota \in Nat /\ sess[r].actual \in Nat
    /\ sess[r].attempts \in Nat
  BY LocalTypes
<1>1. /\ pc[r] = "open"
      /\ \/ /\ pc'[r] = "refundFunding" /\ sess'[r] = [sess[r] EXCEPT !.refunded = TRUE]
            /\ NeedsRefund(r)
         \/ pc'[r] = "closed" /\ sess'[r] = sess[r] /\ ~NeedsRefund(r)
      /\ wCharge'[r] = wCharge[r] /\ sCharge'[r] = sCharge[r] /\ tCharge'[r] = tCharge[r] /\ opt'[r] = opt[r]
  BY DEF Refund, NoAccount, NoFunding, NoToken, Goto, SetSession, TypeOK
<1>2. /\ pc[r] = "open" /\ opt'[r] = opt[r]
      /\ \/ pc'[r] = "refundFunding" /\ sess'[r].refunded /\ NeedsRefund(r)
         \/ /\ pc'[r] = "closed" /\ sess'[r].refunded = sess[r].refunded
            /\ ~NeedsRefund(r)
      /\ sess'[r].settled = sess[r].settled /\ sess'[r].fundingSettled = sess[r].fundingSettled
      /\ sess'[r].actual = sess[r].actual /\ SameAmounts(r) /\ SameSource(r)
  BY <1>1 DEF Session, SameOutcome, SameAmounts, SameSource, SameFunding
<1> QED
  BY <1>1, <1>2 DEF SameFunding, SameCharges

\* The wallet gets the hold back, once, or not at all.
LEMMA RefundWalletEffect ==
  ASSUME TypeOK, NEW r \in Requests, RefundWallet(r)
  PROVE  /\ pc[r] = "refundFunding" /\ sess[r].funding = "wallet"
         /\ pc'[r] = "refundToken" /\ opt'[r] = opt[r] /\ sess'[r] = sess[r]
         /\ wCharge'[r] = wCharge[r] - sess[r].consumed \/ wCharge'[r] = wCharge[r]
         /\ sCharge'[r] = sCharge[r] /\ tCharge'[r] = tCharge[r]
         /\ SameOutcome(r) /\ SameAmounts(r) /\ SameSource(r)
<1> /\ opt[r] \in Profile /\ sess[r] \in Session
    /\ EffectiveQuota(r) \in Nat /\ ShouldTrust(r) \in BOOLEAN
    /\ sess[r].tokenConsumed \in Nat /\ sess[r].consumed \in Nat
    /\ sess[r].preConsumedQuota \in Nat /\ sess[r].actual \in Nat
    /\ sess[r].attempts \in Nat
  BY LocalTypes
<1>1. /\ pc[r] = "refundFunding" /\ sess[r].funding = "wallet"
      /\ pc'[r] = "refundToken" /\ opt'[r] = opt[r] /\ sess'[r] = sess[r]
      /\ wCharge'[r] = wCharge[r] - sess[r].consumed \/ wCharge'[r] = wCharge[r]
      /\ sCharge'[r] = sCharge[r] /\ tCharge'[r] = tCharge[r]
  BY DEF RefundWallet, DecreaseUserQuota, NoFunding, NoToken, Goto, SetSession, TypeOK
<1>2. SameOutcome(r) /\ SameAmounts(r) /\ SameSource(r)
  BY <1>1 DEF Session, SameOutcome, SameAmounts, SameSource, SameFunding
<1> QED
  BY <1>1, <1>2 DEF SameFunding, SameCharges

\* An attempt credits the subscription, or fails without a trace.
LEMMA RefundSubscriptionEffect ==
  ASSUME TypeOK, NEW r \in Requests, RefundSubscription(r)
  PROVE  /\ pc[r] = "refundFunding" /\ sess[r].funding = "subscription" /\ opt'[r] = opt[r]
         /\ \/ /\ pc'[r] = "refundMark"
               /\ sCharge'[r] = sCharge[r] - sess[r].consumed
            \/ /\ pc'[r] \in {"refundFunding", "refundToken"}
               /\ sCharge'[r] = sCharge[r]
         /\ wCharge'[r] = wCharge[r] /\ tCharge'[r] = tCharge[r]
         /\ SameOutcome(r) /\ SameAmounts(r) /\ SameSource(r)
<1> /\ opt[r] \in Profile /\ sess[r] \in Session
    /\ EffectiveQuota(r) \in Nat /\ ShouldTrust(r) \in BOOLEAN
    /\ sess[r].tokenConsumed \in Nat /\ sess[r].consumed \in Nat
    /\ sess[r].preConsumedQuota \in Nat /\ sess[r].actual \in Nat
    /\ sess[r].attempts \in Nat
  BY LocalTypes
<1>1. /\ pc[r] = "refundFunding" /\ sess[r].funding = "subscription" /\ opt'[r] = opt[r]
      /\ \/ /\ pc'[r] = "refundMark"
            /\ sCharge'[r] = sCharge[r] - sess[r].consumed
         \/ /\ pc'[r] \in {"refundFunding", "refundToken"}
            /\ sCharge'[r] = sCharge[r]
      /\ wCharge'[r] = wCharge[r] /\ tCharge'[r] = tCharge[r]
      /\ sess'[r] = sess[r] \/ sess'[r] = [sess[r] EXCEPT !.attempts = @ + 1]
  BY DEF RefundSubscription, NextAttempt, PostConsumeUserSubscriptionDelta, NoFunding, NoToken, Goto, SetSession, TypeOK
<1>2. SameOutcome(r) /\ SameAmounts(r) /\ SameSource(r)
  BY <1>1 DEF Session, SameOutcome, SameAmounts, SameSource, SameFunding
<1> QED
  BY <1>1, <1>2 DEF SameFunding, SameCharges

\* Only a lost record sends the refund back to another attempt.
LEMMA MarkRefundedEffect ==
  ASSUME TypeOK, NEW r \in Requests, MarkRefunded(r)
  PROVE  /\ pc[r] = "refundMark" /\ opt'[r] = opt[r]
         /\ \/ pc'[r] = "refundToken"
            \/ pc'[r] = "refundFunding" /\ "record" \in Faults
         /\ SameOutcome(r) /\ SameAmounts(r) /\ SameSource(r) /\ SameCharges(r)
<1> /\ opt[r] \in Profile /\ sess[r] \in Session
    /\ EffectiveQuota(r) \in Nat /\ ShouldTrust(r) \in BOOLEAN
    /\ sess[r].tokenConsumed \in Nat /\ sess[r].consumed \in Nat
    /\ sess[r].preConsumedQuota \in Nat /\ sess[r].actual \in Nat
    /\ sess[r].attempts \in Nat
  BY LocalTypes
<1>1. /\ pc[r] = "refundMark" /\ opt'[r] = opt[r]
      /\ \/ pc'[r] = "refundToken"
         \/ pc'[r] = "refundFunding" /\ "record" \in Faults
      /\ sess'[r] = sess[r] \/ sess'[r] = [sess[r] EXCEPT !.attempts = @ + 1]
      /\ wCharge'[r] = wCharge[r] /\ sCharge'[r] = sCharge[r] /\ tCharge'[r] = tCharge[r] /\ opt'[r] = opt[r]
  BY DEF MarkRefunded, NextAttempt, NoAccount, NoFunding, NoToken, Goto, SetSession, TypeOK
<1>2. SameOutcome(r) /\ SameAmounts(r) /\ SameSource(r)
  BY <1>1 DEF Session, SameOutcome, SameAmounts, SameSource, SameFunding
<1> QED
  BY <1>1, <1>2 DEF SameFunding, SameCharges

\* The token gets its quota back, unless its update fails.
LEMMA RefundTokenEffect ==
  ASSUME TypeOK, NEW r \in Requests, RefundToken(r)
  PROVE  /\ pc[r] = "refundToken" /\ pc'[r] = "closed" /\ opt'[r] = opt[r] /\ sess'[r] = sess[r]
         /\ \/ tCharge'[r] = tCharge[r] - sess[r].tokenConsumed /\ ~opt[r].playground
            \/ tCharge'[r] = tCharge[r]
         /\ SameOutcome(r) /\ SameAmounts(r) /\ SameSource(r) /\ SameFunding(r)
<1> /\ opt[r] \in Profile /\ sess[r] \in Session
    /\ EffectiveQuota(r) \in Nat /\ ShouldTrust(r) \in BOOLEAN
    /\ sess[r].tokenConsumed \in Nat /\ sess[r].consumed \in Nat
    /\ sess[r].preConsumedQuota \in Nat /\ sess[r].actual \in Nat
    /\ sess[r].attempts \in Nat
  BY LocalTypes
<1>1. /\ pc[r] = "refundToken" /\ pc'[r] = "closed" /\ opt'[r] = opt[r] /\ sess'[r] = sess[r]
      /\ \/ tCharge'[r] = tCharge[r] - sess[r].tokenConsumed /\ ~opt[r].playground
         \/ tCharge'[r] = tCharge[r]
      /\ wCharge'[r] = wCharge[r] /\ sCharge'[r] = sCharge[r]
  BY DEF RefundToken, DecreaseTokenQuota, NoFunding, NoToken, Goto, SetSession, TypeOK
<1>2. SameOutcome(r) /\ SameAmounts(r) /\ SameSource(r)
  BY <1>1 DEF Session, SameOutcome, SameAmounts, SameSource, SameFunding
<1> QED
  BY <1>1, <1>2 DEF SameFunding, SameCharges

-----------------------------------------------------------------------------
(* The inductive invariants                                                   *)

\* The funding invariant is inductive.
LEMMA FundingStep ==
  ASSUME TypeOK, FundingInv, [Next]_vars
  PROVE  FundingInv'
<1>1. ASSUME NEW r \in Requests, Step(r)
      PROVE  FundingInvAt(r)'
  <2> /\ EffectiveQuota(r) \in Nat
      /\ sess[r].tokenConsumed \in Nat /\ sess[r].consumed \in Nat
      /\ sess[r].preConsumedQuota \in Nat /\ sess[r].actual \in Nat
      /\ sess[r].funding \in {"none", "wallet", "subscription"}
      /\ wCharge[r] \in Int /\ sCharge[r] \in Int /\ tCharge[r] \in Int
    BY LocalTypes DEF TypeOK, Session
  <2> FundingInvAt(r)
    BY DEF FundingInv
  <2> USE DEF FundingInvAt, NotOpened, Refunding, FundingCharge, SameOutcome, SameAmounts, SameSource,
        SameFunding, SameCharges
  <2>1. CASE NewBillingSession(r)
    BY <2>1, NewBillingSessionEffect
  <2>2. CASE TryWallet(r)
    BY <2>2, TryWalletEffect
  <2>3. CASE TrySubscription(r)
    BY <2>3, TrySubscriptionEffect
  <2>4. CASE CheckToken(r)
    BY <2>4, CheckTokenEffect
  <2>5. CASE PreConsumeTokenQuota(r)
    BY <2>5, PreConsumeTokenQuotaEffect
  <2>6. CASE PreConsumeWallet(r)
    BY <2>6, PreConsumeWalletEffect
  <2>7. CASE PreConsumeUserSubscription(r)
    BY <2>7, PreConsumeUserSubscriptionEffect
  <2>8. CASE RollbackToken(r)
    BY <2>8, RollbackTokenEffect
  <2>9. ASSUME NEW a \in Quotas, Settle(r, a)
        PROVE  FundingInvAt(r)'
    <3>1. a \in Nat
      BY QuotasAssumption
    <3> QED
      BY <2>9, <3>1, SettleEffect
  <2>10. CASE SettleToken(r)
    BY <2>10, SettleTokenEffect
  <2>11. CASE Refund(r)
    BY <2>11, RefundEffect
  <2>12. CASE RefundWallet(r)
    BY <2>12, RefundWalletEffect
  <2>13. CASE RefundSubscription(r)
    BY <2>13, RefundSubscriptionEffect
  <2>14. CASE MarkRefunded(r)
    BY <2>14, MarkRefundedEffect
  <2>15. CASE RefundToken(r)
    BY <2>15, RefundTokenEffect
  <2> QED
    BY <1>1, <2>1, <2>2, <2>3, <2>4, <2>5, <2>6, <2>7, <2>8,
       <2>9, <2>10, <2>11, <2>12, <2>13, <2>14, <2>15 DEF Step, PreConsume, Finish
<1>2. ASSUME NEW r \in Requests, Step(r), NEW x \in Requests, x # r
      PROVE  FundingInvAt(x)'
  BY <1>2, OtherRequests DEF FundingInv, FundingInvAt, FundingCharge, EffectiveQuota
<1>3. CASE \E r \in Requests : Step(r)
  BY <1>1, <1>2, <1>3 DEF FundingInv
<1>4. CASE ResetSubscription \/ ExpireSubscription
  BY <1>4 DEF ResetSubscription, ExpireSubscription, charges, FundingInv, FundingInvAt, FundingCharge, EffectiveQuota
<1>5. CASE Crash
  <2>1. ASSUME NEW r \in Requests
        PROVE  /\ pc'[r] = pc[r] \/ pc'[r] = "crashed"
               /\ sess'[r] = sess[r] /\ opt'[r] = opt[r]
               /\ wCharge'[r] = wCharge[r] /\ sCharge'[r] = sCharge[r] /\ tCharge'[r] = tCharge[r]
    BY <1>5 DEF Crash, charges, accounts, TypeOK
  <2>2. ASSUME NEW r \in Requests
        PROVE  FundingInvAt(r)'
    BY <2>1 DEF FundingInv, FundingInvAt, NotOpened, Refunding, FundingCharge, EffectiveQuota
  <2> QED
    BY <2>2 DEF FundingInv
<1>6. CASE Finished \/ UNCHANGED vars
  BY <1>6 DEF Finished, vars, FundingInv, FundingInvAt, FundingCharge, EffectiveQuota
<1> QED
  BY <1>3, <1>4, <1>5, <1>6 DEF Next

\* The token invariant is inductive.
LEMMA TokenStep ==
  ASSUME TypeOK, TokenInv, [Next]_vars
  PROVE  TokenInv'
<1>1. ASSUME NEW r \in Requests, Step(r)
      PROVE  TokenInvAt(r)'
  <2> /\ EffectiveQuota(r) \in Nat
      /\ sess[r].tokenConsumed \in Nat /\ sess[r].consumed \in Nat
      /\ sess[r].preConsumedQuota \in Nat /\ sess[r].actual \in Nat
      /\ sess[r].funding \in {"none", "wallet", "subscription"}
      /\ wCharge[r] \in Int /\ sCharge[r] \in Int /\ tCharge[r] \in Int
    BY LocalTypes DEF TypeOK, Session
  <2> TokenInvAt(r)
    BY DEF TokenInv
  <2> USE DEF TokenInvAt, NotOpened, Refunding, FundingCharge, SameOutcome, SameAmounts, SameSource,
        SameFunding, SameCharges
  <2>1. CASE NewBillingSession(r)
    BY <2>1, NewBillingSessionEffect
  <2>2. CASE TryWallet(r)
    BY <2>2, TryWalletEffect DEF EffectiveQuota
  <2>3. CASE TrySubscription(r)
    BY <2>3, TrySubscriptionEffect
  <2>4. CASE CheckToken(r)
    <3>1. EffectiveQuota(r)' = EffectiveQuota(r)
      BY <2>4, CheckTokenEffect DEF EffectiveQuota
    <3> QED
      BY <2>4, <3>1, CheckTokenEffect
  <2>5. CASE PreConsumeTokenQuota(r)
    <3>1. EffectiveQuota(r)' = EffectiveQuota(r)
      BY <2>5, PreConsumeTokenQuotaEffect DEF EffectiveQuota
    <3> QED
      BY <2>5, <3>1, PreConsumeTokenQuotaEffect
  <2>6. CASE PreConsumeWallet(r)
    BY <2>6, PreConsumeWalletEffect
  <2>7. CASE PreConsumeUserSubscription(r)
    BY <2>7, PreConsumeUserSubscriptionEffect
  <2>8. CASE RollbackToken(r)
    BY <2>8, RollbackTokenEffect
  <2>9. ASSUME NEW a \in Quotas, Settle(r, a)
        PROVE  TokenInvAt(r)'
    <3>1. a \in Nat
      BY QuotasAssumption
    <3> QED
      BY <2>9, <3>1, SettleEffect
  <2>10. CASE SettleToken(r)
    BY <2>10, SettleTokenEffect
  <2>11. CASE Refund(r)
    BY <2>11, RefundEffect
  <2>12. CASE RefundWallet(r)
    BY <2>12, RefundWalletEffect
  <2>13. CASE RefundSubscription(r)
    BY <2>13, RefundSubscriptionEffect
  <2>14. CASE MarkRefunded(r)
    BY <2>14, MarkRefundedEffect
  <2>15. CASE RefundToken(r)
    BY <2>15, RefundTokenEffect
  <2> QED
    BY <1>1, <2>1, <2>2, <2>3, <2>4, <2>5, <2>6, <2>7, <2>8,
       <2>9, <2>10, <2>11, <2>12, <2>13, <2>14, <2>15 DEF Step, PreConsume, Finish
<1>2. ASSUME NEW r \in Requests, Step(r), NEW x \in Requests, x # r
      PROVE  TokenInvAt(x)'
  BY <1>2, OtherRequests DEF TokenInv, TokenInvAt, FundingCharge, EffectiveQuota
<1>3. CASE \E r \in Requests : Step(r)
  BY <1>1, <1>2, <1>3 DEF TokenInv
<1>4. CASE ResetSubscription \/ ExpireSubscription
  BY <1>4 DEF ResetSubscription, ExpireSubscription, charges, TokenInv, TokenInvAt, FundingCharge, EffectiveQuota
<1>5. CASE Crash
  <2>1. ASSUME NEW r \in Requests
        PROVE  /\ pc'[r] = pc[r] \/ pc'[r] = "crashed"
               /\ sess'[r] = sess[r] /\ opt'[r] = opt[r]
               /\ wCharge'[r] = wCharge[r] /\ sCharge'[r] = sCharge[r] /\ tCharge'[r] = tCharge[r]
    BY <1>5 DEF Crash, charges, accounts, TypeOK
  <2>2. ASSUME NEW r \in Requests
        PROVE  TokenInvAt(r)'
    BY <2>1 DEF TokenInv, TokenInvAt, NotOpened, Refunding, FundingCharge, EffectiveQuota
  <2> QED
    BY <2>2 DEF TokenInv
<1>6. CASE Finished \/ UNCHANGED vars
  BY <1>6 DEF Finished, vars, TokenInv, TokenInvAt, FundingCharge, EffectiveQuota
<1> QED
  BY <1>3, <1>4, <1>5, <1>6 DEF Next

\* The refund invariant is inductive relative to the other two.
LEMMA RefundStep ==
  ASSUME TypeOK, FundingInv, TokenInv, RefundInv,
         "record" \notin Faults, [Next]_vars
  PROVE  RefundInv'
<1>1. ASSUME NEW r \in Requests, Step(r)
      PROVE  RefundInvAt(r)'
  <2> /\ EffectiveQuota(r) \in Nat
      /\ sess[r].tokenConsumed \in Nat /\ sess[r].consumed \in Nat
      /\ sess[r].preConsumedQuota \in Nat /\ sess[r].actual \in Nat
      /\ sess[r].funding \in {"none", "wallet", "subscription"}
      /\ wCharge[r] \in Int /\ sCharge[r] \in Int /\ tCharge[r] \in Int
    BY LocalTypes DEF TypeOK, Session
  <2> FundingInvAt(r) /\ TokenInvAt(r) /\ RefundInvAt(r)
    BY DEF FundingInv, TokenInv, RefundInv
  <2> USE DEF FundingInvAt, TokenInvAt, RefundInvAt, NotOpened, Refunding, FundingCharge, SameOutcome, SameAmounts, SameSource,
        SameFunding, SameCharges
  <2>1. CASE NewBillingSession(r)
    BY <2>1, NewBillingSessionEffect
  <2>2. CASE TryWallet(r)
    BY <2>2, TryWalletEffect
  <2>3. CASE TrySubscription(r)
    BY <2>3, TrySubscriptionEffect
  <2>4. CASE CheckToken(r)
    BY <2>4, CheckTokenEffect
  <2>5. CASE PreConsumeTokenQuota(r)
    BY <2>5, PreConsumeTokenQuotaEffect
  <2>6. CASE PreConsumeWallet(r)
    BY <2>6, PreConsumeWalletEffect
  <2>7. CASE PreConsumeUserSubscription(r)
    BY <2>7, PreConsumeUserSubscriptionEffect
  <2>8. CASE RollbackToken(r)
    BY <2>8, RollbackTokenEffect
  <2>9. ASSUME NEW a \in Quotas, Settle(r, a)
        PROVE  RefundInvAt(r)'
    <3>1. a \in Nat
      BY QuotasAssumption
    <3> QED
      BY <2>9, <3>1, SettleEffect
  <2>10. CASE SettleToken(r)
    BY <2>10, SettleTokenEffect
  <2>11. CASE Refund(r)
    BY <2>11, RefundEffect DEF NeedsRefund
  <2>12. CASE RefundWallet(r)
    BY <2>12, RefundWalletEffect
  <2>13. CASE RefundSubscription(r)
    BY <2>13, RefundSubscriptionEffect
  <2>14. CASE MarkRefunded(r)
    BY <2>14, MarkRefundedEffect
  <2>15. CASE RefundToken(r)
    BY <2>15, RefundTokenEffect
  <2> QED
    BY <1>1, <2>1, <2>2, <2>3, <2>4, <2>5, <2>6, <2>7, <2>8,
       <2>9, <2>10, <2>11, <2>12, <2>13, <2>14, <2>15 DEF Step, PreConsume, Finish
<1>2. ASSUME NEW r \in Requests, Step(r), NEW x \in Requests, x # r
      PROVE  RefundInvAt(x)'
  BY <1>2, OtherRequests DEF RefundInv, RefundInvAt, FundingCharge, EffectiveQuota
<1>3. CASE \E r \in Requests : Step(r)
  BY <1>1, <1>2, <1>3 DEF RefundInv
<1>4. CASE ResetSubscription \/ ExpireSubscription
  BY <1>4 DEF ResetSubscription, ExpireSubscription, charges, RefundInv, RefundInvAt, FundingCharge, EffectiveQuota
<1>5. CASE Crash
  <2>1. ASSUME NEW r \in Requests
        PROVE  /\ pc'[r] = pc[r] \/ pc'[r] = "crashed"
               /\ sess'[r] = sess[r] /\ opt'[r] = opt[r]
               /\ wCharge'[r] = wCharge[r] /\ sCharge'[r] = sCharge[r] /\ tCharge'[r] = tCharge[r]
    BY <1>5 DEF Crash, charges, accounts, TypeOK
  <2>2. ASSUME NEW r \in Requests
        PROVE  RefundInvAt(r)'
    BY <2>1 DEF RefundInv, RefundInvAt, NotOpened, Refunding, FundingCharge, EffectiveQuota
  <2> QED
    BY <2>2 DEF RefundInv
<1>6. CASE Finished \/ UNCHANGED vars
  BY <1>6 DEF Finished, vars, RefundInv, RefundInvAt, FundingCharge, EffectiveQuota
<1> QED
  BY <1>3, <1>4, <1>5, <1>6 DEF Next

\* What the updates that may fail do when none fails.
LEMMA FaultlessEffect ==
  ASSUME TypeOK, Faults = {}, NEW r \in Requests
  PROVE  /\ PreConsumeTokenQuota(r) => pc'[r] = "preFunding"
         /\ RollbackToken(r) =>
              tCharge'[r] = IF opt[r].playground THEN tCharge[r]
                            ELSE tCharge[r] - sess[r].tokenConsumed
         /\ SettleToken(r) =>
              tCharge'[r] = IF opt[r].playground THEN tCharge[r]
                            ELSE tCharge[r] + (sess[r].actual - sess[r].preConsumedQuota)
         /\ RefundWallet(r) => wCharge'[r] = wCharge[r] - sess[r].consumed
         /\ RefundSubscription(r) => pc'[r] = "refundMark"
         /\ RefundToken(r) =>
              tCharge'[r] = IF opt[r].playground THEN tCharge[r]
                            ELSE tCharge[r] - sess[r].tokenConsumed
<1> /\ sess[r].tokenConsumed \in Nat /\ tCharge[r] \in Int /\ wCharge[r] \in Int
    /\ sess[r].consumed \in Nat /\ sess[r].actual \in Nat /\ sess[r].preConsumedQuota \in Nat
  BY LocalTypes DEF TypeOK
<1> USE DEF TypeOK, Goto, NoToken, DecreaseTokenQuota
<1>1. PreConsumeTokenQuota(r) => pc'[r] = "preFunding"
  BY DEF PreConsumeTokenQuota
<1>2. RollbackToken(r) =>
        tCharge'[r] = IF opt[r].playground THEN tCharge[r]
                      ELSE tCharge[r] - sess[r].tokenConsumed
  BY DEF RollbackToken
<1>3. SettleToken(r) =>
        tCharge'[r] = IF opt[r].playground THEN tCharge[r]
                      ELSE tCharge[r] + (sess[r].actual - sess[r].preConsumedQuota)
  BY DEF SettleToken
<1>4. RefundWallet(r) => wCharge'[r] = wCharge[r] - sess[r].consumed
  BY DEF RefundWallet, DecreaseUserQuota
<1>5. RefundSubscription(r) => pc'[r] = "refundMark"
  BY DEF RefundSubscription
<1>6. RefundToken(r) =>
        tCharge'[r] = IF opt[r].playground THEN tCharge[r]
                      ELSE tCharge[r] - sess[r].tokenConsumed
  BY DEF RefundToken
<1> QED
  BY <1>1, <1>2, <1>3, <1>4, <1>5, <1>6

\* When nothing fails every step accounts for the token to the last unit.
LEMMA FaultlessStep ==
  ASSUME TypeOK, FundingInv, TokenInv, RefundInv, FaultlessInv,
         Faults = {}, [Next]_vars
  PROVE  FaultlessInv'
<1>1. ASSUME NEW r \in Requests, Step(r)
      PROVE  FaultlessInvAt(r)'
  <2> /\ EffectiveQuota(r) \in Nat
      /\ sess[r].tokenConsumed \in Nat /\ sess[r].consumed \in Nat
      /\ sess[r].preConsumedQuota \in Nat /\ sess[r].actual \in Nat
      /\ sess[r].funding \in {"none", "wallet", "subscription"}
      /\ wCharge[r] \in Int /\ sCharge[r] \in Int /\ tCharge[r] \in Int
    BY LocalTypes DEF TypeOK, Session
  <2> FundingInvAt(r) /\ TokenInvAt(r) /\ RefundInvAt(r) /\ FaultlessInvAt(r)
    BY DEF FundingInv, TokenInv, RefundInv, FaultlessInv
  <2> USE DEF FundingInvAt, TokenInvAt, RefundInvAt, FaultlessInvAt, BeforeToken, NotOpened,
        Refunding, FundingCharge, SameOutcome, SameAmounts, SameSource,
        SameFunding, SameCharges
  <2>1. CASE NewBillingSession(r)
    BY <2>1, NewBillingSessionEffect
  <2>2. CASE TryWallet(r)
    BY <2>2, TryWalletEffect
  <2>3. CASE TrySubscription(r)
    BY <2>3, TrySubscriptionEffect
  <2>4. CASE CheckToken(r)
    BY <2>4, CheckTokenEffect
  <2>5. CASE PreConsumeTokenQuota(r)
    BY <2>5, PreConsumeTokenQuotaEffect, FaultlessEffect
  <2>6. CASE PreConsumeWallet(r)
    BY <2>6, PreConsumeWalletEffect
  <2>7. CASE PreConsumeUserSubscription(r)
    BY <2>7, PreConsumeUserSubscriptionEffect
  <2>8. CASE RollbackToken(r)
    BY <2>8, RollbackTokenEffect, FaultlessEffect
  <2>9. ASSUME NEW a \in Quotas, Settle(r, a)
        PROVE  FaultlessInvAt(r)'
    <3>1. a \in Nat
      BY QuotasAssumption
    <3> QED
      BY <2>9, <3>1, SettleEffect
  <2>10. CASE SettleToken(r)
    BY <2>10, SettleTokenEffect, FaultlessEffect
  <2>11. CASE Refund(r)
    BY <2>11, RefundEffect DEF NeedsRefund
  <2>12. CASE RefundWallet(r)
    BY <2>12, RefundWalletEffect, FaultlessEffect
  <2>13. CASE RefundSubscription(r)
    BY <2>13, RefundSubscriptionEffect, FaultlessEffect
  <2>14. CASE MarkRefunded(r)
    BY <2>14, MarkRefundedEffect
  <2>15. CASE RefundToken(r)
    BY <2>15, RefundTokenEffect, FaultlessEffect
  <2> QED
    BY <1>1, <2>1, <2>2, <2>3, <2>4, <2>5, <2>6, <2>7, <2>8,
       <2>9, <2>10, <2>11, <2>12, <2>13, <2>14, <2>15 DEF Step, PreConsume, Finish
<1>2. ASSUME NEW r \in Requests, Step(r), NEW x \in Requests, x # r
      PROVE  FaultlessInvAt(x)'
  BY <1>2, OtherRequests DEF FaultlessInv, FaultlessInvAt, FundingCharge, EffectiveQuota
<1>3. CASE \E r \in Requests : Step(r)
  BY <1>1, <1>2, <1>3 DEF FaultlessInv
<1>4. CASE ResetSubscription \/ ExpireSubscription
  BY <1>4 DEF ResetSubscription, ExpireSubscription, charges, FaultlessInv, FaultlessInvAt, FundingCharge, EffectiveQuota
<1>5. CASE Crash
  <2>1. ASSUME NEW r \in Requests
        PROVE  /\ pc'[r] = pc[r] \/ pc'[r] = "crashed"
               /\ sess'[r] = sess[r] /\ opt'[r] = opt[r]
               /\ wCharge'[r] = wCharge[r] /\ sCharge'[r] = sCharge[r] /\ tCharge'[r] = tCharge[r]
    BY <1>5 DEF Crash, charges, accounts, TypeOK
  <2>2. ASSUME NEW r \in Requests
        PROVE  FaultlessInvAt(r)'
    BY <2>1 DEF FaultlessInv, FaultlessInvAt, BeforeToken, NotOpened, Refunding, FundingCharge, EffectiveQuota
  <2> QED
    BY <2>2 DEF FaultlessInv
<1>6. CASE Finished \/ UNCHANGED vars
  BY <1>6 DEF Finished, vars, FaultlessInv, FaultlessInvAt, FundingCharge, EffectiveQuota
<1> QED
  BY <1>3, <1>4, <1>5, <1>6 DEF Next

-----------------------------------------------------------------------------
(* Theorems                                                                   *)

\* The invariants that need no assumption on the faults.
LEMMA Invariants == Spec => [](TypeOK /\ FundingInv /\ TokenInv)
<1>1. Init => TypeOK
  BY AccountsAssumption DEF Init, TypeOK, Session, NoSession, ControlPoints, Terminal
<1>2. Init => FundingInv /\ TokenInv
  BY DEF Init, FundingInv, FundingInvAt, TokenInv, TokenInvAt, NotOpened, Refunding,
       FundingCharge, NoSession
<1>3. TypeOK /\ FundingInv /\ TokenInv /\ [Next]_vars => (TypeOK /\ FundingInv /\ TokenInv)'
  BY TypeStep, FundingStep, TokenStep
<1> QED
  BY <1>1, <1>2, <1>3, PTL DEF Spec

\* Whatever fails and however often a request falls back, it draws on one
\* funding source, and on one its billing preference allows.
THEOREM OneFundingSourceHolds == Spec => []OneFundingSource
<1>1. TypeOK /\ FundingInv /\ TokenInv => OneFundingSource
  <2> SUFFICES ASSUME TypeOK, FundingInv, NEW r \in Requests
               PROVE  /\ sCharge[r] # 0 => sess[r].funding = "subscription" /\ opt[r].pref # "wallet_only"
                      /\ wCharge[r] # 0 => sess[r].funding = "wallet" /\ opt[r].pref # "subscription_only"
    BY DEF OneFundingSource
  <2> QED
    BY DEF FundingInv, FundingInvAt
<1> QED
  BY <1>1, Invariants, PTL

\* Whatever fails, a settled request has been charged exactly its actual quota
\* by its funding source: Settle neither repeats nor loses the adjustment.
THEOREM SettledChargesActualHolds == Spec => []SettledChargesActual
<1>1. TypeOK /\ FundingInv /\ TokenInv => SettledChargesActual
  BY DEF SettledChargesActual, FundingInv, FundingInvAt
<1> QED
  BY <1>1, Invariants, PTL

\* Whatever fails, an open session, and one whose settlement failed, holds
\* exactly what GetPreConsumedQuota reports.
THEOREM HoldMatchesSessionHolds == Spec => []HoldMatchesSession
<1>1. TypeOK /\ FundingInv /\ TokenInv => HoldMatchesSession
  BY DEF HoldMatchesSession, FundingInv, FundingInvAt
<1> QED
  BY <1>1, Invariants, PTL

\* The refund invariant too, when the record of a refund is never lost.
LEMMA RefundInvariants ==
  ASSUME "record" \notin Faults
  PROVE  Spec => [](TypeOK /\ FundingInv /\ TokenInv /\ RefundInv)
<1>1. Init => RefundInv
  <2> SUFFICES ASSUME Init, NEW r \in Requests
               PROVE  RefundInvAt(r)
    BY DEF RefundInv
  <2>1. pc[r] = "idle" /\ wCharge[r] = 0 /\ sCharge[r] = 0
    BY DEF Init
  <2> QED
    BY <2>1 DEF RefundInvAt
<1>2. TypeOK /\ FundingInv /\ TokenInv /\ RefundInv /\ [Next]_vars => RefundInv'
  BY RefundStep
<1> QED
  BY <1>1, <1>2, Invariants, PTL DEF Spec

\* As long as saving the pre-consume record does not fail, no request gets back
\* more than it took from the wallet, the subscription or the token, whatever
\* else fails or crashes.
THEOREM NoOverRefundHolds ==
  ASSUME "record" \notin Faults
  PROVE  Spec => []NoOverRefund
<1>1. TypeOK /\ FundingInv /\ TokenInv /\ RefundInv => NoOverRefund
  BY DEF NoOverRefund, RefundInv, RefundInvAt, TokenInv, TokenInvAt
<1> QED
  BY <1>1, RefundInvariants, PTL

\* When nothing fails every request ends charged in full on both sides or not
\* at all, for any number of requests, profiles and interleavings.
THEOREM NothingLeaksHolds == Spec => []NothingLeaks
<1>1. CASE Faults = {}
  <2>1. "record" \notin Faults
    BY <1>1
  <2>2. Init => FaultlessInv
    <3> SUFFICES ASSUME Init, NEW r \in Requests
                 PROVE  FaultlessInvAt(r)
      BY DEF FaultlessInv
    <3>1. pc[r] = "idle" /\ wCharge[r] = 0 /\ sCharge[r] = 0 /\ tCharge[r] = 0
      BY DEF Init
    <3> QED
      BY <3>1 DEF FaultlessInvAt, BeforeToken, Refunding
  <2>3. TypeOK /\ FundingInv /\ TokenInv /\ RefundInv /\ FaultlessInv /\ [Next]_vars
          => FaultlessInv'
    BY <1>1, FaultlessStep
  <2>4. FundingInv /\ FaultlessInv => NothingLeaks
    BY DEF FundingInv, FundingInvAt, FaultlessInv, FaultlessInvAt, NothingLeaks, NotOpened
  <2>5. Spec => [](TypeOK /\ FundingInv /\ TokenInv /\ RefundInv)
    BY <2>1, RefundInvariants
  <2> QED
    BY <2>2, <2>3, <2>4, <2>5, PTL DEF Spec
<1>2. CASE Faults # {}
  <2>1. NothingLeaks
    BY <1>2 DEF NothingLeaks
  <2> QED
    BY <2>1, PTL
<1> QED
  BY <1>1, <1>2

-----------------------------------------------------------------------------
(* BillingSession implements HoldCapture: whatever interleaving, fault or     *)
(* crash happens, the funding side of every request is a hold that is         *)
(* captured once, voided once or abandoned, and never moves again.  The one   *)
(* exception is the lost pre-consume record, which the theorem rules out by   *)
(* assumption.                                                                *)


\* What request r has taken from both sources.
Held(r) == wCharge[r] + sCharge[r]

\* The steps of the abstract hold of r, and the step that leaves it alone.
HoldMove(r) ==
  \/ HoldState(r)' = HoldState(r) /\ Held(r)' = Held(r)
  \/ HoldState(r) = "none" /\ HoldState(r)' = "denied" /\ Held(r)' = Held(r)
  \/ HoldState(r) = "none" /\ HoldState(r)' = "held" /\ Held(r)' \in Nat
  \/ HoldState(r) = "held" /\ HoldState(r)' = "captured" /\ Held(r)' \in Nat
  \/ HoldState(r) = "held" /\ HoldState(r)' = "voided" /\ Held(r)' = 0
  \/ /\ HoldState(r) \in {"none", "held"} /\ HoldState(r)' = "abandoned"
     /\ Held(r)' = Held(r)

\* Every action of a request moves its hold as the abstract protocol allows.
LEMMA HoldMoves ==
  ASSUME TypeOK, FundingInv, TokenInv, RefundInv, RefundInv', "record" \notin Faults,
         NEW r \in Requests, Step(r)
  PROVE  HoldMove(r)
<1> /\ EffectiveQuota(r) \in Nat
    /\ sess[r].tokenConsumed \in Nat /\ sess[r].consumed \in Nat
    /\ sess[r].preConsumedQuota \in Nat /\ sess[r].actual \in Nat
    /\ sess[r].funding \in {"none", "wallet", "subscription"}
    /\ wCharge[r] \in Int /\ sCharge[r] \in Int /\ tCharge[r] \in Int
  BY LocalTypes DEF TypeOK, Session
<1> FundingInvAt(r) /\ TokenInvAt(r) /\ RefundInvAt(r) /\ RefundInvAt(r)'
  BY DEF FundingInv, TokenInv, RefundInv
<1> USE DEF HoldMove, HoldState, Held, FundingInvAt, RefundInvAt, NotOpened, Refunding,
      FundingCharge, SameOutcome, SameAmounts, SameSource, SameFunding, SameCharges
<1>1. CASE NewBillingSession(r)
  BY <1>1, NewBillingSessionEffect
<1>2. CASE TryWallet(r)
  BY <1>2, TryWalletEffect
<1>3. CASE TrySubscription(r)
  BY <1>3, TrySubscriptionEffect
<1>4. CASE CheckToken(r)
  BY <1>4, CheckTokenEffect
<1>5. CASE PreConsumeTokenQuota(r)
  BY <1>5, PreConsumeTokenQuotaEffect
<1>6. CASE PreConsumeWallet(r)
  BY <1>6, PreConsumeWalletEffect
<1>7. CASE PreConsumeUserSubscription(r)
  BY <1>7, PreConsumeUserSubscriptionEffect
<1>8. CASE RollbackToken(r)
  BY <1>8, RollbackTokenEffect
<1>9. ASSUME NEW a \in Quotas, Settle(r, a)
      PROVE  HoldMove(r)
  <2>1. a \in Nat
    BY QuotasAssumption
  <2>2. pc[r] = "open" /\ HoldState(r) = "held"
    BY <1>9, <2>1, SettleEffect
  <2>3. \/ pc'[r] \in {"settled", "settleToken"} /\ (sess'[r].settled \/ sess'[r].fundingSettled)
        \/ /\ pc'[r] = "unsettled" /\ sess'[r].settled = sess[r].settled
           /\ sess'[r].fundingSettled = sess[r].fundingSettled
           /\ sess'[r].refunded = sess[r].refunded /\ SameFunding(r)
    BY <1>9, <2>1, SettleEffect
  <2>4. Held(r)' \in Nat
    <3> HIDE DEF HoldState, HoldMove
    <3>1. CASE sess[r].funding = "wallet"
      BY <1>9, <2>1, <2>2, <3>1, SettleEffect
    <3>2. CASE sess[r].funding = "subscription"
      BY <1>9, <2>1, <2>2, <3>2, SettleEffect
    <3> QED
      BY <2>2, <3>1, <3>2
  <2>5. CASE sess'[r].settled \/ sess'[r].fundingSettled
    BY <2>2, <2>4, <2>5
  <2>6. CASE /\ pc'[r] = "unsettled" /\ sess'[r].settled = sess[r].settled
             /\ sess'[r].fundingSettled = sess[r].fundingSettled
             /\ sess'[r].refunded = sess[r].refunded /\ SameFunding(r)
    BY <2>2, <2>6
  <2> QED
    BY <2>3, <2>5, <2>6
<1>10. CASE SettleToken(r)
  BY <1>10, SettleTokenEffect
<1>11. CASE Refund(r)
  BY <1>11, RefundEffect DEF NeedsRefund, TokenInvAt
<1>12. CASE RefundWallet(r)
  BY <1>12, RefundWalletEffect
<1>13. CASE RefundSubscription(r)
  BY <1>13, RefundSubscriptionEffect
<1>14. CASE MarkRefunded(r)
  BY <1>14, MarkRefundedEffect
<1>15. CASE RefundToken(r)
  BY <1>15, RefundTokenEffect
<1> QED
  BY <1>1, <1>2, <1>3, <1>4, <1>5, <1>6, <1>7, <1>8,
     <1>9, <1>10, <1>11, <1>12, <1>13, <1>14, <1>15 DEF Step, PreConsume, Finish

\* A crash abandons exactly the holds that were neither captured nor voided.
LEMMA CrashMoves ==
  ASSUME TypeOK, FundingInv, Crash, NEW r \in Requests
  PROVE  /\ Held(r)' = Held(r)
         /\ \/ HoldState(r)' = HoldState(r)
            \/ HoldState(r) \in {"none", "held"} /\ HoldState(r)' = "abandoned"
<1>1. /\ pc'[r] = pc[r] \/ (pc[r] \notin Terminal \cup {"idle"} /\ pc'[r] = "crashed")
      /\ sess'[r] = sess[r] /\ wCharge'[r] = wCharge[r] /\ sCharge'[r] = sCharge[r]
  BY DEF Crash, charges, accounts, TypeOK
<1>2. Held(r)' = Held(r) /\ FundingCharge(r)' = FundingCharge(r)
  BY <1>1 DEF Held, FundingCharge
<1>3. CASE pc'[r] = pc[r]
  BY <1>1, <1>2, <1>3 DEF HoldState
<1>4. CASE pc[r] \notin Terminal \cup {"idle"} /\ pc'[r] = "crashed"
  <2>1. pc[r] \notin {"closed", "rejected", "unsettled", "crashed"}
    BY <1>4 DEF Terminal
  <2>2. CASE sess[r].fundingSettled \/ sess[r].settled
    BY <1>1, <1>2, <2>2 DEF HoldState
  <2>3. CASE ~(sess[r].fundingSettled \/ sess[r].settled)
    BY <1>1, <1>2, <1>4, <2>1, <2>3 DEF HoldState
  <2> QED
    BY <2>2, <2>3
<1> QED
  BY <1>1, <1>3, <1>4, <1>2

\* Every step of the system is a step of the abstract protocol, or leaves all
\* the holds alone.
LEMMA HoldNext ==
  ASSUME TypeOK, FundingInv, TokenInv, RefundInv, RefundInv', "record" \notin Faults,
         [Next]_vars
  PROVE  [Hold!Next]_(Hold!vars)
<1> DEFINE st == [x \in Requests |-> HoldState(x)]
           am == [x \in Requests |-> wCharge[x] + sCharge[x]]
<1>1. ASSUME NEW r \in Requests, Step(r)
      PROVE  [Hold!Next]_(Hold!vars)
  <2>1. ASSUME NEW x \in Requests, x # r
        PROVE  HoldState(x)' = HoldState(x) /\ Held(x)' = Held(x)
    BY <1>1, <2>1, OtherRequests DEF HoldState, Held, FundingCharge
  <2>2. /\ st' = [st EXCEPT ![r] = HoldState(r)']
        /\ am' = [am EXCEPT ![r] = Held(r)']
    BY <2>1 DEF Held
  <2>3. st[r] = HoldState(r) /\ am[r] = Held(r) /\ am'[r] = Held(r)'
    BY DEF Held
  <2>4. HoldMove(r)
    BY <1>1, HoldMoves
  <2>5. CASE HoldState(r)' = HoldState(r) /\ Held(r)' = Held(r)
    BY <2>2, <2>3, <2>5 DEF Hold!vars
  <2>6. CASE HoldState(r) = "none" /\ HoldState(r)' = "denied" /\ Held(r)' = Held(r)
    BY <2>2, <2>3, <2>6 DEF Hold!Next, Hold!Deny
  <2>7. CASE HoldState(r) = "none" /\ HoldState(r)' = "held" /\ Held(r)' \in Nat
    BY <2>2, <2>3, <2>7 DEF Hold!Next, Hold!Place
  <2>8. CASE HoldState(r) = "held" /\ HoldState(r)' = "captured" /\ Held(r)' \in Nat
    BY <2>2, <2>3, <2>8 DEF Hold!Next, Hold!Capture
  <2>9. CASE HoldState(r) = "held" /\ HoldState(r)' = "voided" /\ Held(r)' = 0
    BY <2>2, <2>3, <2>9 DEF Hold!Next, Hold!Void
  <2>10. CASE /\ HoldState(r) \in {"none", "held"} /\ HoldState(r)' = "abandoned"
              /\ Held(r)' = Held(r)
    <3>1. Hold!Abandon({r})
      BY <2>2, <2>3, <2>10 DEF Hold!Abandon, Hold!Over
    <3> QED
      BY <3>1 DEF Hold!Next
  <2> QED
    BY <2>4, <2>5, <2>6, <2>7, <2>8, <2>9, <2>10 DEF HoldMove
<1>2. CASE Crash
  <2> DEFINE S == {x \in Requests : HoldState(x)' # HoldState(x)}
  <2>1. am' = am
    BY <1>2, CrashMoves DEF Held
  <2>2. CASE S = {}
    BY <2>1, <2>2 DEF Hold!vars
  <2>3. CASE S # {}
    <3>1. Hold!Abandon(S)
      BY <1>2, <2>1, <2>3, CrashMoves DEF Hold!Abandon, Hold!Over
    <3> QED
      BY <3>1 DEF Hold!Next
  <2> QED
    BY <2>2, <2>3
<1>3. CASE ResetSubscription \/ ExpireSubscription
  BY <1>3 DEF ResetSubscription, ExpireSubscription, charges, Hold!vars, HoldState, FundingCharge
<1>4. CASE Finished \/ UNCHANGED vars
  BY <1>4 DEF Finished, vars, Hold!vars, HoldState, FundingCharge
<1> QED
  BY <1>1, <1>2, <1>3, <1>4 DEF Next

\* Request billing implements the hold/capture/void protocol: as long as the
\* pre-consume record is not lost, every behaviour of BillingSession, with any
\* other fault and any crash, is a behaviour of HoldCapture.
THEOREM ImplementsHoldCapture ==
  ASSUME "record" \notin Faults
  PROVE  Spec => HoldCaptureSpec
<1>1. Init => Hold!Init
  BY DEF Init, Hold!Init, HoldState, NoSession, FundingCharge
<1>2. TypeOK /\ FundingInv /\ TokenInv /\ RefundInv /\ RefundInv' /\ [Next]_vars
        => [Hold!Next]_(Hold!vars)
  BY HoldNext
<1> QED
  BY <1>1, <1>2, RefundInvariants, PTL DEF Spec, HoldCaptureSpec, Hold!Spec
=============================================================================
