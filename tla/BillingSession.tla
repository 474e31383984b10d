--------------------------- MODULE BillingSession ---------------------------
(***************************************************************************)
(* Request billing: service/billing_session.go, funding_source.go and      *)
(* billing.go over the account operations of model/.  Several requests of  *)
(* one user run concurrently against one wallet (users.quota), one API     *)
(* token (tokens.remain_quota) and one subscription                        *)
(* (user_subscriptions.amount_used).                                       *)
(*                                                                         *)
(* Every database statement is one step, so the steps of two requests      *)
(* interleave between a check and the write it guards.  The exception is a *)
(* transaction on the subscription row (SELECT, check, Save), which is one *)
(* step, as the FOR UPDATE the code asks for means it.  The accounts are   *)
(* those of RedisEnabled = false, BatchUpdateEnabled = false: a read sees  *)
(* the row.                                                                *)
(*                                                                         *)
(* wCharge, sCharge and tCharge are history variables: what request r has  *)
(* taken, net of what it gave back, from the wallet, the subscription and  *)
(* the token.                                                              *)
(***************************************************************************)
EXTENDS Integers

CONSTANTS
  Requests,      \* request ids
  Profiles,      \* what a request may look like (see Profile)
  Quotas,        \* amounts a request may cost once it has been served
  Wallet0,       \* users.quota at the start
  Token0,        \* tokens.remain_quota at the start
  SubTotal,      \* user_subscriptions.amount_total; 0 means unlimited
  TrustQuota,    \* common.GetTrustQuota()
  MaxAttempts,   \* maxAttempts of refundWithRetry
  Faults         \* kinds of fault that may strike, a subset of FaultKinds

Preferences == {"subscription_only", "wallet_only", "wallet_first", "subscription_first"}

\* "wallet", "token", "sub": a statement on that table fails; "record": saving
\* the pre-consume record fails; "read": a SELECT fails; "crash": the process dies.
FaultKinds == {"wallet", "token", "sub", "record", "read", "crash"}

\* The parts of RelayInfo that billing looks at: the normalised preference, the
\* quota to pre-consume, IsPlayground, TokenUnlimited and ForcePreConsume.
Profile == [pref: Preferences, quota: Nat, playground: BOOLEAN,
            unlimited: BOOLEAN, force: BOOLEAN]

ASSUME ProfilesAssumption == Profiles \subseteq Profile
ASSUME QuotasAssumption == Quotas \subseteq Nat
ASSUME AccountsAssumption ==
  Wallet0 \in Int /\ Token0 \in Int /\ SubTotal \in Nat /\ TrustQuota \in Int
ASSUME FaultsAssumption == Faults \subseteq FaultKinds
ASSUME AttemptsAssumption == MaxAttempts \in Nat \ {0}

VARIABLES
  wallet, token, subUsed, subActive,  \* the account rows
  opt,                                \* the profile of each request
  pc, sess,                           \* control point and BillingSession of each request
  wCharge, sCharge, tCharge           \* history: net amounts taken by each request

accounts == <<wallet, token, subUsed, subActive>>
charges == <<wCharge, sCharge, tCharge>>
vars == <<wallet, token, subUsed, subActive, opt, pc, sess, wCharge, sCharge, tCharge>>

\* A BillingSession with its FundingSource.  consumed is WalletFunding.consumed
\* or SubscriptionFunding.preConsumed; tokenQuota is the "token_quota" the auth
\* middleware left in the request context; fallback records that the error of
\* preConsume is ErrorCodeInsufficientUserQuota; actual is Settle's argument;
\* attempts counts the calls of refundWithRetry.
Session == [funding: {"none", "wallet", "subscription"}, tokenQuota: Int,
            trusted: BOOLEAN, preConsumedQuota: Nat, tokenConsumed: Nat,
            consumed: Nat, fallback: BOOLEAN, actual: Nat, attempts: Nat,
            fundingSettled: BOOLEAN, settled: BOOLEAN, refunded: BOOLEAN]

NoSession == [funding |-> "none", tokenQuota |-> 0, trusted |-> FALSE,
              preConsumedQuota |-> 0, tokenConsumed |-> 0, consumed |-> 0,
              fallback |-> FALSE, actual |-> 0, attempts |-> 0,
              fundingSettled |-> FALSE, settled |-> FALSE, refunded |-> FALSE]

\* The request is over: refused, settled, served with a failed settlement,
\* failed with its refund goroutine finished, or lost with the process.
Terminal == {"rejected", "settled", "unsettled", "closed", "crashed"}

ControlPoints == Terminal \cup
  {"idle", "tryWallet", "trySubscription", "preToken", "decToken", "preFunding",
   "rollbackToken", "open", "settleToken", "refundFunding", "refundMark",
   "refundToken"}

TypeOK ==
  /\ wallet \in Int /\ token \in Int /\ subUsed \in Nat /\ subActive \in BOOLEAN
  /\ opt \in [Requests -> Profiles]
  /\ pc \in [Requests -> ControlPoints]
  /\ sess \in [Requests -> Session]
  /\ wCharge \in [Requests -> Int]
  /\ sCharge \in [Requests -> Int]
  /\ tCharge \in [Requests -> Int]

Init ==
  /\ wallet = Wallet0 /\ token = Token0 /\ subUsed = 0 /\ subActive \in BOOLEAN
  /\ opt \in [Requests -> Profiles]
  /\ pc = [r \in Requests |-> "idle"]
  /\ sess = [r \in Requests |-> NoSession]
  /\ wCharge = [r \in Requests |-> 0]
  /\ sCharge = [r \in Requests |-> 0]
  /\ tCharge = [r \in Requests |-> 0]

-----------------------------------------------------------------------------
(* Account operations of model/user.go, model/token.go, model/subscription.go *)

\* Mutant of DecreaseUserQuota: a negative amount loses its sign.
DecreaseUserQuotaUnsigned(r, d) ==
  /\ wallet' = wallet - (IF d < 0 THEN -d ELSE d)
  /\ wCharge' = [wCharge EXCEPT ![r] = @ + (IF d < 0 THEN -d ELSE d)]
  /\ UNCHANGED <<subUsed, sCharge>>

\* DecreaseUserQuota(d), or IncreaseUserQuota(-d): quota = quota - d, unguarded.
DecreaseUserQuota(r, d) ==
  /\ wallet' = wallet - d
  /\ wCharge' = [wCharge EXCEPT ![r] = @ + d]
  /\ UNCHANGED <<subUsed, sCharge>>

\* DecreaseTokenQuota(d), or IncreaseTokenQuota(-d): remain_quota - d, unguarded.
DecreaseTokenQuota(r, d) ==
  /\ token' = token - d
  /\ tCharge' = [tCharge EXCEPT ![r] = @ + d]

\* The limit check of PostConsumeUserSubscriptionDelta.
WithinTotal(d) == SubTotal = 0 \/ subUsed + d <= SubTotal

\* Mutant of PostConsumeUserSubscriptionDelta: the clamp is forgotten.
PostConsumeUnclamped(r, d) ==
  /\ subUsed' = subUsed + d
  /\ sCharge' = [sCharge EXCEPT ![r] = @ + d]
  /\ UNCHANGED <<wallet, wCharge>>

\* The write of PostConsumeUserSubscriptionDelta: amount_used is clamped at 0.
PostConsumeUserSubscriptionDelta(r, d) ==
  /\ subUsed' = IF subUsed + d < 0 THEN 0 ELSE subUsed + d
  /\ sCharge' = [sCharge EXCEPT ![r] = @ + d]
  /\ UNCHANGED <<wallet, wCharge>>

NoFunding == UNCHANGED <<wallet, wCharge, subUsed, sCharge>>
NoToken == UNCHANGED <<token, tCharge>>
NoAccount == NoFunding /\ NoToken /\ UNCHANGED <<subActive, opt>>

Goto(r, where) == pc' = [pc EXCEPT ![r] = where]
SetSession(r, s) == sess' = [sess EXCEPT ![r] = s]

-----------------------------------------------------------------------------
(* Creating the session: NewBillingSession and preConsume                     *)

\* trySubscription pre-consumes at least 1; a trusted wallet request nothing.
EffectiveQuota(r) ==
  IF sess[r].trusted THEN 0
  ELSE IF sess[r].funding = "subscription" /\ opt[r].quota = 0 THEN 1
  ELSE opt[r].quota

\* The request has passed the auth middleware, which read the token; the
\* preference picks the first source to try.  subscription_first looks for an
\* active subscription before it tries one.
NewBillingSession(r) ==
  /\ pc[r] = "idle"
  /\ SetSession(r, [sess[r] EXCEPT !.tokenQuota = token])
  /\ \/ /\ opt[r].pref = "subscription_only"
        /\ Goto(r, "trySubscription")
     \/ /\ opt[r].pref \in {"wallet_only", "wallet_first"}
        /\ Goto(r, "tryWallet")
     \/ /\ opt[r].pref = "subscription_first"
        /\ Goto(r, IF subActive THEN "trySubscription" ELSE "tryWallet")
     \/ /\ opt[r].pref = "subscription_first" /\ "read" \in Faults
        /\ Goto(r, "rejected")
  /\ NoAccount

\* shouldTrust on the wallet path.
ShouldTrust(r) ==
  /\ ~opt[r].force
  /\ TrustQuota > 0
  /\ opt[r].unlimited \/ sess[r].tokenQuota > TrustQuota
  /\ wallet > TrustQuota

\* GetUserQuota, the two balance checks and the trust decision of tryWallet.
TryWallet(r) ==
  /\ pc[r] = "tryWallet"
  /\ \/ /\ wallet > 0 /\ wallet >= opt[r].quota
        /\ SetSession(r, [sess[r] EXCEPT !.funding = "wallet", !.fallback = FALSE,
                           !.trusted = ShouldTrust(r)])
        /\ Goto(r, IF ShouldTrust(r) \/ opt[r].quota = 0 THEN "preFunding" ELSE "preToken")
     \/ /\ wallet <= 0 \/ wallet < opt[r].quota
        /\ SetSession(r, [sess[r] EXCEPT !.fallback = TRUE])
        /\ Goto(r, IF opt[r].pref = "wallet_first" THEN "trySubscription" ELSE "rejected")
     \/ /\ "read" \in Faults
        /\ UNCHANGED sess
        /\ Goto(r, "rejected")
  /\ NoAccount

\* trySubscription: a fresh session; the trust bypass never applies.
TrySubscription(r) ==
  /\ pc[r] = "trySubscription"
  /\ SetSession(r, [sess[r] EXCEPT !.funding = "subscription", !.fallback = FALSE,
                           !.trusted = FALSE])
  /\ Goto(r, "preToken")
  /\ NoAccount

\* The check of PreConsumeTokenQuota, on a token read before the decrement.
CheckToken(r) ==
  /\ pc[r] = "preToken"
  /\ \/ /\ opt[r].playground
        /\ SetSession(r, [sess[r] EXCEPT !.tokenConsumed = EffectiveQuota(r)])
        /\ Goto(r, "preFunding")
     \/ /\ ~opt[r].playground
        /\ opt[r].unlimited \/ token >= EffectiveQuota(r)
        /\ UNCHANGED sess
        /\ Goto(r, "decToken")
     \/ /\ ~opt[r].playground
        /\ (~opt[r].unlimited /\ token < EffectiveQuota(r)) \/ "read" \in Faults
        /\ UNCHANGED sess
        /\ Goto(r, "rejected")
  /\ NoAccount

\* The decrement of PreConsumeTokenQuota.
PreConsumeTokenQuota(r) ==
  /\ pc[r] = "decToken"
  /\ \/ /\ DecreaseTokenQuota(r, EffectiveQuota(r))
        /\ SetSession(r, [sess[r] EXCEPT !.tokenConsumed = EffectiveQuota(r)])
        /\ Goto(r, "preFunding")
     \/ /\ "token" \in Faults
        /\ NoToken /\ UNCHANGED sess
        /\ Goto(r, "rejected")
  /\ NoFunding /\ UNCHANGED <<subActive, opt>>

\* Where preConsume goes when the funding source refuses: give the token
\* quota back, if some was taken, then report the error to NewBillingSession.
FundingRefused(r, insufficient) ==
  /\ SetSession(r, [sess[r] EXCEPT !.fallback = insufficient])
  /\ Goto(r, "rollbackToken")
  /\ NoFunding

\* Mutant of FundingTaken: the session records the estimate of a trusted request.
FundingTakenEstimate(r, q) ==
  /\ SetSession(r, [sess[r] EXCEPT !.consumed = q, !.preConsumedQuota = opt[r].quota])
  /\ Goto(r, "open")

\* funding.PreConsume succeeded with amount q: the session is open.
FundingTaken(r, q) ==
  /\ SetSession(r, [sess[r] EXCEPT !.consumed = q, !.preConsumedQuota = EffectiveQuota(r)])
  /\ Goto(r, "open")

\* WalletFunding.PreConsume: an unguarded decrement, nothing for amount 0.
PreConsumeWallet(r) ==
  /\ pc[r] = "preFunding" /\ sess[r].funding = "wallet"
  /\ \/ FundingTaken(r, EffectiveQuota(r)) /\ DecreaseUserQuota(r, EffectiveQuota(r))
     \/ EffectiveQuota(r) > 0 /\ "wallet" \in Faults /\ FundingRefused(r, FALSE)
  /\ NoToken /\ UNCHANGED <<subActive, opt>>

\* SubscriptionFunding.PreConsume, the transaction of PreConsumeUserSubscription
\* for a request id that is new: find an active subscription with room for the
\* amount, insert the record "consumed", add the amount to amount_used.  A failed
\* SELECT of the subscriptions is reported as "no active subscription", any
\* other database error as itself.
PreConsumeUserSubscription(r) ==
  /\ pc[r] = "preFunding" /\ sess[r].funding = "subscription"
  /\ \/ /\ subActive /\ WithinTotal(EffectiveQuota(r))
        /\ FundingTaken(r, EffectiveQuota(r))
        /\ PostConsumeUserSubscriptionDelta(r, EffectiveQuota(r))
     \/ ~(subActive /\ WithinTotal(EffectiveQuota(r))) /\ FundingRefused(r, TRUE)
     \/ "sub" \in Faults /\ \E insufficient \in BOOLEAN : FundingRefused(r, insufficient)
  /\ NoToken /\ UNCHANGED <<subActive, opt>>

\* Mutant of NextSource: every preference falls back to the wallet.
FallBackAlways(r) ==
  IF sess[r].fallback /\ sess[r].funding = "subscription" THEN "tryWallet" ELSE "rejected"

\* The source NewBillingSession falls back to after an insufficient-quota error.
NextSource(r) ==
  IF sess[r].fallback /\ sess[r].funding = "subscription" /\ opt[r].pref = "subscription_first"
  THEN "tryWallet"
  ELSE "rejected"

\* Mutant of RollbackToken: the next source goes on with the same session.
RollbackTokenKept(r) ==
  /\ pc[r] = "rollbackToken"
  /\ UNCHANGED sess
  /\ Goto(r, NextSource(r))
  /\ IF sess[r].tokenConsumed > 0 /\ ~opt[r].playground
     THEN DecreaseTokenQuota(r, -sess[r].tokenConsumed)
     ELSE NoToken
  /\ NoFunding /\ UNCHANGED <<subActive, opt>>

\* The rollback of preConsume; a failure is only logged.  The session is
\* dropped: the next source starts with a fresh one.
RollbackToken(r) ==
  /\ pc[r] = "rollbackToken"
  /\ SetSession(r, [sess[r] EXCEPT !.tokenConsumed = 0, !.trusted = FALSE])
  /\ Goto(r, NextSource(r))
  /\ IF sess[r].tokenConsumed > 0 /\ ~opt[r].playground
     THEN \/ DecreaseTokenQuota(r, -sess[r].tokenConsumed)
          \/ "token" \in Faults /\ NoToken
     ELSE NoToken
  /\ NoFunding /\ UNCHANGED <<subActive, opt>>

-----------------------------------------------------------------------------
(* Using the session: Settle and Refund                                       *)

\* The first half of Settle(a): adjust the funding source by a - pre-consumed.
\* A subscription refuses what exceeds its total; the callers of SettleBilling
\* log the error and end the request without a refund.
Settle(r, a) ==
  LET delta == a - sess[r].preConsumedQuota IN
  /\ pc[r] = "open" /\ ~sess[r].settled
  /\ \/ /\ delta = 0
        /\ SetSession(r, [sess[r] EXCEPT !.actual = a, !.settled = TRUE])
        /\ Goto(r, "settled")
        /\ NoFunding
     \/ /\ delta # 0
        /\ \/ sess[r].funding = "wallet" /\ DecreaseUserQuota(r, delta)
           \/ /\ sess[r].funding = "subscription" /\ WithinTotal(delta)
              /\ PostConsumeUserSubscriptionDelta(r, delta)
        /\ SetSession(r, [sess[r] EXCEPT !.actual = a, !.fundingSettled = TRUE])
        /\ Goto(r, "settleToken")
     \/ /\ delta # 0
        /\ \/ sess[r].funding = "wallet" /\ "wallet" \in Faults
           \/ sess[r].funding = "subscription" /\ (~WithinTotal(delta) \/ "sub" \in Faults)
        /\ NoFunding /\ UNCHANGED sess
        /\ Goto(r, "unsettled")
  /\ NoToken /\ UNCHANGED <<subActive, opt>>

\* The second half of Settle: adjust the token by the same delta.  An error is
\* logged and the session counts as settled all the same.
SettleToken(r) ==
  /\ pc[r] = "settleToken"
  /\ IF opt[r].playground
     THEN NoToken
     ELSE \/ DecreaseTokenQuota(r, sess[r].actual - sess[r].preConsumedQuota)
          \/ "token" \in Faults /\ NoToken
  /\ SetSession(r, [sess[r] EXCEPT !.settled = TRUE])
  /\ Goto(r, "settled")
  /\ NoFunding /\ UNCHANGED <<subActive, opt>>

\* Mutant of NeedsRefund: only a subscription is looked at.
NeedsRefundSubscription(r) ==
  /\ ~sess[r].settled /\ ~sess[r].refunded /\ ~sess[r].fundingSettled
  /\ sess[r].funding = "subscription" /\ sess[r].consumed > 0

\* needsRefundLocked.
NeedsRefund(r) ==
  /\ ~sess[r].settled /\ ~sess[r].refunded /\ ~sess[r].fundingSettled
  /\ sess[r].tokenConsumed > 0 \/ (sess[r].funding = "subscription" /\ sess[r].consumed > 0)

\* The relay failed: Refund marks the session and starts the goroutine.
Refund(r) ==
  /\ pc[r] = "open"
  /\ IF NeedsRefund(r)
     THEN /\ SetSession(r, [sess[r] EXCEPT !.refunded = TRUE])
          /\ Goto(r, "refundFunding")
     ELSE /\ UNCHANGED sess
          /\ Goto(r, "closed")
  /\ NoAccount

\* WalletFunding.Refund: one attempt, an error is only logged.
RefundWallet(r) ==
  /\ pc[r] = "refundFunding" /\ sess[r].funding = "wallet"
  /\ Goto(r, "refundToken")
  /\ \/ DecreaseUserQuota(r, -sess[r].consumed)
     \/ "wallet" \in Faults /\ NoFunding
  /\ UNCHANGED sess /\ NoToken /\ UNCHANGED <<subActive, opt>>

\* refundWithRetry after one more failed attempt.
NextAttempt(r) ==
  /\ SetSession(r, [sess[r] EXCEPT !.attempts = @ + 1])
  /\ Goto(r, IF sess[r].attempts + 1 < MaxAttempts THEN "refundFunding" ELSE "refundToken")

\* Mutant of RefundSubscription: an error after the commit is retried.
RefundSubscriptionLate(r) ==
  /\ pc[r] = "refundFunding" /\ sess[r].funding = "subscription"
  /\ PostConsumeUserSubscriptionDelta(r, -sess[r].consumed)
  /\ \/ Goto(r, "refundMark") /\ UNCHANGED sess
     \/ "sub" \in Faults /\ NextAttempt(r)
  /\ NoToken /\ UNCHANGED <<subActive, opt>>

\* RefundSubscriptionPreConsume, first half: the record is not "refunded" yet,
\* and PostConsumeUserSubscriptionDelta commits the credit in a transaction of
\* its own.
RefundSubscription(r) ==
  /\ pc[r] = "refundFunding" /\ sess[r].funding = "subscription"
  /\ \/ /\ PostConsumeUserSubscriptionDelta(r, -sess[r].consumed)
        /\ Goto(r, "refundMark") /\ UNCHANGED sess
     \/ "sub" \in Faults /\ NoFunding /\ NextAttempt(r)
  /\ NoToken /\ UNCHANGED <<subActive, opt>>

\* RefundSubscriptionPreConsume, second half: save the record as "refunded".
\* When that fails the outer transaction rolls back, the credit stays, and
\* refundWithRetry calls the whole function again.
MarkRefunded(r) ==
  /\ pc[r] = "refundMark"
  /\ \/ Goto(r, "refundToken") /\ UNCHANGED sess
     \/ "record" \in Faults /\ NextAttempt(r)
  /\ NoAccount

\* The last step of the refund goroutine.
RefundToken(r) ==
  /\ pc[r] = "refundToken"
  /\ IF sess[r].tokenConsumed > 0 /\ ~opt[r].playground
     THEN \/ DecreaseTokenQuota(r, -sess[r].tokenConsumed)
          \/ "token" \in Faults /\ NoToken
     ELSE NoToken
  /\ Goto(r, "closed")
  /\ UNCHANGED sess /\ NoFunding /\ UNCHANGED <<subActive, opt>>

-----------------------------------------------------------------------------
(* Environment                                                                *)

\* The periodic reset of amount_used (maybeResetUserSubscriptionWithPlanTx).
ResetSubscription ==
  /\ subUsed' = 0
  /\ UNCHANGED <<wallet, token, subActive, opt, pc, sess>> /\ UNCHANGED charges

\* ExpireDueSubscriptions, or an admin invalidating the subscription.
ExpireSubscription ==
  /\ subActive /\ subActive' = FALSE
  /\ UNCHANGED <<wallet, token, subUsed, opt, pc, sess>> /\ UNCHANGED charges

\* The process dies: sessions and refund goroutines exist only in memory, so
\* nothing resumes the requests that were under way.
Crash ==
  /\ "crash" \in Faults
  /\ pc' = [r \in Requests |-> IF pc[r] \in Terminal \cup {"idle"} THEN pc[r] ELSE "crashed"]
  /\ UNCHANGED <<opt, sess>> /\ UNCHANGED accounts /\ UNCHANGED charges

\* All requests are over.
Finished ==
  /\ \A r \in Requests : pc[r] \in Terminal
  /\ UNCHANGED vars

PreConsume(r) ==
  \/ NewBillingSession(r) \/ TryWallet(r) \/ TrySubscription(r)
  \/ CheckToken(r) \/ PreConsumeTokenQuota(r)
  \/ PreConsumeWallet(r) \/ PreConsumeUserSubscription(r) \/ RollbackToken(r)

Finish(r) ==
  \/ \E a \in Quotas : Settle(r, a)
  \/ SettleToken(r) \/ Refund(r)
  \/ RefundWallet(r) \/ RefundSubscription(r) \/ MarkRefunded(r) \/ RefundToken(r)

Step(r) == PreConsume(r) \/ Finish(r)

Next ==
  \/ \E r \in Requests : Step(r)
  \/ ResetSubscription \/ ExpireSubscription \/ Crash \/ Finished

Spec == Init /\ [][Next]_vars

\* The Go scheduler runs every handler and every refund goroutine, and the
\* relay timeouts end every upstream call.
FairSpec == Spec /\ \A r \in Requests : WF_vars(Step(r))
-----------------------------------------------------------------------------
(* Properties                                                                 *)

\* What request r has taken from the source its session uses.
FundingCharge(r) == IF sess[r].funding = "subscription" THEN sCharge[r] ELSE wCharge[r]

\* However NewBillingSession falls back from one source to the other, a request
\* draws on one source only, and never on one its preference excludes.
OneFundingSource ==
  \A r \in Requests :
    /\ sCharge[r] # 0 => sess[r].funding = "subscription" /\ opt[r].pref # "wallet_only"
    /\ wCharge[r] # 0 => sess[r].funding = "wallet" /\ opt[r].pref # "subscription_only"

\* Settle: once the session is settled the funding source has been charged the
\* actual quota, whatever was pre-consumed, trusted or refused on the way.
SettledChargesActual ==
  \A r \in Requests : sess[r].settled => FundingCharge(r) = sess[r].actual

\* Refund: no sequence of failed, retried and rolled back operations gives a
\* request back more than it took, from any of the three accounts.
NoOverRefund ==
  \A r \in Requests : wCharge[r] >= 0 /\ sCharge[r] >= 0 /\ tCharge[r] >= 0

\* A trusted or refused request is never left with a hold, and a served one is
\* held at its pre-consumed quota until it is settled or refunded.
HoldMatchesSession ==
  \A r \in Requests :
    pc[r] \in {"open", "unsettled"} => FundingCharge(r) = sess[r].preConsumedQuota

\* Without faults every request ends charged in full on both sides or not at
\* all: a settled request has paid its actual quota from the funding source and
\* (playground aside) from the token, a refused or failed one nothing.
NothingLeaks ==
  Faults = {} => \A r \in Requests :
    /\ pc[r] = "settled" =>
         tCharge[r] = IF opt[r].playground THEN 0 ELSE FundingCharge(r)
    /\ pc[r] \in {"rejected", "closed"} =>
         wCharge[r] = 0 /\ sCharge[r] = 0 /\ tCharge[r] = 0

\* Every request that starts is refused, settled or given back: the fallback
\* between sources and the refund retries always end.
Resolves == \A r \in Requests : pc[r] # "idle" ~> pc[r] \in Terminal

\* The funding side of a request as the abstract hold of module HoldCapture: it
\* is captured when the actual quota has been taken from the source, voided when
\* the source has been given everything back, abandoned when a fault ended it.
HoldState(r) ==
  IF sess[r].fundingSettled \/ sess[r].settled THEN "captured"
  ELSE IF (sess[r].refunded \/ pc[r] = "closed") /\ FundingCharge(r) = 0 THEN "voided"
  ELSE IF pc[r] = "rejected" THEN "denied"
  ELSE IF pc[r] \in {"unsettled", "refundToken", "closed", "crashed"} THEN "abandoned"
  ELSE IF pc[r] \in {"open", "refundFunding", "refundMark"} THEN "held"
  ELSE "none"

Hold == INSTANCE HoldCapture WITH
  Holds <- Requests,
  state <- [r \in Requests |-> HoldState(r)],
  amount <- [r \in Requests |-> wCharge[r] + sCharge[r]]

\* Every step of the session is a step of the hold/capture/void protocol.
HoldCaptureSpec == Hold!Spec
=============================================================================
