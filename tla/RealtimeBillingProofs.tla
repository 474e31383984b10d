------------------------ MODULE RealtimeBillingProofs ------------------------
(***************************************************************************)
(* Proofs about RealtimeBilling, for any set of requests, any turns and    *)
(* any faults.                                                             *)
(*                                                                         *)
(* The turns charge the source of the session directly, so the amounts of  *)
(* BillingSession's invariants no longer hold.  What is left of them is    *)
(* SourceInv: which source may have been charged at each control point.    *)
(* It needs WorkerInv, that no goroutine bills before the session is open, *)
(* and SourceInv in turn is what stops the fallback from changing the      *)
(* source under a turn that has been charged.  The bound on the total      *)
(* needs BilledInv, which follows what each goroutine has billed.          *)
(***************************************************************************)
EXTENDS RealtimeBilling, BillingSessionProofs

\* The source that has been charged is the session's, one the preference
\* allows, and there is none before the session is open.
SourceInvAt(r) ==
  /\ pc[r] \in NotOpened => wCharge[r] = 0 /\ sCharge[r] = 0
  /\ pc[r] \notin {"idle", "tryWallet", "trySubscription", "rejected"} =>
       sess[r].funding # "none"
  /\ sess[r].funding # "wallet" => wCharge[r] = 0
  /\ sess[r].funding # "subscription" => sCharge[r] = 0
  /\ sess[r].funding = "wallet" \/ pc[r] = "tryWallet" => opt[r].pref # "subscription_only"
  /\ sess[r].funding = "subscription" \/ pc[r] = "trySubscription" => opt[r].pref # "wallet_only"

\* A goroutine has left its first point only if the session has been opened.
WorkerInvAt(r) ==
  \A g \in Goroutines : worker[r][g].at # "wait" => pc[r] \notin NotOpened

\* What each goroutine has passed to preConsumeUsage bounds the total, also the
\* one a goroutine is about to store.  The reader has passed on no token twice:
\* what it has billed and what it may still bill were reported or counted once.
\* Main passes on each counter at most once.
BilledInvAt(r) ==
  LET rd == worker[r]["reader"]
      mn == worker[r]["main"]
      b == billed[r]["reader"] + billed[r]["main"] IN
  /\ sumUsage[r] <= b
  /\ \A g \in Goroutines : worker[r][g].at = "store" => worker[r][g].sum + worker[r][g].quota <= b
  /\ billed[r]["reader"] <= reported[r] + counted[r]
  /\ rd.at \in {"wait", "load"} => billed[r]["reader"] + usage[r] + localUsage[r] <= reported[r] + counted[r]
  /\ rd.at = "wait" \/ (rd.of = "local" /\ rd.at # "stopped") => usage[r] = 0
  /\ usage[r] <= reported[r] /\ localUsage[r] <= counted[r]
  /\ mn.at = "wait" \/ (mn.at = "load" /\ mn.of = "usage") => billed[r]["main"] = 0
  /\ mn.of = "usage" \/ mn.at = "load" => billed[r]["main"] <= reported[r]
  /\ billed[r]["main"] <= reported[r] + counted[r]

SourceInv == \A r \in Requests : SourceInvAt(r)
BilledInv == \A r \in Requests : BilledInvAt(r)
WorkerInv == \A r \in Requests : WorkerInvAt(r)

\* The inductive invariant.
RealtimeInv == RealtimeTypeOK /\ SourceInv /\ WorkerInv /\ BilledInv

-----------------------------------------------------------------------------
(* Types                                                                      *)

\* Settling at any amount, not only at one of Quotas, keeps the types and
\* touches one request.
LEMMA SettleAny ==
  ASSUME TypeOK, NEW r \in Requests, NEW a \in Nat, Settle(r, a)
  PROVE  /\ TypeOK'
         /\ \A x \in Requests : x # r =>
              /\ pc'[x] = pc[x] /\ sess'[x] = sess[x] /\ opt'[x] = opt[x]
              /\ wCharge'[x] = wCharge[x] /\ sCharge'[x] = sCharge[x]
<1>1. sess \in [Requests -> Session] /\ sess[r] \in Session /\ sess[r].preConsumedQuota \in Nat
  BY LocalTypes DEF TypeOK
<1>2. /\ [sess[r] EXCEPT !.actual = a, !.settled = TRUE] \in Session
      /\ [sess[r] EXCEPT !.actual = a, !.fundingSettled = TRUE] \in Session
  BY <1>1 DEF Session
<1>3. sess' \in [Requests -> Session]
  BY <1>1, <1>2 DEF Settle, SetSession
<1>4. TypeOK'
  BY <1>1, <1>3
     DEF Settle, DecreaseUserQuota, PostConsumeUserSubscriptionDelta,
         NoFunding, NoToken, Goto, TypeOK, ControlPoints, Terminal
<1>5. ASSUME NEW x \in Requests, x # r
      PROVE  /\ pc'[x] = pc[x] /\ sess'[x] = sess[x] /\ opt'[x] = opt[x]
             /\ wCharge'[x] = wCharge[x] /\ sCharge'[x] = sCharge[x]
  BY <1>5 DEF Settle, TypeOK, Goto, SetSession, NoFunding, NoToken, DecreaseUserQuota,
              PostConsumeUserSubscriptionDelta
<1> QED
  BY <1>4, <1>5

\* Moving one goroutine leaves all others where they are.
LEMMA MoveEffect ==
  ASSUME RealtimeTypeOK, NEW r \in Requests, NEW g \in Goroutines,
         NEW w \in Worker, Move(r, g, w)
  PROVE  /\ worker' \in [Requests -> [Goroutines -> Worker]]
         /\ worker'[r][g] = w
         /\ \A h \in Goroutines : h # g => worker'[r][h] = worker[r][h]
         /\ \A x \in Requests : x # r => worker'[x] = worker[x]
<1> DEFINE ws == [worker[r] EXCEPT ![g] = w]
<1>2. worker[r] \in [Goroutines -> Worker]
  BY DEF RealtimeTypeOK
<1>3. /\ ws \in [Goroutines -> Worker]
      /\ ws[g] = w /\ \A h \in Goroutines : h # g => ws[h] = worker[r][h]
  BY <1>2
<1>4. worker' = [worker EXCEPT ![r] = ws]
  BY DEF Move, RealtimeTypeOK
<1> HIDE DEF ws
<1> QED
  BY <1>3, <1>4 DEF RealtimeTypeOK

\* So does a move that keeps the counter the goroutine is billing.
LEMMA GoOnEffect ==
  ASSUME RealtimeTypeOK, NEW r \in Requests, NEW g \in Goroutines,
         NEW where \in WorkerPoints, NEW q \in Nat, GoOn(r, g, where, q)
  PROVE  /\ worker' \in [Requests -> [Goroutines -> Worker]]
         /\ worker'[r][g].at = where /\ worker'[r][g].of = worker[r][g].of
         /\ \A h \in Goroutines : h # g => worker'[r][h] = worker[r][h]
         /\ \A x \in Requests : x # r => worker'[x] = worker[x]
<1> DEFINE w == [at |-> where, of |-> worker[r][g].of, quota |-> q, sum |-> 0]
<1>1. worker[r][g].of \in {"usage", "local"}
  BY DEF RealtimeTypeOK, Worker
<1>2. w \in Worker /\ w.at = where /\ w.of = worker[r][g].of
  BY <1>1 DEF Worker
<1>3. Move(r, g, w)
  BY DEF GoOn
<1> HIDE DEF w
<1> QED
  BY <1>2, <1>3, MoveEffect

\* And the call of preConsumeUsage.
LEMMA CallEffect ==
  ASSUME RealtimeTypeOK, NEW r \in Requests, NEW g \in Goroutines,
         NEW of \in {"usage", "local"}, Call(r, g, of)
  PROVE  /\ worker' \in [Requests -> [Goroutines -> Worker]]
         /\ worker'[r][g].at = "load" /\ worker'[r][g].of = of
         /\ \A h \in Goroutines : h # g => worker'[r][h] = worker[r][h]
         /\ \A x \in Requests : x # r => worker'[x] = worker[x]
<1> DEFINE w == [at |-> "load", of |-> of, quota |-> 0, sum |-> 0]
<1>2. w \in Worker /\ w.at = "load" /\ w.of = of
  BY DEF Worker, WorkerPoints
<1>3. Move(r, g, w)
  BY DEF Call
<1> HIDE DEF w
<1> QED
  BY <1>2, <1>3, MoveEffect

\* The steps of the session, as steps of BillingSession or a settlement at the
\* total of the usage.
SessionMove(r) == SessionSteps(r) \/ ConnectFailed(r) \/ PostWssConsumeQuota(r)

\* The steps of the connection and of its two goroutines.
TurnMove(r) ==
  \/ \E u \in Turns : ResponseDone(r, u) \/ CountEvent(r, u)
  \/ \E t \in Turns \cup {0} : ResponseDoneNoUsage(r, t)
  \/ \E g \in Goroutines : \/ LoadSum(r, g) \/ StoreSum(r, g)
                           \/ PreWssConsumeQuota(r, g) \/ PostConsumeFunding(r, g)
                           \/ PostConsumeToken(r, g)
  \/ ClearUsage(r) \/ Disconnect(r) \/ BillLocalUsage(r) \/ ReaderStops(r)

\* They leave the variables of the connection alone.
LEMMA SessionMoveCases ==
  ASSUME NEW r \in Requests, SessionMove(r), RealtimeTypeOK
  PROVE  /\ UNCHANGED rtVars /\ sumUsage[r] \in Nat
         /\ Step(r) \/ Settle(r, sumUsage[r])
  BY DEF SessionMove, SessionSteps, ConnectFailed, PostWssConsumeQuota, Step, Finish,
         RealtimeTypeOK

\* Every step of a goroutine keeps the types.
LEMMA TurnMoveTyped ==
  ASSUME RealtimeTypeOK, NEW r \in Requests, TurnMove(r)
  PROVE  RealtimeTypeOK'
<1>t. Turns \subseteq Nat /\ MaxTurns \in Nat
  BY TurnsAssumption
<1> "reader" \in Goroutines /\ "main" \in Goroutines
  BY DEF Goroutines
<1>0. /\ usage[r] \in Nat /\ localUsage[r] \in Nat /\ sumUsage[r] \in Nat
      /\ reported[r] \in Nat /\ counted[r] \in Nat
      /\ turns[r] \in 0..MaxTurns
      /\ \A g \in Goroutines : /\ worker[r][g].quota \in Nat /\ worker[r][g].sum \in Nat
                                /\ worker[r][g].of \in {"usage", "local"}
                                /\ billed[r][g] \in Nat
  BY DEF RealtimeTypeOK, Worker
<1> USE DEF WorkerPoints
<1>1. ASSUME NEW u \in Turns, ResponseDone(r, u) PROVE RealtimeTypeOK'
  <2>1. u \in Nat
    BY <1>t
  <2>2. worker' \in [Requests -> [Goroutines -> Worker]]
    BY <1>1, CallEffect DEF ResponseDone
  <2>3. /\ usage' \in [Requests -> Nat] /\ reported' \in [Requests -> Nat]
        /\ turns' \in [Requests -> 0..MaxTurns]
    BY <1>0, <1>1, <1>t, <2>1 DEF ResponseDone, Reading, RealtimeTypeOK
  <2> QED
    BY <1>1, <2>2, <2>3 DEF ResponseDone, vars, TypeOK, RealtimeTypeOK
<1>2. ASSUME NEW t \in Turns \cup {0}, CountEvent(r, t) \/ ResponseDoneNoUsage(r, t)
      PROVE RealtimeTypeOK'
  <2>1. t \in Nat
    BY <1>t
  <2>2. worker' \in [Requests -> [Goroutines -> Worker]]
    BY <1>2, CallEffect DEF CountEvent, ResponseDoneNoUsage, RealtimeTypeOK
  <2>3. localUsage' \in [Requests -> Nat]
    BY <1>0, <1>2, <2>1 DEF CountEvent, ResponseDoneNoUsage, Added, RealtimeTypeOK
  <2>4. counted' \in [Requests -> Nat] /\ turns' \in [Requests -> 0..MaxTurns]
    <3>1. /\ counted' = [counted EXCEPT ![r] = counted[r] + t]
          /\ turns' = [turns EXCEPT ![r] = turns[r] + 1] /\ turns[r] < MaxTurns
      BY <1>2 DEF CountEvent, ResponseDoneNoUsage, Reading
    <3>2. counted[r] + t \in Nat /\ turns[r] + 1 \in 0..MaxTurns
      BY <1>0, <1>t, <2>1, <3>1
    <3> QED
      BY <3>1, <3>2 DEF RealtimeTypeOK
  <2> QED
    BY <1>2, <2>2, <2>3, <2>4 DEF CountEvent, ResponseDoneNoUsage, vars, TypeOK, RealtimeTypeOK
<1>3. ASSUME NEW g \in Goroutines, LoadSum(r, g) PROVE RealtimeTypeOK'
  <2> DEFINE q == Counter(r, worker[r][g].of)
             w == [at |-> "store", of |-> worker[r][g].of, quota |-> q, sum |-> sumUsage[r]]
  <2>1. q \in Nat
    BY <1>0 DEF Counter
  <2>2. w \in Worker
    BY <1>0, <2>1 DEF Worker
  <2>3. Move(r, g, w) /\ billed' = [billed EXCEPT ![r][g] = @ + q]
    BY <1>3 DEF LoadSum
  <2> HIDE DEF q, w
  <2>4. worker' \in [Requests -> [Goroutines -> Worker]]
    BY <2>2, <2>3, MoveEffect
  <2>5. billed' \in [Requests -> [Goroutines -> Nat]]
    BY <1>0, <2>1, <2>3 DEF RealtimeTypeOK
  <2> QED
    BY <1>3, <2>4, <2>5 DEF LoadSum, vars, TypeOK, RealtimeTypeOK
<1>4. ASSUME NEW g \in Goroutines, StoreSum(r, g) PROVE RealtimeTypeOK'
  <2>1. worker' \in [Requests -> [Goroutines -> Worker]]
    BY <1>0, <1>4, GoOnEffect DEF StoreSum
  <2>2. sumUsage' \in [Requests -> Nat]
    BY <1>0, <1>4 DEF StoreSum, RealtimeTypeOK
  <2> QED
    BY <1>4, <2>1, <2>2 DEF StoreSum, vars, TypeOK, RealtimeTypeOK
<1>5. ASSUME NEW g \in Goroutines, PreWssConsumeQuota(r, g) PROVE RealtimeTypeOK'
  <2>1. worker' \in [Requests -> [Goroutines -> Worker]]
    BY <1>0, <1>5, GoOnEffect DEF PreWssConsumeQuota
  <2> QED
    BY <1>5, <2>1 DEF PreWssConsumeQuota, vars, TypeOK, RealtimeTypeOK
<1>6. ASSUME NEW g \in Goroutines, PostConsumeFunding(r, g) PROVE RealtimeTypeOK'
  <2>1. worker' \in [Requests -> [Goroutines -> Worker]]
    BY <1>0, <1>6, GoOnEffect DEF PostConsumeFunding
  <2>2. /\ wallet' \in Int /\ wCharge' \in [Requests -> Int]
        /\ subUsed' \in Nat /\ sCharge' \in [Requests -> Int]
    BY <1>0, <1>6 DEF PostConsumeFunding, DecreaseUserQuota, PostConsumeUserSubscriptionDelta,
        NoFunding, TypeOK, RealtimeTypeOK
  <2> QED
    BY <1>6, <2>1, <2>2 DEF PostConsumeFunding, NoToken, TypeOK, RealtimeTypeOK
<1>7. ASSUME NEW g \in Goroutines, PostConsumeToken(r, g) PROVE RealtimeTypeOK'
  <2>1. worker' \in [Requests -> [Goroutines -> Worker]]
    BY <1>0, <1>7, GoOnEffect DEF PostConsumeToken
  <2>2. token' \in Int /\ tCharge' \in [Requests -> Int]
    BY <1>0, <1>7 DEF PostConsumeToken, DecreaseTokenQuota, NoToken, TypeOK, RealtimeTypeOK
  <2> QED
    BY <1>7, <2>1, <2>2 DEF PostConsumeToken, NoFunding, TypeOK, RealtimeTypeOK
<1>8. CASE ClearUsage(r) \/ ReaderStops(r)
  <2>1. worker' \in [Requests -> [Goroutines -> Worker]]
    BY <1>8, GoOnEffect DEF ClearUsage, ReaderStops
  <2>2. usage' \in [Requests -> Nat] /\ localUsage' \in [Requests -> Nat]
    <3>1. /\ usage' = [usage EXCEPT ![r] = 0] \/ usage' = usage
          /\ localUsage' = [localUsage EXCEPT ![r] = 0] \/ localUsage' = localUsage
      BY <1>8 DEF ClearUsage, ReaderStops
    <3> QED
      BY <3>1 DEF RealtimeTypeOK
  <2> QED
    BY <1>8, <2>1, <2>2 DEF ClearUsage, ReaderStops, vars, TypeOK, RealtimeTypeOK
<1>9. CASE Disconnect(r)
  <2>1. worker' \in [Requests -> [Goroutines -> Worker]]
    BY <1>9, CallEffect, GoOnEffect DEF Disconnect
  <2> QED
    BY <1>9, <2>1 DEF Disconnect, vars, TypeOK, RealtimeTypeOK
<1>10. CASE BillLocalUsage(r)
  <2>1. [at |-> "done", of |-> "local", quota |-> 0, sum |-> 0] \in Worker
    BY DEF Worker
  <2>2. worker' \in [Requests -> [Goroutines -> Worker]]
    BY <1>10, <2>1, CallEffect, MoveEffect DEF BillLocalUsage
  <2> QED
    BY <1>10, <2>2 DEF BillLocalUsage, vars, TypeOK, RealtimeTypeOK
<1> QED
  BY <1>1, <1>2, <1>3, <1>4, <1>5, <1>6, <1>7, <1>8, <1>9, <1>10 DEF TurnMove

\* Every step of the session and of its goroutines keeps the types.
LEMMA RealtimeTypeStep ==
  ASSUME RealtimeTypeOK, [RealtimeNext]_allVars
  PROVE  RealtimeTypeOK'
<1>1. ASSUME NEW r \in Requests, SessionMove(r) PROVE RealtimeTypeOK'
  <2>1. TypeOK'
    <3>1. CASE Step(r)
      BY <3>1, TypeStep DEF Next, RealtimeTypeOK
    <3>2. CASE Settle(r, sumUsage[r])
      BY <1>1, <3>2, SessionMoveCases, SettleAny DEF RealtimeTypeOK
    <3> QED
      BY <1>1, <3>1, <3>2, SessionMoveCases
  <2> QED
    BY <1>1, <2>1, SessionMoveCases DEF rtVars, RealtimeTypeOK
<1>2. CASE RealtimeFinished \/ UNCHANGED allVars
  BY <1>2 DEF RealtimeFinished, allVars, TypeOK, RealtimeTypeOK
<1> QED
  BY <1>1, <1>2, TurnMoveTyped DEF RealtimeNext, SessionMove, TurnMove

-----------------------------------------------------------------------------
(* The source of the charges                                                  *)

\* A session step leaves the source of the request one its preference allows,
\* and never returns to a point before the session was opened.
LEMMA SessionMoveSource ==
  ASSUME RealtimeTypeOK, NEW r \in Requests, SessionMove(r), SourceInvAt(r)
  PROVE  /\ SourceInvAt(r)'
         /\ pc'[r] \in NotOpened => pc[r] \in NotOpened
<1>1. /\ TypeOK /\ sumUsage[r] \in Nat /\ EffectiveQuota(r) \in Nat
      /\ sess[r].funding \in {"none", "wallet", "subscription"}
      /\ wCharge[r] \in Int /\ sCharge[r] \in Int
  BY LocalTypes DEF RealtimeTypeOK, TypeOK, Session
<1> USE DEF SourceInvAt, NotOpened, SameSource, SameFunding, SameCharges
<1>2. CASE PreConsume(r)
  <2>1. CASE NewBillingSession(r)
    BY <1>1, <2>1, NewBillingSessionEffect
  <2>2. CASE TryWallet(r)
    BY <1>1, <2>2, TryWalletEffect
  <2>3. CASE TrySubscription(r)
    BY <1>1, <2>3, TrySubscriptionEffect
  <2>4. CASE CheckToken(r)
    BY <1>1, <2>4, CheckTokenEffect
  <2>5. CASE PreConsumeTokenQuota(r)
    BY <1>1, <2>5, PreConsumeTokenQuotaEffect
  <2>6. CASE PreConsumeWallet(r)
    BY <1>1, <2>6, PreConsumeWalletEffect
  <2>7. CASE PreConsumeUserSubscription(r)
    BY <1>1, <2>7, PreConsumeUserSubscriptionEffect
  <2>8. CASE RollbackToken(r)
    BY <1>1, <2>8, RollbackTokenEffect
  <2> QED
    BY <1>2, <2>1, <2>2, <2>3, <2>4, <2>5, <2>6, <2>7, <2>8 DEF PreConsume
<1>3. CASE Settle(r, sumUsage[r])
  BY <1>1, <1>3, SettleEffect
<1>4. CASE SettleToken(r)
  BY <1>1, <1>4, SettleTokenEffect
<1>5. CASE Refund(r)
  BY <1>1, <1>5, RefundEffect
<1>6. CASE RefundWallet(r)
  BY <1>1, <1>6, RefundWalletEffect
<1>7. CASE RefundSubscription(r)
  BY <1>1, <1>7, RefundSubscriptionEffect
<1>8. CASE MarkRefunded(r)
  BY <1>1, <1>8, MarkRefundedEffect
<1>9. CASE RefundToken(r)
  BY <1>1, <1>9, RefundTokenEffect
<1> QED
  BY <1>2, <1>3, <1>4, <1>5, <1>6, <1>7, <1>8, <1>9
     DEF SessionMove, SessionSteps, ConnectFailed, PostWssConsumeQuota

\* A session step touches no other request.
LEMMA SessionMoveOthers ==
  ASSUME RealtimeTypeOK, NEW r \in Requests, SessionMove(r), NEW x \in Requests, x # r
  PROVE  /\ pc'[x] = pc[x] /\ sess'[x] = sess[x] /\ opt'[x] = opt[x]
         /\ wCharge'[x] = wCharge[x] /\ sCharge'[x] = sCharge[x]
<1>1. TypeOK
  BY DEF RealtimeTypeOK
<1>2. CASE Step(r)
  BY <1>1, <1>2, OtherRequests
<1>3. CASE Settle(r, sumUsage[r])
  BY <1>1, <1>3, SessionMoveCases, SettleAny
<1> QED
  BY <1>2, <1>3, SessionMoveCases

\* A turn charges the source of the session, and only a session that is open
\* has turns.
LEMMA TurnMoveSource ==
  ASSUME RealtimeTypeOK, WorkerInv, NEW r \in Requests, TurnMove(r)
  PROVE  /\ UNCHANGED <<pc, sess, opt>>
         /\ \A x \in Requests : x # r =>
              /\ wCharge'[x] = wCharge[x] /\ sCharge'[x] = sCharge[x]
              /\ worker'[x] = worker[x]
         /\ wCharge'[r] # wCharge[r] => sess[r].funding = "wallet" /\ pc[r] \notin NotOpened
         /\ sCharge'[r] # sCharge[r] => sess[r].funding = "subscription" /\ pc[r] \notin NotOpened
         /\ \A g \in Goroutines : worker'[r][g].at # "wait" => pc[r] \notin NotOpened
<1> "reader" \in Goroutines /\ "main" \in Goroutines
  BY DEF Goroutines
<1>0. \A g \in Goroutines : worker[r][g].at # "wait" => pc[r] \notin NotOpened
  BY DEF WorkerInv, WorkerInvAt
<1>1. ASSUME NEW g \in Goroutines, NEW w, Move(r, g, w)
      PROVE  /\ \A x \in Requests : x # r => worker'[x] = worker[x]
             /\ \A h \in Goroutines : h # g => worker'[r][h] = worker[r][h]
  <2>1. worker \in [Requests -> [Goroutines -> Worker]]
    BY DEF RealtimeTypeOK
  <2>2. worker' = [worker EXCEPT ![r] = [worker[r] EXCEPT ![g] = w]]
    BY <1>1, <2>1 DEF Move
  <2>3. worker'[r] = [worker[r] EXCEPT ![g] = w]
    BY <2>1, <2>2
  <2> QED
    BY <2>1, <2>2, <2>3
<1> DEFINE Others == \A x \in Requests : x # r => worker'[x] = worker[x]
<1>2. ASSUME NEW t \in Turns \cup {0},
             ResponseDone(r, t) \/ CountEvent(r, t) \/ ResponseDoneNoUsage(r, t)
      PROVE  UNCHANGED vars /\ pc[r] \notin NotOpened /\ Others
  <2>1. UNCHANGED vars /\ pc[r] \notin NotOpened
    BY <1>2 DEF ResponseDone, CountEvent, ResponseDoneNoUsage, Reading, NotOpened
  <2>2. Others
    BY <1>1, <1>2 DEF ResponseDone, CountEvent, ResponseDoneNoUsage, Call
  <2> QED
    BY <2>1, <2>2
<1>3. ASSUME NEW g \in Goroutines,
             LoadSum(r, g) \/ StoreSum(r, g) \/ PreWssConsumeQuota(r, g)
      PROVE  UNCHANGED vars /\ pc[r] \notin NotOpened /\ Others
  <2>1. UNCHANGED vars /\ pc[r] \notin NotOpened
    BY <1>0, <1>3 DEF LoadSum, StoreSum, PreWssConsumeQuota
  <2>2. Others
    BY <1>1, <1>3 DEF LoadSum, StoreSum, PreWssConsumeQuota, GoOn
  <2> QED
    BY <2>1, <2>2
<1>4. CASE ClearUsage(r) \/ ReaderStops(r) \/ BillLocalUsage(r)
  <2>1. UNCHANGED vars /\ pc[r] \notin NotOpened
    BY <1>0, <1>4 DEF ClearUsage, ReaderStops, BillLocalUsage
  <2>2. Others
    BY <1>1, <1>4 DEF ClearUsage, ReaderStops, BillLocalUsage, GoOn, Call
  <2> QED
    BY <2>1, <2>2 DEF vars
<1>5. CASE Disconnect(r)
  <2>1. UNCHANGED vars /\ pc[r] \notin NotOpened
    BY <1>5 DEF Disconnect, Connected, NotOpened
  <2>2. Others
    BY <1>1, <1>5 DEF Disconnect, GoOn, Call
  <2> QED
    BY <2>1, <2>2 DEF vars
<1>6. ASSUME NEW g \in Goroutines, PostConsumeToken(r, g)
      PROVE  /\ UNCHANGED <<pc, sess, opt, wCharge, sCharge>> /\ pc[r] \notin NotOpened
             /\ Others
  BY <1>0, <1>1, <1>6 DEF PostConsumeToken, NoFunding, GoOn
<1>7. ASSUME NEW g \in Goroutines, PostConsumeFunding(r, g)
      PROVE  /\ UNCHANGED <<pc, sess, opt>> /\ pc[r] \notin NotOpened
             /\ \A x \in Requests : x # r =>
                  /\ wCharge'[x] = wCharge[x] /\ sCharge'[x] = sCharge[x]
             /\ Others
             /\ wCharge'[r] # wCharge[r] => sess[r].funding = "wallet"
             /\ sCharge'[r] # sCharge[r] => sess[r].funding = "subscription"
  <2>1. pc[r] \notin NotOpened /\ UNCHANGED <<pc, sess, opt>>
    BY <1>0, <1>7 DEF PostConsumeFunding
  <2>2. Others
    BY <1>1, <1>7 DEF PostConsumeFunding, GoOn
  <2>3. /\ wCharge \in [Requests -> Int] /\ sCharge \in [Requests -> Int]
    BY DEF RealtimeTypeOK, TypeOK
  <2>4. \/ sess[r].funding = "wallet" /\ DecreaseUserQuota(r, worker[r][g].quota)
        \/ /\ sess[r].funding = "subscription"
           /\ PostConsumeUserSubscriptionDelta(r, worker[r][g].quota)
        \/ NoFunding
    BY <1>7 DEF PostConsumeFunding
  <2> HIDE DEF Others
  <2> QED
    BY <2>1, <2>2, <2>3, <2>4 DEF DecreaseUserQuota, PostConsumeUserSubscriptionDelta, NoFunding
<1> QED
  BY <1>2, <1>3, <1>4, <1>5, <1>6, <1>7 DEF TurnMove, vars

\* SourceInv and WorkerInv are inductive together.
LEMMA SourceStep ==
  ASSUME RealtimeTypeOK, SourceInv, WorkerInv, [RealtimeNext]_allVars
  PROVE  SourceInv' /\ WorkerInv'
<1>1. ASSUME NEW r \in Requests, SessionMove(r) PROVE SourceInv' /\ WorkerInv'
  <2>1. ASSUME NEW x \in Requests PROVE SourceInvAt(x)'
    <3>1. CASE x = r
      BY <1>1, <3>1, SessionMoveSource DEF SourceInv
    <3>2. CASE x # r
      BY <1>1, <3>2, SessionMoveOthers DEF SourceInv, SourceInvAt
    <3> QED
      BY <3>1, <3>2
  <2>2. ASSUME NEW x \in Requests PROVE WorkerInvAt(x)'
    <3>1. worker'[x] = worker[x]
      BY <1>1, SessionMoveCases DEF rtVars
    <3>2. pc'[x] \in NotOpened => pc[x] \in NotOpened
      BY <1>1, SessionMoveSource, SessionMoveOthers DEF SourceInv
    <3> QED
      BY <3>1, <3>2 DEF WorkerInv, WorkerInvAt
  <2> QED
    BY <2>1, <2>2 DEF SourceInv, WorkerInv
<1>2. ASSUME NEW r \in Requests, TurnMove(r) PROVE SourceInv' /\ WorkerInv'
  <2>1. ASSUME NEW x \in Requests PROVE SourceInvAt(x)'
    BY <1>2, TurnMoveSource DEF SourceInv, SourceInvAt
  <2>2. ASSUME NEW x \in Requests PROVE WorkerInvAt(x)'
    BY <1>2, TurnMoveSource DEF WorkerInv, WorkerInvAt
  <2> QED
    BY <2>1, <2>2 DEF SourceInv, WorkerInv
<1>3. CASE RealtimeFinished \/ UNCHANGED allVars
  BY <1>3 DEF RealtimeFinished, allVars, SourceInv, SourceInvAt, WorkerInv, WorkerInvAt
<1> QED
  BY <1>1, <1>2, <1>3 DEF RealtimeNext, SessionMove, TurnMove

-----------------------------------------------------------------------------
(* The total of the usage                                                     *)

\* The part of BilledInvAt that reads the variables of the connection only.
LEMMA BilledFrame ==
  ASSUME NEW x \in Requests, BilledInvAt(x),
         /\ usage'[x] = usage[x] /\ localUsage'[x] = localUsage[x]
         /\ sumUsage'[x] = sumUsage[x] /\ reported'[x] = reported[x]
         /\ counted'[x] = counted[x] /\ billed'[x] = billed[x]
         /\ worker'[x] = worker[x]
  PROVE  BilledInvAt(x)'
  BY DEF BilledInvAt

\* A step of a goroutine touches the counters of its own connection only.
LEMMA TurnMoveOthers ==
  ASSUME RealtimeTypeOK, WorkerInv, NEW r \in Requests, TurnMove(r), NEW x \in Requests, x # r
  PROVE  /\ usage'[x] = usage[x] /\ localUsage'[x] = localUsage[x]
         /\ sumUsage'[x] = sumUsage[x] /\ reported'[x] = reported[x]
         /\ counted'[x] = counted[x] /\ billed'[x] = billed[x]
         /\ worker'[x] = worker[x]
<1>1. worker'[x] = worker[x]
  BY TurnMoveSource
<1>2. /\ usage'[x] = usage[x] /\ localUsage'[x] = localUsage[x]
      /\ sumUsage'[x] = sumUsage[x] /\ reported'[x] = reported[x]
      /\ counted'[x] = counted[x] /\ billed'[x] = billed[x]
  BY DEF RealtimeTypeOK, TurnMove, ResponseDone, CountEvent, ResponseDoneNoUsage, LoadSum, StoreSum,
         PreWssConsumeQuota, PostConsumeFunding, PostConsumeToken, ClearUsage, Disconnect,
         BillLocalUsage, ReaderStops
<1> QED
  BY <1>1, <1>2

\* Every step of a goroutine keeps the bounds on what the two have billed.
LEMMA BilledMove ==
  ASSUME RealtimeTypeOK, NEW r \in Requests, BilledInvAt(r), TurnMove(r)
  PROVE  BilledInvAt(r)'
<1> "reader" \in Goroutines /\ "main" \in Goroutines
    /\ \A g \in Goroutines : g = "reader" \/ g = "main"
  BY DEF Goroutines
<1>t. Turns \subseteq Nat
  BY TurnsAssumption
<1>0. /\ usage[r] \in Nat /\ localUsage[r] \in Nat /\ sumUsage[r] \in Nat
      /\ reported[r] \in Nat /\ counted[r] \in Nat
      /\ billed[r]["reader"] \in Nat /\ billed[r]["main"] \in Nat
      /\ \A g \in Goroutines : /\ worker[r][g].quota \in Nat /\ worker[r][g].sum \in Nat
                                /\ worker[r][g].of \in {"usage", "local"}
                                /\ worker[r][g].at \in WorkerPoints
  BY DEF RealtimeTypeOK, Worker
<1>f. /\ usage \in [Requests -> Nat] /\ localUsage \in [Requests -> Nat]
      /\ sumUsage \in [Requests -> Nat] /\ reported \in [Requests -> Nat]
      /\ counted \in [Requests -> Nat] /\ billed \in [Requests -> [Goroutines -> Nat]]
  BY DEF RealtimeTypeOK
<1> USE DEF WorkerPoints
<1>1. ASSUME NEW u \in Turns, ResponseDone(r, u) PROVE BilledInvAt(r)'
  <2>1. /\ u \in Nat /\ usage'[r] = usage[r] + u /\ reported'[r] = reported[r] + u
        /\ localUsage'[r] = localUsage[r] /\ counted'[r] = counted[r]
        /\ sumUsage'[r] = sumUsage[r] /\ billed'[r] = billed[r]
        /\ worker[r]["reader"].at = "wait"
    BY <1>1, <1>t, <1>f DEF ResponseDone, Reading
  <2>2. /\ worker'[r]["reader"].at = "load" /\ worker'[r]["reader"].of = "usage"
        /\ worker'[r]["main"] = worker[r]["main"]
    BY <1>1, CallEffect DEF ResponseDone
  <2> QED
    BY <1>0, <2>1, <2>2 DEF BilledInvAt
<1>2. ASSUME NEW t \in Turns \cup {0}, CountEvent(r, t) PROVE BilledInvAt(r)'
  <2>1. /\ t \in Nat /\ usage'[r] = usage[r] /\ reported'[r] = reported[r]
        /\ localUsage'[r] \in Added(r, t) /\ counted'[r] = counted[r] + t
        /\ sumUsage'[r] = sumUsage[r] /\ billed'[r] = billed[r] /\ worker'[r] = worker[r]
    <3>1. PICK v \in Added(r, t) : localUsage' = [localUsage EXCEPT ![r] = v]
      BY <1>2 DEF CountEvent
    <3>2. counted' = [counted EXCEPT ![r] = counted[r] + t]
      BY <1>2 DEF CountEvent
    <3>3. localUsage'[r] = v /\ counted'[r] = counted[r] + t
      BY <1>f, <3>1, <3>2
    <3>4. /\ usage' = usage /\ reported' = reported /\ sumUsage' = sumUsage
          /\ billed' = billed /\ worker' = worker
      BY <1>2 DEF CountEvent
    <3>5. t \in Nat
      BY <1>t
    <3> QED
      BY <3>1, <3>3, <3>4, <3>5
  <2>2. localUsage'[r] \in Nat /\ localUsage'[r] <= localUsage[r] + t
    BY <1>0, <2>1 DEF Added
  <2> QED
    BY <1>0, <2>1, <2>2 DEF BilledInvAt
<1>3. ASSUME NEW t \in Turns \cup {0}, ResponseDoneNoUsage(r, t) PROVE BilledInvAt(r)'
  <2>1. /\ t \in Nat /\ usage'[r] = usage[r] /\ reported'[r] = reported[r]
        /\ localUsage'[r] \in Added(r, t) /\ counted'[r] = counted[r] + t
        /\ sumUsage'[r] = sumUsage[r] /\ billed'[r] = billed[r]
        /\ worker[r]["reader"].at = "wait"
    <3>1. PICK v \in Added(r, t) : localUsage' = [localUsage EXCEPT ![r] = v]
      BY <1>3 DEF ResponseDoneNoUsage
    <3>2. counted' = [counted EXCEPT ![r] = counted[r] + t]
      BY <1>3 DEF ResponseDoneNoUsage
    <3>3. localUsage'[r] = v /\ counted'[r] = counted[r] + t
      BY <1>f, <3>1, <3>2
    <3>4. /\ usage' = usage /\ reported' = reported /\ sumUsage' = sumUsage
          /\ billed' = billed /\ worker[r]["reader"].at = "wait"
      BY <1>3 DEF ResponseDoneNoUsage, Reading
    <3>5. t \in Nat
      BY <1>t
    <3> QED
      BY <3>1, <3>3, <3>4, <3>5
  <2>2. localUsage'[r] \in Nat /\ localUsage'[r] <= localUsage[r] + t
    BY <1>0, <2>1 DEF Added
  <2>3. /\ worker'[r]["reader"].at = "load" /\ worker'[r]["reader"].of = "local"
        /\ worker'[r]["main"] = worker[r]["main"]
    BY <1>3, CallEffect DEF ResponseDoneNoUsage
  <2> QED
    BY <1>0, <2>1, <2>2, <2>3 DEF BilledInvAt
<1>4. ASSUME NEW g \in Goroutines, LoadSum(r, g) PROVE BilledInvAt(r)'
  <2> DEFINE q == Counter(r, worker[r][g].of)
             w == [at |-> "store", of |-> worker[r][g].of, quota |-> q, sum |-> sumUsage[r]]
  <2>1. /\ q \in Nat
        /\ worker[r][g].of = "usage" => q = usage[r]
        /\ worker[r][g].of = "local" => q = localUsage[r]
    BY <1>0 DEF Counter
  <2>2. /\ w \in Worker /\ w.at = "store" /\ w.of = worker[r][g].of /\ w.quota = q
        /\ w.sum = sumUsage[r]
    BY <1>0, <2>1 DEF Worker
  <2>3. /\ Move(r, g, w) /\ billed' = [billed EXCEPT ![r][g] = @ + q]
        /\ worker[r][g].at = "load"
        /\ usage' = usage /\ reported' = reported /\ localUsage' = localUsage
        /\ counted' = counted /\ sumUsage' = sumUsage
    BY <1>4 DEF LoadSum
  <2> HIDE DEF q, w
  <2>4. /\ worker'[r][g] = w
        /\ \A h \in Goroutines : h # g => worker'[r][h] = worker[r][h]
    BY <2>2, <2>3, MoveEffect
  <2>5. /\ billed'[r][g] = billed[r][g] + q
        /\ \A h \in Goroutines : h # g => billed'[r][h] = billed[r][h]
    BY <1>f, <2>3
  <2>6. CASE g = "reader"
    BY <1>0, <2>1, <2>2, <2>3, <2>4, <2>5, <2>6 DEF BilledInvAt
  <2>7. CASE g = "main"
    <3>1. /\ billed'[r]["main"] = billed[r]["main"] + q
          /\ billed'[r]["reader"] = billed[r]["reader"]
          /\ worker'[r]["main"] = w /\ worker'[r]["reader"] = worker[r]["reader"]
      BY <2>4, <2>5, <2>7
    <3>2. /\ billed'[r]["main"] <= reported[r] + counted[r]
          /\ w.of = "usage" => billed'[r]["main"] <= reported[r]
      BY <1>0, <2>1, <2>2, <2>3, <2>7, <3>1 DEF BilledInvAt
    <3> QED
      BY <1>0, <2>1, <2>2, <2>3, <3>1, <3>2 DEF BilledInvAt
  <2> QED
    BY <2>6, <2>7
<1>5. ASSUME NEW g \in Goroutines, StoreSum(r, g) PROVE BilledInvAt(r)'
  <2>1. /\ worker[r][g].at = "store"
        /\ sumUsage'[r] = worker[r][g].sum + worker[r][g].quota
        /\ usage' = usage /\ reported' = reported /\ localUsage' = localUsage
        /\ counted' = counted /\ billed' = billed
    BY <1>5, <1>f DEF StoreSum
  <2>2. /\ worker'[r][g].at = "check" /\ worker'[r][g].of = worker[r][g].of
        /\ \A h \in Goroutines : h # g => worker'[r][h] = worker[r][h]
    BY <1>0, <1>5, GoOnEffect DEF StoreSum
  <2>3. CASE g = "reader"
    BY <1>0, <2>1, <2>2, <2>3 DEF BilledInvAt
  <2>4. CASE g = "main"
    BY <1>0, <2>1, <2>2, <2>4 DEF BilledInvAt
  <2> QED
    BY <2>3, <2>4
<1>6. ASSUME NEW g \in Goroutines,
             \/ PreWssConsumeQuota(r, g) \/ PostConsumeFunding(r, g) \/ PostConsumeToken(r, g)
      PROVE  BilledInvAt(r)'
  <2>1. /\ worker[r][g].at \in {"check", "funding", "token"}
        /\ sumUsage' = sumUsage
        /\ usage' = usage /\ reported' = reported /\ localUsage' = localUsage
        /\ counted' = counted /\ billed' = billed
    BY <1>6 DEF PreWssConsumeQuota, PostConsumeFunding, PostConsumeToken
  <2>2. PICK where \in {"funding", "token", "done", "stopped"}, q \in Nat : GoOn(r, g, where, q)
    BY <1>0, <1>6 DEF PreWssConsumeQuota, PostConsumeFunding, PostConsumeToken
  <2>3. /\ worker'[r][g].at = where /\ worker'[r][g].of = worker[r][g].of
        /\ \A h \in Goroutines : h # g => worker'[r][h] = worker[r][h]
    BY <2>2, GoOnEffect
  <2>4. CASE g = "reader"
    BY <1>0, <2>1, <2>3, <2>4 DEF BilledInvAt
  <2>5. CASE g = "main"
    BY <1>0, <2>1, <2>3, <2>5 DEF BilledInvAt
  <2> QED
    BY <2>4, <2>5
<1>7. CASE ClearUsage(r)
  <2>1. /\ worker[r]["reader"].at = "done" /\ localUsage'[r] = 0
        /\ IF worker[r]["reader"].of = "usage" THEN usage'[r] = 0 ELSE usage'[r] = usage[r]
        /\ reported' = reported /\ counted' = counted /\ billed' = billed
        /\ sumUsage' = sumUsage
    BY <1>7, <1>f DEF ClearUsage
  <2>2. /\ worker'[r]["reader"].at = "wait"
        /\ worker'[r]["main"] = worker[r]["main"]
    BY <1>7, GoOnEffect DEF ClearUsage
  <2>3. usage'[r] = 0
    BY <1>0, <2>1 DEF BilledInvAt
  <2> QED
    BY <1>0, <2>1, <2>2, <2>3 DEF BilledInvAt
<1>8. CASE ReaderStops(r)
  <2>1. /\ reported' = reported /\ counted' = counted /\ billed' = billed
        /\ sumUsage' = sumUsage /\ usage' = usage /\ localUsage' = localUsage
    BY <1>8 DEF ReaderStops
  <2>2. /\ worker'[r]["reader"].at = "stopped"
        /\ worker'[r]["main"] = worker[r]["main"]
    BY <1>8, GoOnEffect DEF ReaderStops
  <2> QED
    BY <1>0, <2>1, <2>2 DEF BilledInvAt
<1>9. CASE Disconnect(r)
  <2>1. /\ reported' = reported /\ counted' = counted /\ billed' = billed
        /\ sumUsage' = sumUsage /\ usage' = usage /\ localUsage' = localUsage
        /\ worker[r]["main"].at = "wait"
    BY <1>9 DEF Disconnect, Connected
  <2>2. /\ \/ worker'[r]["main"].at = "load" /\ worker'[r]["main"].of = "usage"
           \/ worker'[r]["main"].at = "done"
        /\ worker'[r]["reader"] = worker[r]["reader"]
    BY <1>9, CallEffect, GoOnEffect DEF Disconnect
  <2> QED
    BY <1>0, <2>1, <2>2 DEF BilledInvAt
<1>10. CASE BillLocalUsage(r)
  <2>1. /\ reported' = reported /\ counted' = counted /\ billed' = billed
        /\ sumUsage' = sumUsage /\ usage' = usage /\ localUsage' = localUsage
        /\ worker[r]["main"].at # "wait" /\ worker[r]["main"].of = "usage"
    BY <1>10 DEF BillLocalUsage
  <2>2. [at |-> "done", of |-> "local", quota |-> 0, sum |-> 0] \in Worker
    BY DEF Worker
  <2>3. /\ worker'[r]["main"].at \in {"load", "done"} /\ worker'[r]["main"].of = "local"
        /\ worker'[r]["reader"] = worker[r]["reader"]
    BY <1>10, <2>2, CallEffect, MoveEffect DEF BillLocalUsage
  <2> QED
    BY <1>0, <2>1, <2>3 DEF BilledInvAt
<1> QED
  BY <1>1, <1>2, <1>3, <1>4, <1>5, <1>6, <1>7, <1>8, <1>9, <1>10 DEF TurnMove

\* The bounds are kept by every step.
LEMMA BilledStep ==
  ASSUME RealtimeTypeOK, WorkerInv, BilledInv, [RealtimeNext]_allVars
  PROVE  BilledInv'
<1>1. ASSUME NEW r \in Requests, TurnMove(r), NEW x \in Requests PROVE BilledInvAt(x)'
  <2>1. CASE x = r
    BY <1>1, <2>1, BilledMove DEF BilledInv
  <2>2. CASE x # r
    BY <1>1, <2>2, TurnMoveOthers, BilledFrame DEF BilledInv
  <2> QED
    BY <2>1, <2>2
<1>2. ASSUME UNCHANGED rtVars, NEW x \in Requests PROVE BilledInvAt(x)'
  BY <1>2, BilledFrame DEF BilledInv, rtVars
<1>3. ASSUME NEW r \in Requests, SessionMove(r) PROVE UNCHANGED rtVars
  BY <1>3, SessionMoveCases
<1>4. RealtimeFinished \/ UNCHANGED allVars => UNCHANGED rtVars
  BY DEF RealtimeFinished, allVars, rtVars
<1> QED
  BY <1>1, <1>2, <1>3, <1>4 DEF RealtimeNext, SessionMove, TurnMove, BilledInv

-----------------------------------------------------------------------------
(* Theorems                                                                   *)

\* The inductive invariant holds of every behaviour.
LEMMA RealtimeInductive == RealtimeSpec => []RealtimeInv
<1>1. RealtimeInit => RealtimeInv
  <2> SUFFICES ASSUME RealtimeInit PROVE RealtimeInv
    OBVIOUS
  <2>1. TypeOK
    BY AccountsAssumption
       DEF RealtimeInit, Init, TypeOK, Session, NoSession, ControlPoints, Terminal
  <2>2. RealtimeTypeOK
    BY <2>1, TurnsAssumption DEF RealtimeInit, RealtimeTypeOK, WorkerPoints, Worker
  <2>3. SourceInv
    BY DEF RealtimeInit, Init, SourceInv, SourceInvAt, NoSession
  <2>4. WorkerInv
    BY DEF RealtimeInit, WorkerInv, WorkerInvAt
  <2>5. BilledInv
    <3>1. ASSUME NEW r \in Requests PROVE BilledInvAt(r)
      <4>1. /\ sumUsage[r] = 0 /\ reported[r] = 0 /\ counted[r] = 0
            /\ usage[r] = 0 /\ localUsage[r] = 0
            /\ \A g \in Goroutines : billed[r][g] = 0 /\ worker[r][g].at = "wait"
        BY DEF RealtimeInit
      <4> QED
        BY <4>1 DEF BilledInvAt, Goroutines
    <3> QED
      BY <3>1 DEF BilledInv
  <2> QED
    BY <2>2, <2>3, <2>4, <2>5 DEF RealtimeInv
<1>2. RealtimeInv /\ [RealtimeNext]_allVars => RealtimeInv'
  BY RealtimeTypeStep, SourceStep, BilledStep DEF RealtimeInv
<1> QED
  BY <1>1, <1>2, PTL DEF RealtimeSpec

\* The usage counters, the totals and the goroutines of OpenaiRealtimeHandler
\* keep their types, and so does the billing session under them.
THEOREM RealtimeTypeCorrect == RealtimeSpec => []RealtimeTypeOK
<1>1. RealtimeInv => RealtimeTypeOK
  BY DEF RealtimeInv
<1> QED
  BY <1>1, RealtimeInductive, PTL

\* However the loads and stores of the reader and of main interleave, and
\* whichever of their charges fail, the total PostWssConsumeQuota settles counts
\* no reported or counted token more than twice.
THEOREM CountedAtMostTwiceHolds == RealtimeSpec => []CountedAtMostTwice
<1>1. RealtimeInv => CountedAtMostTwice
  <2> SUFFICES ASSUME RealtimeTypeOK, BilledInv, NEW r \in Requests
               PROVE  sumUsage[r] <= 2 * (reported[r] + counted[r])
    BY DEF RealtimeInv, CountedAtMostTwice
  <2>1. /\ sumUsage[r] \in Nat /\ reported[r] \in Nat /\ counted[r] \in Nat
        /\ billed[r]["reader"] \in Nat /\ billed[r]["main"] \in Nat
    BY DEF RealtimeTypeOK, Goroutines
  <2>2. /\ sumUsage[r] <= billed[r]["reader"] + billed[r]["main"]
        /\ billed[r]["reader"] <= reported[r] + counted[r]
        /\ billed[r]["main"] <= reported[r] + counted[r]
    BY DEF BilledInv, BilledInvAt
  <2> QED
    BY <2>1, <2>2
<1> QED
  BY <1>1, RealtimeInductive, PTL

\* However NewBillingSession falls back and whichever goroutine bills a turn,
\* PostConsumeQuota charges the one source the session has settled on, and no
\* turn is billed before there is one.
THEOREM TurnsUseSessionSourceHolds == RealtimeSpec => []TurnsUseSessionSource
<1>1. RealtimeInv => TurnsUseSessionSource
  <2> SUFFICES ASSUME SourceInv, WorkerInv PROVE TurnsUseSessionSource
    BY DEF RealtimeInv
  <2>1. OneFundingSource
    BY DEF SourceInv, SourceInvAt, OneFundingSource
  <2>2. ASSUME NEW r \in Requests, NEW g \in Goroutines,
               worker[r][g].at \in {"funding", "token"}
        PROVE  sess[r].funding # "none"
    BY <2>2 DEF SourceInv, SourceInvAt, WorkerInv, WorkerInvAt, NotOpened
  <2> QED
    BY <2>1, <2>2 DEF TurnsUseSessionSource
<1> QED
  BY <1>1, RealtimeInductive, PTL
==============================================================================
