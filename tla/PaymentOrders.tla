---------------------------- MODULE PaymentOrders ----------------------------
(***************************************************************************)
(* Payment orders and redemption codes (controller/topup*.go,              *)
(* controller/subscription_payment_epay.go, controller/user.go TopUp,      *)
(* model/topup.go, model/redemption.go, model/subscription.go).            *)
(*                                                                         *)
(* A provider reports the outcome of a payment by callbacks it repeats     *)
(* until one is answered with success; an administrator may complete an    *)
(* order by hand.  Each callback is a handler of some server process.  It  *)
(* takes the lock of the order, reads the order, writes it and credits the *)
(* user.  The locks live in the memory of one process; the transactions    *)
(* ask for row locks with an option GORM v2 ignores, so that between the   *)
(* read of a transaction and its commit others may write.                  *)
(*                                                                         *)
(* An order is of one of these kinds, named for the provider:              *)
(*   epay     answered before it is processed, status and credit are two   *)
(*            writes;                                                      *)
(*   stripe   always answered with success, may be reported failed;        *)
(*   creem    answered with failure when the commit fails;                 *)
(*   waffo    the same, and a report other than success is handled without *)
(*            the lock;                                                    *)
(*   pancake  the same without such reports; a report whose trade number   *)
(*            cannot be resolved is answered with success.                 *)
(* Subscriptions paid by epay behave as pancake but for that last report,  *)
(* subscriptions paid by stripe and creem as these.                        *)
(***************************************************************************)
EXTENDS Integers, FiniteSets

CONSTANTS Orders, Codes, Users,
          Nodes,     \* the server processes
          Handlers,  \* a bound: the requests served at a time
          Mutexes,   \* the refCountedMutex objects; collected ones are reused
          None,
          Kinds,     \* the kinds an order may have
          MaxFaults  \* a bound: the failing writes and the crashes

ASSUME NoneAssumption ==
    None \notin Mutexes \cup Nodes \cup Orders \cup Codes \cup Users
ASSUME ItemsAssumption == Orders \cap Codes = {}
ASSUME HandlersAssumption == IsFiniteSet(Handlers)
ASSUME KindsAssumption ==
    Kinds \subseteq {"epay", "stripe", "creem", "waffo", "pancake"}
ASSUME MaxFaultsAssumption == MaxFaults \in Nat

VARIABLES kind,     \* the kind of each order
          status,   \* the status column of each order
          outcome,  \* what the provider knows of the payment
          unresolved, \* a report of the order was answered OK, its number unresolved
          answered, \* the provider had a success answer to its report
          credits,  \* history: the times the order was credited
          code,     \* the status column of each redemption code
          redeemed, \* history: the times the code was credited
          req,      \* the request each handler serves, and how far it is
          orderLocks, \* the lock map of each process
          locked, refCount, \* the fields of a refCountedMutex
          faults

provider == <<kind, outcome, unresolved>>
codes == <<code, redeemed>>
locks == <<orderLocks, locked, refCount>>
vars == <<kind, status, outcome, unresolved, answered, credits, code, redeemed, req,
          orderLocks, locked, refCount, faults>>

Status == {"absent", "pending", "success", "failed", "expired"}
Event  == {"paid", "admin", "failed", "expired", "redeem"}
Step   == {"idle", "lock", "wait", "read", "write", "credit", "unlock",
           "release", "redeem", "use"}

\* pc is the next step; on the order or the code; view the status read; held
\* the mutex the handler waits for, holds or has still to release.
Req == [pc: Step, node: Nodes \cup {None}, on: Orders \cup Codes \cup {None},
        ev: Event, user: Users \cup {None}, view: Status \cup {"enabled", "used"},
        held: Mutexes \cup {None}]

Idle == [pc |-> "idle", node |-> None, on |-> None, ev |-> "paid",
         user |-> None, view |-> "absent", held |-> None]

TypeOK ==
    /\ kind \in [Orders -> Kinds]
    /\ status \in [Orders -> Status]
    /\ outcome \in [Orders -> {"none", "paid", "failed"}]
    /\ unresolved \in [Orders -> BOOLEAN]
    /\ answered \in [Orders -> BOOLEAN]
    /\ credits \in [Orders -> Nat]
    /\ code \in [Codes -> {"enabled", "used"}]
    /\ redeemed \in [Codes -> Nat]
    /\ req \in [Handlers -> Req]
    /\ orderLocks \in [Nodes -> [Orders -> Mutexes \cup {None}]]
    /\ locked \in [Mutexes -> BOOLEAN]
    /\ refCount \in [Mutexes -> Int]
    /\ faults \in 0 .. MaxFaults

-----------------------------------------------------------------------------
(* Orders and the provider *)

\* Mutant of CreateOrder: the order is inserted without its status.
CreateOrderBlank(o) ==
    /\ status[o] = "absent"
    /\ status' = [status EXCEPT ![o] = ""]
    /\ UNCHANGED <<provider, answered, credits, codes, req, locks, faults>>

\* RequestEpay, RequestWaffoPay and the others insert the order as pending.
CreateOrder(o) ==
    /\ status[o] = "absent"
    /\ status' = [status EXCEPT ![o] = "pending"]
    /\ UNCHANGED <<provider, answered, credits, codes, req, locks, faults>>

\* RequestWaffoPay and RequestWaffoPancakePay: the provider refuses the order,
\* which is saved as failed whatever it has become.
CreateFails(o) ==
    /\ status[o] # "absent"
    /\ kind[o] \in {"waffo", "pancake"}
    /\ outcome[o] = "none"
    /\ status' = [status EXCEPT ![o] = "failed"]
    /\ outcome' = [outcome EXCEPT ![o] = "failed"]
    /\ UNCHANGED <<kind, unresolved, answered, credits, codes, req, locks, faults>>

\* The payment is made, or comes to nothing: the provider's doing.
Settle(o, result) ==
    /\ status[o] # "absent"
    /\ outcome[o] = "none"
    /\ outcome' = [outcome EXCEPT ![o] = result]
    /\ UNCHANGED <<kind, unresolved, status, answered, credits, codes, req, locks,
                   faults>>

-----------------------------------------------------------------------------
(* Requests *)

Start(h, n, item, e, u, step) ==
    /\ req[h].pc = "idle"
    /\ req' = [req EXCEPT ![h] = [Idle EXCEPT !.pc = step, !.node = n,
                                     !.on = item, !.ev = e, !.user = u]]
    /\ UNCHANGED <<provider, status, credits, codes, locks, faults>>

\* A report of a payment: EpayNotify, fulfillOrder, handleCheckoutCompleted,
\* handleWaffoPayment, WaffoPancakeWebhook, SubscriptionEpayNotify.
\* EpayNotify answers first.
ReportPaid(h, n, o) ==
    /\ outcome[o] = "paid"
    /\ answered' = [answered EXCEPT ![o] = @ \/ kind[o] = "epay"]
    /\ Start(h, n, o, "paid", None, "lock")

\* WaffoPancakeWebhook when ResolveWaffoPancakeTradeNo fails, because the report
\* names no order, or another number, or the query failed: answered OK, and
\* nothing else is done.
ReportUnresolved(o) ==
    /\ outcome[o] = "paid"
    /\ kind[o] = "pancake"
    /\ answered' = [answered EXCEPT ![o] = TRUE]
    /\ unresolved' = [unresolved EXCEPT ![o] = TRUE]
    /\ UNCHANGED <<kind, outcome, status, credits, codes, req, locks, faults>>

\* Mutant of ReportUnpaid: without LockOrder.
ReportUnpaidUnlocked(h, n, o, e) ==
    /\ outcome[o] = "failed"
    /\ kind[o] = "stripe"
    /\ Start(h, n, o, e, None, "read")
    /\ UNCHANGED answered

\* sessionAsyncPaymentFailed and sessionExpired, of a payment that failed.
ReportUnpaid(h, n, o, e) ==
    /\ outcome[o] = "failed"
    /\ kind[o] = "stripe"
    /\ Start(h, n, o, e, None, "lock")
    /\ UNCHANGED answered

\* handleWaffoPayment of any status but success, which may be early or late:
\* straight to UpdatePendingTopUpStatus.
ReportOther(h, n, o) ==
    /\ status[o] # "absent"
    /\ kind[o] = "waffo"
    /\ Start(h, n, o, "failed", None, "read")
    /\ UNCHANGED answered

AdminCompleteTopUp(h, n, o) ==
    /\ status[o] # "absent"
    /\ Start(h, n, o, "admin", None, "lock")
    /\ UNCHANGED answered

\* TopUp, with the try-lock of the user: a user's second request is refused.
TopUp(h, n, c, u) ==
    /\ \A g \in Handlers : ~(req[g].user = u /\ req[g].node = n)
    /\ Start(h, n, c, "redeem", u, "redeem")
    /\ UNCHANGED answered

-----------------------------------------------------------------------------
(* LockOrder and UnlockOrder *)

Entry(h) == orderLocks[req[h].node][req[h].on]

Referenced == {req[h].held : h \in Handlers} \cup
              {orderLocks[n][o] : n \in Nodes, o \in Orders}

\* &refCountedMutex{}: which of the unused objects it is does not matter.
NewMutex == CHOOSE m \in Mutexes : m \notin Referenced

Move(h, step, read, mutex) ==
    req' = [req EXCEPT ![h] = [req[h] EXCEPT !.pc = step, !.view = read,
                                             !.held = mutex]]

Goto(h, step) == Move(h, step, req[h].view, req[h].held)

Done(h) == req' = [req EXCEPT ![h] = Idle]

\* Under createLock: the entry of the order, made if there is none, is
\* counted once more.
LockOrder(h) ==
    /\ req[h].pc = "lock"
    /\ \/ /\ Entry(h) # None
          /\ Move(h, "wait", req[h].view, Entry(h))
          /\ refCount' = [refCount EXCEPT ![Entry(h)] = @ + 1]
          /\ UNCHANGED <<orderLocks, locked>>
       \/ /\ Entry(h) = None
          /\ Mutexes \ Referenced # {}
          /\ LET m == NewMutex
             IN  /\ Move(h, "wait", req[h].view, m)
                 /\ orderLocks' = [orderLocks EXCEPT ![req[h].node][req[h].on] = m]
                 /\ locked' = [locked EXCEPT ![m] = FALSE]
                 /\ refCount' = [refCount EXCEPT ![m] = 1]
    /\ UNCHANGED <<provider, status, answered, credits, codes, faults>>

\* rcm.mu.Lock()
MutexLock(h) ==
    /\ req[h].pc = "wait"
    /\ ~locked[req[h].held]
    /\ locked' = [locked EXCEPT ![req[h].held] = TRUE]
    /\ Goto(h, "read")
    /\ UNCHANGED <<provider, status, answered, credits, codes, orderLocks,
                   refCount, faults>>

\* The entry is looked up again; its mutex is unlocked.
UnlockOrder(h) ==
    /\ req[h].pc = "unlock"
    /\ IF Entry(h) = None THEN Done(h)
       ELSE Move(h, "release", req[h].view, Entry(h))
    /\ locked' = [m \in Mutexes |-> locked[m] /\ m # Entry(h)]
    /\ UNCHANGED <<provider, status, answered, credits, codes, orderLocks,
                   refCount, faults>>

\* Mutant of ReleaseEntry: the entry is removed without a look at its count.
ReleaseEntryAlways(h) ==
    /\ req[h].pc = "release"
    /\ refCount' = [refCount EXCEPT ![req[h].held] = @ - 1]
    /\ orderLocks' = [orderLocks EXCEPT ![req[h].node][req[h].on] = None]
    /\ Done(h)
    /\ UNCHANGED <<provider, status, answered, credits, codes, locked, faults>>

\* Under createLock: the last user of the entry removes it.
ReleaseEntry(h) ==
    /\ req[h].pc = "release"
    /\ refCount' = [refCount EXCEPT ![req[h].held] = @ - 1]
    /\ orderLocks' = IF refCount[req[h].held] = 1
                     THEN [orderLocks EXCEPT ![req[h].node][req[h].on] = None]
                     ELSE orderLocks
    /\ Done(h)
    /\ UNCHANGED <<provider, status, answered, credits, codes, locked, faults>>

-----------------------------------------------------------------------------
(* The work of a handler on an order *)

\* A handler that took the lock goes on to unlock; the one of waffo is done.
EndWork(h) == IF req[h].held = None THEN Done(h) ELSE Goto(h, "unlock")

\* The order is read, in the transaction or before it.
ReadOrder(h) ==
    /\ req[h].pc = "read"
    /\ Move(h, "write", status[req[h].on], req[h].held)
    /\ UNCHANGED <<provider, status, answered, credits, codes, locks, faults>>

\* Mutant of AnswerReport: every provider is answered as stripe is.
AnswerReportAlways(h, good) ==
    answered' = IF req[h].ev = "paid"
                THEN [answered EXCEPT ![req[h].on] = TRUE] ELSE answered

\* What the provider is told: stripe hears of no failure, and creem of none
\* but a failing commit.
AnswerReport(h, good) ==
    answered' = IF req[h].ev = "paid" /\ (good \/ kind[req[h].on] = "stripe")
                THEN [answered EXCEPT ![req[h].on] = TRUE] ELSE answered

\* Mutant of Completes: the status is not looked at.
CompletesAny(h) == req[h].ev \in {"paid", "admin"}

Completes(h) == req[h].ev \in {"paid", "admin"} /\ req[h].view = "pending"

ByEpay(h) == req[h].ev = "paid" /\ kind[req[h].on] = "epay"

\* Recharge, RechargeCreem, RechargeWaffo, RechargeWaffoPancake,
\* ManualCompleteTopUp and CompleteSubscriptionOrder of an order read as
\* pending: status and credit are committed together.
CompleteOrder(h) ==
    /\ req[h].pc = "write"
    /\ Completes(h)
    /\ ~ByEpay(h)
    /\ status' = [status EXCEPT ![req[h].on] = "success"]
    /\ credits' = [credits EXCEPT ![req[h].on] = @ + 1]
    /\ AnswerReport(h, TRUE)
    /\ EndWork(h)
    /\ UNCHANGED <<provider, codes, locks, faults>>

\* EpayNotify: topUp.Update(), and then IncreaseUserQuota.
EpayUpdate(h) ==
    /\ req[h].pc = "write"
    /\ Completes(h)
    /\ ByEpay(h)
    /\ status' = [status EXCEPT ![req[h].on] = "success"]
    /\ Goto(h, "credit")
    /\ UNCHANGED <<provider, answered, credits, codes, locks, faults>>

EpayIncreaseUserQuota(h) ==
    /\ req[h].pc = "credit"
    /\ credits' = [credits EXCEPT ![req[h].on] = @ + 1]
    /\ EndWork(h)
    /\ UNCHANGED <<provider, status, answered, codes, locks, faults>>

\* UpdatePendingTopUpStatus, ExpireSubscriptionOrder and the update of
\* sessionAsyncPaymentFailed: the whole row is saved with the new status.
MarkUnpaid(h) ==
    /\ req[h].pc = "write"
    /\ req[h].ev \in {"failed", "expired"}
    /\ req[h].view = "pending"
    /\ status' = [status EXCEPT ![req[h].on] = req[h].ev]
    /\ EndWork(h)
    /\ UNCHANGED <<provider, answered, credits, codes, locks, faults>>

\* An order that was not pending when it was read is left alone.
LeaveOrder(h) ==
    /\ req[h].pc = "write"
    /\ req[h].view # "pending"
    /\ AnswerReport(h, req[h].view = "success" \/ kind[req[h].on] = "creem")
    /\ EndWork(h)
    /\ UNCHANGED <<provider, status, credits, codes, locks, faults>>

\* The write fails and nothing of it is committed; epay's credit is lost.
WriteFails(h) ==
    /\ req[h].pc \in {"write", "credit"}
    /\ req[h].view = "pending"
    /\ faults < MaxFaults
    /\ faults' = faults + 1
    /\ AnswerReport(h, FALSE)
    /\ EndWork(h)
    /\ UNCHANGED <<provider, status, credits, codes, locks>>

-----------------------------------------------------------------------------
(* model.Redeem: one transaction that reads and then writes the code *)

ReadCode(h) ==
    /\ req[h].pc = "redeem"
    /\ IF code[req[h].on] = "enabled" THEN Move(h, "use", "enabled", None)
       ELSE Done(h)
    /\ UNCHANGED <<provider, status, answered, credits, codes, locks, faults>>

UseCode(h) ==
    /\ req[h].pc = "use"
    /\ redeemed' = [redeemed EXCEPT ![req[h].on] = @ + 1]
    /\ code' = [code EXCEPT ![req[h].on] = "used"]
    /\ Done(h)
    /\ UNCHANGED <<provider, status, answered, credits, locks, faults>>

-----------------------------------------------------------------------------
\* A process stops: its requests are gone, and its locks with them.
Crash(n) ==
    /\ faults < MaxFaults
    /\ faults' = faults + 1
    /\ req' = [h \in Handlers |-> IF req[h].node = n THEN Idle ELSE req[h]]
    /\ orderLocks' = [orderLocks EXCEPT ![n] = [o \in Orders |-> None]]
    /\ UNCHANGED <<provider, status, answered, credits, codes, locked, refCount>>

Init ==
    /\ kind \in [Orders -> Kinds]
    /\ status = [o \in Orders |-> "absent"]
    /\ outcome = [o \in Orders |-> "none"]
    /\ unresolved = [o \in Orders |-> FALSE]
    /\ answered = [o \in Orders |-> FALSE]
    /\ credits = [o \in Orders |-> 0]
    /\ code = [c \in Codes |-> "enabled"]
    /\ redeemed = [c \in Codes |-> 0]
    /\ req = [h \in Handlers |-> Idle]
    /\ orderLocks = [n \in Nodes |-> [o \in Orders |-> None]]
    /\ locked = [m \in Mutexes |-> FALSE]
    /\ refCount = [m \in Mutexes |-> 0]
    /\ faults = 0

\* The steps a handler takes by itself.
Proceed(h) ==
    \/ LockOrder(h) \/ MutexLock(h) \/ UnlockOrder(h) \/ ReleaseEntry(h)
    \/ ReadOrder(h) \/ CompleteOrder(h) \/ EpayUpdate(h)
    \/ EpayIncreaseUserQuota(h) \/ MarkUnpaid(h) \/ LeaveOrder(h)
    \/ ReadCode(h) \/ UseCode(h)

Request(h, n) ==
    \/ \E o \in Orders :
          \/ ReportPaid(h, n, o)
          \/ \E e \in {"failed", "expired"} : ReportUnpaid(h, n, o, e)
          \/ ReportOther(h, n, o)
          \/ AdminCompleteTopUp(h, n, o)
    \/ \E c \in Codes, u \in Users : TopUp(h, n, c, u)

Next ==
    \/ \E o \in Orders : \/ CreateOrder(o)
                         \/ CreateFails(o)
                         \/ ReportUnresolved(o)
                         \/ \E result \in {"paid", "failed"} : Settle(o, result)
    \/ \E h \in Handlers : \/ \E n \in Nodes : Request(h, n)
                           \/ Proceed(h)
                           \/ WriteFails(h)
    \/ \E n \in Nodes : Crash(n)

Spec == Init /\ [][Next]_vars

\* Handlers run, Go's mutex starves nobody, and a provider repeats a report
\* that was not answered with success until the server takes it.
FairSpec ==
    /\ Spec
    /\ \A h \in Handlers : WF_vars(Proceed(h)) /\ SF_vars(MutexLock(h))
    /\ \A o \in Orders :
          SF_vars(/\ ~answered[o]
                  /\ \E h \in Handlers, n \in Nodes : ReportPaid(h, n, o))

-----------------------------------------------------------------------------
(* Properties *)

\* However often a payment is reported, and whoever completes the order by
\* hand meanwhile, the user is credited once.  In one process this rests on
\* LockOrder alone, as the transactions lock no row.
CreditedOnce == \A o \in Orders : credits[o] <= 1

InSection(h) == req[h].pc \in {"read", "write", "credit", "unlock"}
                  /\ req[h].held # None

\* The lock map gives mutual exclusion although entries come and go: two
\* requests inside for one order of one process are the same request, and
\* the entry it will unlock is the mutex it locked.
OrderMutex ==
    \A g \in Handlers :
        InSection(g) =>
            /\ locked[req[g].held]
            /\ Entry(g) = req[g].held
            /\ \A h \in Handlers :
                  (InSection(h) /\ req[h].node = req[g].node
                      /\ req[h].on = req[g].on) => g = h

\* An order that was credited stays successful: no late report of failure,
\* checked against a status read before, overwrites it.  Two kinds are excepted,
\* as the failure of the creation of their orders is saved without the lock:
\* waffo, whose reports of failure take no lock either, and pancake.
CreditedStaysSuccess ==
    \A o \in Orders :
        credits[o] > 0 /\ kind[o] \notin {"waffo", "pancake"} => status[o] = "success"

\* What was paid is credited in the end.  The exceptions: the providers that
\* are told success whatever happens, after a failing write or a crash,
\* waffo's orders a report other than success came first for, and pancake's
\* orders reported under a number that could not be resolved.
PaidIsCredited ==
    \A o \in Orders :
        outcome[o] = "paid" ~>
            \/ credits[o] > 0
            \/ kind[o] \in {"epay", "stripe"} /\ faults > 0
            \/ kind[o] = "waffo" /\ status[o] = "failed"
            \/ unresolved[o]

\* A redemption code pays once: Redeem refuses a used one.
RedeemedOnce == \A c \in Codes : redeemed[c] <= 1
=============================================================================
