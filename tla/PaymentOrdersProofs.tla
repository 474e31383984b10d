------------------------ MODULE PaymentOrdersProofs ------------------------
(***************************************************************************)
(* Proofs about PaymentOrders, for any orders, codes, handlers and faults: *)
(* the lock map of LockOrder and UnlockOrder gives mutual exclusion, and,  *)
(* when there is one process, an order is credited once and stays          *)
(* successful.                                                             *)
(***************************************************************************)
EXTENDS PaymentOrders, FiniteSetTheorems, TLAPS

OrderSteps == {"lock", "wait", "read", "write", "credit", "unlock", "release"}

\* What the step of a request says of the rest of it: only waffo's reports
\* work on an order without its lock.
Placed(r) ==
    /\ r.pc = "idle" => r.held = None
    /\ r.pc \in {"redeem", "use"} => r.on \in Codes /\ r.held = None
    /\ r.pc \in OrderSteps => r.on \in Orders /\ r.node \in Nodes
    /\ r.pc = "lock" => r.held = None
    /\ r.pc \in {"wait", "credit", "unlock", "release"} => r.held # None
    /\ (r.pc \in {"read", "write"} /\ r.held = None) =>
          r.ev = "failed" /\ kind[r.on] = "waffo"

PlacedInv == \A h \in Handlers : Placed(req[h])

\* The handlers that have counted themselves in for a mutex.
Holders(m) == {h \in Handlers : req[h].held = m}

\* A handler's mutex is the entry of its order, no two entries are the same
\* mutex, an entry counts its holders, and who is inside has it locked alone.
HeldIsEntry == \A h \in Handlers : req[h].held # None => Entry(h) = req[h].held

Injective ==
    \A m, n \in Nodes, o, p \in Orders :
        orderLocks[m][o] = orderLocks[n][p] /\ orderLocks[m][o] # None =>
            m = n /\ o = p

Counted ==
    \A n \in Nodes, o \in Orders, m \in Mutexes :
        orderLocks[n][o] = m => refCount[m] = Cardinality(Holders(m))

SectionAlone ==
    \A g \in Handlers :
        InSection(g) =>
            /\ locked[req[g].held]
            /\ \A h \in Handlers :
                  InSection(h) /\ req[h].held = req[g].held => g = h

LockInv == HeldIsEntry /\ Injective /\ Counted /\ SectionAlone

-----------------------------------------------------------------------------
(* Types and places *)

LEMMA IdleType == Idle \in Req /\ Placed(Idle)
BY DEF Idle, Req, Step, Event, Status, Placed, OrderSteps

LEMMA ReqFields ==
    ASSUME NEW r \in Req
    PROVE  /\ r.pc \in Step /\ r.node \in Nodes \cup {None}
           /\ r.on \in Orders \cup Codes \cup {None} /\ r.ev \in Event
           /\ r.user \in Users \cup {None}
           /\ r.view \in Status \cup {"enabled", "used"}
           /\ r.held \in Mutexes \cup {None}
BY DEF Req

\* A step of one request keeps the requests in shape.
LEMMA ReqUpdate ==
    ASSUME TypeOK, PlacedInv, NEW h \in Handlers, NEW r \in Req, Placed(r),
           req' = [req EXCEPT ![h] = r], kind' = kind
    PROVE  req' \in [Handlers -> Req] /\ PlacedInv'
BY DEF TypeOK, PlacedInv, Placed

LEMMA StartType ==
    ASSUME TypeOK, PlacedInv, NEW h \in Handlers, NEW n \in Nodes,
           NEW item \in Orders \cup Codes, NEW e \in Event,
           NEW u \in Users \cup {None}, NEW step \in {"lock", "read", "redeem"},
           Start(h, n, item, e, u, step),
           step = "redeem" => item \in Codes,
           step # "redeem" => item \in Orders,
           step = "read" => e = "failed" /\ kind[item] = "waffo"
    PROVE  req' \in [Handlers -> Req] /\ PlacedInv'
<1> DEFINE r == [Idle EXCEPT !.pc = step, !.node = n, !.on = item, !.ev = e,
                             !.user = u]
<1>1. r \in Req
  BY DEF Idle, Req, Step, Event, Status
<1>2. Placed(r)
  BY DEF Idle, Placed, OrderSteps
<1>3. req' = [req EXCEPT ![h] = r] /\ kind' = kind
  BY DEF Start, provider
<1> QED
  BY <1>1, <1>2, <1>3, ReqUpdate

\* A request on an order goes to another of its steps.
LEMMA MoveType ==
    ASSUME TypeOK, PlacedInv, NEW h \in Handlers,
           NEW step \in OrderSteps \ {"lock"},
           NEW v \in Status \cup {"enabled", "used"},
           NEW m \in Mutexes \cup {None},
           req[h].pc \in OrderSteps,
           step \in {"wait", "credit", "unlock", "release"} => m # None,
           step \in {"read", "write"} /\ m = None =>
              req[h].ev = "failed" /\ kind[req[h].on] = "waffo",
           Move(h, step, v, m), kind' = kind
    PROVE  req' \in [Handlers -> Req] /\ PlacedInv'
<1> DEFINE r == [req[h] EXCEPT !.pc = step, !.view = v, !.held = m]
<1>0. req[h] \in Req /\ Placed(req[h])
  BY DEF TypeOK, PlacedInv
<1>1. r \in Req
  BY <1>0 DEF Req, Step, OrderSteps
<1>2. Placed(r)
  <2>1. /\ r.pc = step /\ r.held = m /\ r.on = req[h].on /\ r.ev = req[h].ev
        /\ r.node = req[h].node
    BY <1>0 DEF Req
  <2>2. req[h].on \in Orders /\ req[h].node \in Nodes
    BY <1>0 DEF Placed
  <2> HIDE DEF r
  <2> QED
    BY <2>1, <2>2 DEF Placed, OrderSteps
<1> QED
  BY <1>1, <1>2, ReqUpdate DEF Move

LEMMA DoneType ==
    ASSUME TypeOK, PlacedInv, NEW h \in Handlers, Done(h), kind' = kind
    PROVE  req' \in [Handlers -> Req] /\ PlacedInv'
BY IdleType, ReqUpdate DEF Done

\* What TypeOK and PlacedInv say of one request.
LEMMA ReqFacts ==
    ASSUME TypeOK, PlacedInv, NEW h \in Handlers
    PROVE  /\ req[h] \in Req /\ Placed(req[h])
           /\ req[h].view \in Status \cup {"enabled", "used"}
           /\ req[h].held \in Mutexes \cup {None}
           /\ req[h].pc \in OrderSteps =>
                 /\ req[h].on \in Orders /\ req[h].node \in Nodes
                 /\ Entry(h) \in Mutexes \cup {None}
<1>1. req[h] \in Req /\ Placed(req[h])
  BY DEF TypeOK, PlacedInv
<1>2. req[h].pc \in OrderSteps => req[h].on \in Orders /\ req[h].node \in Nodes
  BY <1>1 DEF Placed
<1> QED
  BY <1>1, <1>2, ReqFields DEF TypeOK, Entry

LEMMA EndWorkType ==
    ASSUME TypeOK, PlacedInv, NEW h \in Handlers, EndWork(h),
           req[h].pc \in OrderSteps, kind' = kind
    PROVE  req' \in [Handlers -> Req] /\ PlacedInv'
<1>1. CASE req[h].held = None
  BY <1>1, DoneType DEF EndWork
<1>2. CASE req[h].held # None
  <2>1. Move(h, "unlock", req[h].view, req[h].held)
    BY <1>2 DEF EndWork, Goto
  <2> QED
    BY <2>1, <1>2, ReqFacts, MoveType DEF OrderSteps
<1> QED
  BY <1>1, <1>2

LEMMA AnswerType ==
    ASSUME TypeOK, NEW h \in Handlers, NEW good, AnswerReport(h, good)
    PROVE  answered' \in [Orders -> BOOLEAN]
BY DEF TypeOK, AnswerReport

\* An unused mutex is one nobody refers to.
LEMMA NewMutexFresh ==
    ASSUME Mutexes \ Referenced # {}
    PROVE  NewMutex \in Mutexes /\ NewMutex \notin Referenced
BY DEF NewMutex

\* Every step keeps the types.
LEMMA TypeStep ==
    ASSUME TypeOK, PlacedInv, [Next]_vars
    PROVE  TypeOK' /\ PlacedInv'
<1> USE DEF provider, codes, locks
<1>1. ASSUME NEW o \in Orders, CreateOrder(o) PROVE TypeOK' /\ PlacedInv'
  BY <1>1 DEF CreateOrder, TypeOK, PlacedInv, Placed, Status
<1>2. ASSUME NEW o \in Orders, CreateFails(o) PROVE TypeOK' /\ PlacedInv'
  BY <1>2 DEF CreateFails, TypeOK, PlacedInv, Placed, Status
<1>3. ASSUME NEW o \in Orders, NEW result \in {"paid", "failed"}, Settle(o, result)
      PROVE  TypeOK' /\ PlacedInv'
  BY <1>3 DEF Settle, TypeOK, PlacedInv, Placed
<1>4. ASSUME NEW h \in Handlers, NEW n \in Nodes, NEW o \in Orders,
             ReportPaid(h, n, o)
      PROVE  TypeOK' /\ PlacedInv'
  <2>1. req' \in [Handlers -> Req] /\ PlacedInv'
    BY <1>4, StartType DEF ReportPaid, Event
  <2>2. answered' \in [Orders -> BOOLEAN]
    BY <1>4 DEF ReportPaid, TypeOK
  <2> QED
    BY <1>4, <2>1, <2>2 DEF ReportPaid, Start, TypeOK
<1>5. ASSUME NEW h \in Handlers, NEW n \in Nodes, NEW o \in Orders,
             NEW e \in {"failed", "expired"}, ReportUnpaid(h, n, o, e)
      PROVE  TypeOK' /\ PlacedInv'
  <2>1. req' \in [Handlers -> Req] /\ PlacedInv'
    BY <1>5, StartType DEF ReportUnpaid, Event
  <2> QED
    BY <1>5, <2>1 DEF ReportUnpaid, Start, TypeOK
<1>6. ASSUME NEW h \in Handlers, NEW n \in Nodes, NEW o \in Orders,
             ReportOther(h, n, o)
      PROVE  TypeOK' /\ PlacedInv'
  <2>1. req' \in [Handlers -> Req] /\ PlacedInv'
    BY <1>6, StartType DEF ReportOther, Event
  <2> QED
    BY <1>6, <2>1 DEF ReportOther, Start, TypeOK
<1>7. ASSUME NEW h \in Handlers, NEW n \in Nodes, NEW o \in Orders,
             AdminCompleteTopUp(h, n, o)
      PROVE  TypeOK' /\ PlacedInv'
  <2>1. req' \in [Handlers -> Req] /\ PlacedInv'
    BY <1>7, StartType DEF AdminCompleteTopUp, Event
  <2> QED
    BY <1>7, <2>1 DEF AdminCompleteTopUp, Start, TypeOK
<1>8. ASSUME NEW h \in Handlers, NEW n \in Nodes, NEW c \in Codes,
             NEW u \in Users, TopUp(h, n, c, u)
      PROVE  TypeOK' /\ PlacedInv'
  <2>1. req' \in [Handlers -> Req] /\ PlacedInv'
    BY <1>8, StartType DEF TopUp, Event
  <2> QED
    BY <1>8, <2>1 DEF TopUp, Start, TypeOK
<1>9. ASSUME NEW h \in Handlers, LockOrder(h) PROVE TypeOK' /\ PlacedInv'
  <2>1. req[h].pc \in OrderSteps /\ kind' = kind
    BY <1>9 DEF LockOrder, OrderSteps
  <2>2. CASE Entry(h) # None
    <3>1. Move(h, "wait", req[h].view, Entry(h))
      BY <1>9, <2>2 DEF LockOrder
    <3>2. req' \in [Handlers -> Req] /\ PlacedInv'
      BY <2>1, <2>2, <3>1, ReqFacts, MoveType DEF OrderSteps
    <3>3. refCount' \in [Mutexes -> Int] /\ UNCHANGED <<orderLocks, locked>>
      BY <1>9, <2>2 DEF LockOrder, TypeOK
    <3> QED
      BY <1>9, <3>2, <3>3 DEF LockOrder, TypeOK
  <2>3. CASE Entry(h) = None
    <3>1. Move(h, "wait", req[h].view, NewMutex) /\ NewMutex \in Mutexes
      BY <1>9, <2>3, NewMutexFresh DEF LockOrder
    <3>2. req' \in [Handlers -> Req] /\ PlacedInv'
      BY <2>1, <3>1, ReqFacts, MoveType, NoneAssumption DEF OrderSteps
    <3>3. /\ refCount' = [refCount EXCEPT ![NewMutex] = 1]
          /\ locked' = [locked EXCEPT ![NewMutex] = FALSE]
          /\ orderLocks' = [orderLocks EXCEPT
                              ![req[h].node][req[h].on] = NewMutex]
      BY <1>9, <2>3 DEF LockOrder
    <3>4. refCount' \in [Mutexes -> Int]
      BY <3>1, <3>3 DEF TypeOK
    <3>6. locked' \in [Mutexes -> BOOLEAN]
      BY <3>1, <3>3 DEF TypeOK
    <3>5. orderLocks' \in [Nodes -> [Orders -> Mutexes \cup {None}]]
      BY <3>1, <3>3, <2>1, ReqFacts DEF TypeOK
    <3> QED
      BY <1>9, <3>2, <3>4, <3>5, <3>6 DEF LockOrder, TypeOK
  <2> QED
    BY <2>2, <2>3
<1>10. ASSUME NEW h \in Handlers, MutexLock(h) PROVE TypeOK' /\ PlacedInv'
  <2>1. req[h].pc \in OrderSteps /\ req[h].held # None
    BY <1>10, ReqFacts DEF MutexLock, OrderSteps, Placed
  <2>2. req' \in [Handlers -> Req] /\ PlacedInv'
    BY <1>10, <2>1, ReqFacts, MoveType DEF MutexLock, Goto, OrderSteps
  <2> QED
    BY <1>10, <2>2 DEF MutexLock, TypeOK
<1>11. ASSUME NEW h \in Handlers, UnlockOrder(h) PROVE TypeOK' /\ PlacedInv'
  <2>1. req[h].pc \in OrderSteps
    BY <1>11 DEF UnlockOrder, OrderSteps
  <2>2. CASE Entry(h) = None
    BY <1>11, <2>2, DoneType DEF UnlockOrder, TypeOK
  <2>3. CASE Entry(h) # None
    <3>1. req' \in [Handlers -> Req] /\ PlacedInv'
      BY <1>11, <2>1, <2>3, ReqFacts, MoveType DEF UnlockOrder, OrderSteps
    <3> QED
      BY <1>11, <3>1 DEF UnlockOrder, TypeOK
  <2> QED
    BY <2>2, <2>3
<1>12. ASSUME NEW h \in Handlers, ReleaseEntry(h) PROVE TypeOK' /\ PlacedInv'
  <2>1. req[h].on \in Orders /\ req[h].node \in Nodes
    BY <1>12, ReqFacts DEF ReleaseEntry, OrderSteps
  <2>2. req' \in [Handlers -> Req] /\ PlacedInv'
    BY <1>12, DoneType DEF ReleaseEntry
  <2>3. orderLocks' \in [Nodes -> [Orders -> Mutexes \cup {None}]]
    BY <1>12, <2>1 DEF ReleaseEntry, TypeOK
  <2>4. refCount' \in [Mutexes -> Int]
    <3>1. req[h].held \in Mutexes
      BY <1>12, ReqFacts DEF ReleaseEntry, Placed
    <3> QED
      BY <1>12, <3>1 DEF ReleaseEntry, TypeOK
  <2> QED
    BY <1>12, <2>2, <2>3, <2>4 DEF ReleaseEntry, TypeOK
<1>13. ASSUME NEW h \in Handlers, ReadOrder(h) PROVE TypeOK' /\ PlacedInv'
  <2>1. req[h].pc \in OrderSteps /\ req[h].on \in Orders
    BY <1>13, ReqFacts DEF ReadOrder, OrderSteps
  <2>2. status[req[h].on] \in Status
    BY <2>1 DEF TypeOK
  <2>3. req' \in [Handlers -> Req] /\ PlacedInv'
    BY <1>13, <2>1, <2>2, ReqFacts, MoveType DEF ReadOrder, OrderSteps, Placed
  <2> QED
    BY <1>13, <2>3 DEF ReadOrder, TypeOK
<1>14. ASSUME NEW h \in Handlers,
              \/ CompleteOrder(h) \/ EpayIncreaseUserQuota(h)
              \/ MarkUnpaid(h) \/ LeaveOrder(h) \/ WriteFails(h)
       PROVE  TypeOK' /\ PlacedInv'
  <2>1. req[h].pc \in OrderSteps /\ req[h].on \in Orders /\ kind' = kind
    BY <1>14, ReqFacts
       DEF CompleteOrder, EpayIncreaseUserQuota, MarkUnpaid, LeaveOrder,
           WriteFails, OrderSteps
  <2>2. req' \in [Handlers -> Req] /\ PlacedInv'
    BY <1>14, <2>1, EndWorkType
       DEF CompleteOrder, EpayIncreaseUserQuota, MarkUnpaid, LeaveOrder,
           WriteFails
  <2>3. CASE CompleteOrder(h)
    <3>1. answered' \in [Orders -> BOOLEAN]
      BY <2>3, AnswerType DEF CompleteOrder
    <3>2. /\ status' \in [Orders -> Status] /\ credits' \in [Orders -> Nat]
      BY <2>1, <2>3 DEF CompleteOrder, TypeOK, Status
    <3> QED
      BY <2>2, <2>3, <3>1, <3>2 DEF CompleteOrder, TypeOK
  <2>4. CASE EpayIncreaseUserQuota(h)
    BY <2>1, <2>2, <2>4 DEF EpayIncreaseUserQuota, TypeOK
  <2>5. CASE MarkUnpaid(h)
    BY <2>1, <2>2, <2>5 DEF MarkUnpaid, TypeOK, Status
  <2>6. CASE LeaveOrder(h)
    BY <2>1, <2>2, <2>6, AnswerType DEF LeaveOrder, TypeOK
  <2>7. CASE WriteFails(h)
    <3>1. answered' \in [Orders -> BOOLEAN]
      BY <2>7, AnswerType DEF WriteFails
    <3>2. faults' \in 0 .. MaxFaults
      BY <2>7, MaxFaultsAssumption DEF WriteFails, TypeOK
    <3> QED
      BY <2>2, <2>7, <3>1, <3>2 DEF WriteFails, TypeOK
  <2> QED
    BY <1>14, <2>3, <2>4, <2>5, <2>6, <2>7
<1>15. ASSUME NEW h \in Handlers, EpayUpdate(h) PROVE TypeOK' /\ PlacedInv'
  <2>1. req[h].pc \in OrderSteps /\ req[h].on \in Orders /\ req[h].held # None
    BY <1>15, ReqFacts DEF EpayUpdate, OrderSteps, Placed, Completes
  <2>2. req' \in [Handlers -> Req] /\ PlacedInv'
    BY <1>15, <2>1, ReqFacts, MoveType DEF EpayUpdate, Goto, OrderSteps
  <2> QED
    BY <1>15, <2>1, <2>2 DEF EpayUpdate, TypeOK, Status
<1>16. ASSUME NEW h \in Handlers, ReadCode(h) PROVE TypeOK' /\ PlacedInv'
  <2>1. CASE Done(h)
    BY <1>16, <2>1, DoneType DEF ReadCode, TypeOK
  <2>2. CASE Move(h, "use", "enabled", None)
    <3> DEFINE r == [req[h] EXCEPT !.pc = "use", !.view = "enabled", !.held = None]
    <3>1. req[h] \in Req /\ req[h].on \in Codes
      BY <1>16, ReqFacts DEF ReadCode, Placed
    <3>2. r \in Req
      BY <3>1 DEF Req, Step
    <3>3. Placed(r)
      BY <3>1 DEF Req, Placed, OrderSteps
    <3>4. req' \in [Handlers -> Req] /\ PlacedInv'
      BY <1>16, <2>2, <3>2, <3>3, ReqUpdate DEF ReadCode, Move
    <3> QED
      BY <1>16, <3>4 DEF ReadCode, TypeOK
  <2> QED
    BY <1>16, <2>1, <2>2 DEF ReadCode
<1>17. ASSUME NEW h \in Handlers, UseCode(h) PROVE TypeOK' /\ PlacedInv'
  <2>1. req[h].on \in Codes
    BY <1>17, ReqFacts DEF UseCode, Placed
  <2> QED
    BY <1>17, <2>1, DoneType DEF UseCode, TypeOK
<1>18. ASSUME NEW n \in Nodes, Crash(n) PROVE TypeOK' /\ PlacedInv'
  <2>1. req' \in [Handlers -> Req] /\ PlacedInv'
    BY <1>18, IdleType DEF Crash, TypeOK, PlacedInv, Placed
  <2> QED
    BY <1>18, <2>1, MaxFaultsAssumption DEF Crash, TypeOK
<1>19. CASE UNCHANGED vars
  BY <1>19 DEF vars, TypeOK, PlacedInv, Placed
<1>20. ASSUME NEW o \in Orders, ReportUnresolved(o) PROVE TypeOK' /\ PlacedInv'
  BY <1>20 DEF ReportUnresolved, TypeOK, PlacedInv, Placed
<1> QED
  BY <1>1, <1>2, <1>3, <1>4, <1>5, <1>6, <1>7, <1>8, <1>9, <1>10, <1>11,
     <1>12, <1>13, <1>14, <1>15, <1>16, <1>17, <1>18, <1>19, <1>20
     DEF Next, Request, Proceed

-----------------------------------------------------------------------------
(* The lock map *)

\* A handler that has counted itself in works on an order.
LEMMA HolderPlace ==
    ASSUME TypeOK, PlacedInv, NEW h \in Handlers, req[h].held # None
    PROVE  req[h].on \in Orders /\ req[h].node \in Nodes /\ req[h].held \in Mutexes
<1>1. req[h].pc \in OrderSteps
  BY ReqFacts, ReqFields DEF Placed, Step, OrderSteps
<1> QED
  BY <1>1, ReqFacts

\* Steps that take, keep and release no lock.
LEMMA QuietLocks ==
    ASSUME TypeOK, PlacedInv, LockInv, UNCHANGED locks,
           \A h \in Handlers :
              /\ req'[h].held = req[h].held
              /\ req[h].held # None => req'[h].node = req[h].node
                                         /\ req'[h].on = req[h].on
              /\ InSection(h)' => InSection(h)
    PROVE  LockInv'
<1>1. HeldIsEntry'
  BY DEF LockInv, HeldIsEntry, Entry, locks
<1>2. Injective'
  BY DEF LockInv, Injective, locks
<1>3. Counted'
  <2>1. \A m : Holders(m)' = Holders(m)
    BY DEF Holders
  <2> QED
    BY <2>1 DEF LockInv, Counted, locks
<1>4. SectionAlone'
  BY DEF LockInv, SectionAlone, locks
<1> QED
  BY <1>1, <1>2, <1>3, <1>4 DEF LockInv

\* The ways a request goes on without the lock map.
LEMMA QuietMove ==
    ASSUME TypeOK, PlacedInv, LockInv, UNCHANGED locks, NEW h \in Handlers,
           NEW step \in Step, NEW v,
           Move(h, step, v, req[h].held),
           step \in {"read", "write", "credit", "unlock"} =>
              req[h].pc \in {"read", "write", "credit", "unlock"}
    PROVE  LockInv'
<1>1. req[h] \in Req
  BY DEF TypeOK
<1>2. /\ req'[h].held = req[h].held /\ req'[h].node = req[h].node
      /\ req'[h].on = req[h].on /\ req'[h].pc = step
  BY <1>1 DEF Move, TypeOK, Req
<1>3. \A g \in Handlers : g # h => req'[g] = req[g]
  BY DEF Move, TypeOK
<1>4. \A g \in Handlers :
         /\ req'[g].held = req[g].held
         /\ req[g].held # None => req'[g].node = req[g].node
                                    /\ req'[g].on = req[g].on
         /\ InSection(g)' => InSection(g)
  BY <1>2, <1>3 DEF InSection
<1> QED
  BY <1>4, QuietLocks

LEMMA QuietDone ==
    ASSUME TypeOK, PlacedInv, LockInv, UNCHANGED locks, NEW h \in Handlers,
           NEW r, req' = [req EXCEPT ![h] = r], r.held = None,
           req[h].held = None
    PROVE  LockInv'
<1>1. \A g \in Handlers : req'[g] = IF g = h THEN r ELSE req[g]
  BY DEF TypeOK
<1>2. \A g \in Handlers :
         /\ req'[g].held = req[g].held
         /\ req[g].held # None => req'[g].node = req[g].node
                                    /\ req'[g].on = req[g].on
         /\ InSection(g)' => InSection(g)
  BY <1>1 DEF InSection
<1> QED
  BY <1>2, QuietLocks

LEMMA QuietStart ==
    ASSUME TypeOK, PlacedInv, LockInv, NEW h \in Handlers, NEW n, NEW item,
           NEW e, NEW u, NEW step, Start(h, n, item, e, u, step)
    PROVE  LockInv'
<1> DEFINE r == [Idle EXCEPT !.pc = step, !.node = n, !.on = item, !.ev = e,
                             !.user = u]
<1>1. req[h].held = None
  BY ReqFacts DEF Start, Placed
<1>2. r.held = None
  BY DEF Idle
<1>3. req' = [req EXCEPT ![h] = r] /\ UNCHANGED locks
  BY DEF Start, locks
<1> QED
  BY <1>1, <1>2, <1>3, QuietDone

LEMMA QuietEnd ==
    ASSUME TypeOK, PlacedInv, LockInv, NEW h \in Handlers, EndWork(h),
           req[h].pc \in {"read", "write", "credit", "unlock"}, UNCHANGED locks
    PROVE  LockInv'
<1>1. CASE req[h].held = None
  BY <1>1, QuietDone DEF EndWork, Done, Idle
<1>2. CASE req[h].held # None
  BY <1>2, QuietMove DEF EndWork, Goto, Step
<1> QED
  BY <1>1, <1>2

LEMMA HoldersFinite == \A m : IsFiniteSet(Holders(m))
BY HandlersAssumption, FS_Subset DEF Holders

\* The entry there is counts one more holder.
LEMMA LockExisting ==
    ASSUME TypeOK, PlacedInv, LockInv, NEW h \in Handlers, LockOrder(h),
           Entry(h) # None
    PROVE  LockInv'
<1>0. req[h].pc = "lock" /\ Entry(h) \in Mutexes
  BY ReqFacts DEF LockOrder, OrderSteps
<1> PICK m \in Mutexes : m = Entry(h)
  BY <1>0
<1>1. /\ Move(h, "wait", req[h].view, m) /\ UNCHANGED <<orderLocks, locked>>
      /\ refCount' = [refCount EXCEPT ![m] = @ + 1]
  BY DEF LockOrder
<1>2. /\ req[h] \in Req /\ req[h].held = None
      /\ req[h].on \in Orders /\ req[h].node \in Nodes
  BY <1>0, ReqFacts DEF Placed, OrderSteps
<1>3. /\ req'[h].held = m /\ req'[h].node = req[h].node
      /\ req'[h].on = req[h].on /\ req'[h].pc = "wait"
      /\ \A g \in Handlers : g # h => req'[g] = req[g]
  BY <1>1, <1>2 DEF Move, TypeOK, Req
<1>4. m # None /\ orderLocks[req[h].node][req[h].on] = m
  BY DEF Entry
<1>5. HeldIsEntry'
  BY <1>1, <1>3, <1>4 DEF LockInv, HeldIsEntry, Entry
<1>6. Injective'
  BY <1>1 DEF LockInv, Injective
<1>7. Counted'
  <2>1. Holders(m)' = Holders(m) \cup {h} /\ h \notin Holders(m)
    BY <1>2, <1>3, <1>4 DEF Holders
  <2>2. Cardinality(Holders(m)') = Cardinality(Holders(m)) + 1
    BY <2>1, HoldersFinite, FS_AddElement
  <2>3. refCount[m] = Cardinality(Holders(m))
    BY <1>2, <1>4 DEF LockInv, Counted
  <2>4. refCount'[m] = Cardinality(Holders(m)')
    BY <1>1, <1>2, <2>2, <2>3 DEF TypeOK
  <2>5. \A x \in Mutexes : x # m => Holders(x)' = Holders(x) /\ refCount'[x] = refCount[x]
    BY <1>1, <1>2, <1>3, NoneAssumption DEF Holders, TypeOK
  <2> QED
    BY <1>1, <2>4, <2>5 DEF LockInv, Counted
<1>8. SectionAlone'
  <2>1. \A g \in Handlers : InSection(g)' => InSection(g) /\ g # h
    BY <1>3 DEF InSection
  <2> QED
    BY <1>1, <1>3, <2>1 DEF LockInv, SectionAlone
<1> QED
  BY <1>5, <1>6, <1>7, <1>8 DEF LockInv

\* A new entry counts its maker, the only one to know the mutex.
LEMMA LockNew ==
    ASSUME TypeOK, PlacedInv, LockInv, NEW h \in Handlers, LockOrder(h),
           Entry(h) = None
    PROVE  LockInv'
<1>0. NewMutex \in Mutexes /\ NewMutex \notin Referenced
  BY NewMutexFresh DEF LockOrder
<1> PICK m \in Mutexes : m = NewMutex
  BY <1>0
<1>1. /\ Move(h, "wait", req[h].view, m)
      /\ orderLocks' = [orderLocks EXCEPT ![req[h].node][req[h].on] = m]
      /\ locked' = [locked EXCEPT ![m] = FALSE]
      /\ refCount' = [refCount EXCEPT ![m] = 1]
  BY DEF LockOrder
<1>2. /\ req[h] \in Req /\ req[h].held = None
      /\ req[h].on \in Orders /\ req[h].node \in Nodes
  BY ReqFacts DEF LockOrder, Placed, OrderSteps
<1>3. /\ req'[h].held = m /\ req'[h].node = req[h].node
      /\ req'[h].on = req[h].on /\ req'[h].pc = "wait"
      /\ \A g \in Handlers : g # h => req'[g] = req[g]
  BY <1>1, <1>2 DEF Move, TypeOK, Req
<1>4. /\ \A g \in Handlers : req[g].held # m
      /\ \A n \in Nodes, o \in Orders : orderLocks[n][o] # m
  BY <1>0 DEF Referenced
<1>5. \A n \in Nodes, o \in Orders :
         orderLocks'[n][o] = IF n = req[h].node /\ o = req[h].on THEN m
                             ELSE orderLocks[n][o]
  BY <1>1, <1>2 DEF TypeOK
<1>6. m # None
  BY NoneAssumption
<1>7. HeldIsEntry'
  <2>1. ASSUME NEW g \in Handlers, req'[g].held # None
        PROVE  Entry(g)' = req'[g].held
    <3>1. CASE g = h
      BY <1>2, <1>3, <1>5, <3>1 DEF Entry
    <3>2. CASE g # h
      <4>1. req'[g] = req[g] /\ Entry(g) = req[g].held /\ req[g].held # None
        BY <1>3, <2>1, <3>2 DEF LockInv, HeldIsEntry
      <4>2. req[g].on \in Orders /\ req[g].node \in Nodes
        BY <4>1, HolderPlace
      <4>3. ~(req[g].node = req[h].node /\ req[g].on = req[h].on)
        BY <4>1 DEF Entry
      <4> QED
        BY <1>5, <4>1, <4>2, <4>3 DEF Entry
    <3> QED
      BY <3>1, <3>2
  <2> QED
    BY <2>1 DEF HeldIsEntry
<1>8. Injective'
  BY <1>4, <1>5 DEF LockInv, Injective
<1>9. Counted'
  <2>1. Holders(m)' = {h}
    BY <1>3, <1>4 DEF Holders
  <2>2. refCount'[m] = Cardinality(Holders(m)')
    BY <1>1, <2>1, FS_Singleton DEF TypeOK
  <2>3. \A x \in Mutexes : x # m => Holders(x)' = Holders(x)
    BY <1>2, <1>3, NoneAssumption DEF Holders
  <2>4. \A x \in Mutexes : x # m => refCount'[x] = refCount[x]
    BY <1>1 DEF TypeOK
  <2> QED
    BY <1>5, <2>2, <2>3, <2>4 DEF LockInv, Counted
<1>10. SectionAlone'
  <2>1. \A g \in Handlers : InSection(g)' => InSection(g) /\ g # h
    BY <1>3 DEF InSection
  <2>2. \A g \in Handlers : InSection(g) => req[g].held \in Mutexes
    BY HolderPlace DEF InSection
  <2>3. \A g \in Handlers : InSection(g) => locked'[req[g].held] = locked[req[g].held]
    BY <1>1, <1>4, <2>2 DEF TypeOK
  <2> QED
    BY <1>3, <2>1, <2>3 DEF LockInv, SectionAlone
<1> QED
  BY <1>7, <1>8, <1>9, <1>10 DEF LockInv

\* Who gets the mutex is alone inside.
LEMMA LockTaken ==
    ASSUME TypeOK, PlacedInv, LockInv, NEW h \in Handlers, MutexLock(h)
    PROVE  LockInv'
<1>1. req[h] \in Req /\ req[h].held # None /\ req[h].held \in Mutexes
  BY ReqFacts, HolderPlace DEF MutexLock, Placed
<1>2. /\ req'[h].held = req[h].held /\ req'[h].node = req[h].node
      /\ req'[h].on = req[h].on /\ req'[h].pc = "read"
      /\ \A g \in Handlers : g # h => req'[g] = req[g]
  BY <1>1 DEF MutexLock, Goto, Move, TypeOK, Req
<1>3. /\ locked' = [locked EXCEPT ![req[h].held] = TRUE] /\ ~locked[req[h].held]
      /\ UNCHANGED <<orderLocks, refCount>>
  BY DEF MutexLock
<1>4. HeldIsEntry'
  BY <1>2, <1>3 DEF LockInv, HeldIsEntry, Entry
<1>5. Injective'
  BY <1>3 DEF LockInv, Injective
<1>6. Counted'
  <2>1. \A m : Holders(m)' = Holders(m)
    BY <1>2 DEF Holders
  <2> QED
    BY <1>3, <2>1 DEF LockInv, Counted
<1>7. SectionAlone'
  <2>1. \A g \in Handlers : InSection(g) => req[g].held # req[h].held
    BY <1>3 DEF LockInv, SectionAlone
  <2>2. \A g \in Handlers : g # h => (InSection(g)' <=> InSection(g))
    BY <1>2 DEF InSection
  <2>3. locked'[req[h].held]
    BY <1>1, <1>3 DEF TypeOK
  <2>4. \A g \in Handlers : InSection(g) => locked'[req[g].held] = locked[req[g].held]
    <3>1. \A g \in Handlers : InSection(g) => req[g].held \in Mutexes
      BY HolderPlace DEF InSection
    <3> QED
      BY <1>1, <1>3, <2>1, <3>1 DEF TypeOK
  <2> QED
    BY <1>2, <2>1, <2>2, <2>3, <2>4 DEF LockInv, SectionAlone
<1> QED
  BY <1>4, <1>5, <1>6, <1>7 DEF LockInv

\* Who unlocks the entry unlocks the mutex it locked.
LEMMA LockGiven ==
    ASSUME TypeOK, PlacedInv, LockInv, NEW h \in Handlers, UnlockOrder(h)
    PROVE  LockInv'
<1>1. /\ req[h] \in Req /\ req[h].held # None /\ req[h].held \in Mutexes
      /\ InSection(h) /\ Entry(h) = req[h].held
  BY ReqFacts, HolderPlace DEF UnlockOrder, Placed, InSection, LockInv, HeldIsEntry
<1>2. /\ req'[h].held = req[h].held /\ req'[h].node = req[h].node
      /\ req'[h].on = req[h].on /\ req'[h].pc = "release"
      /\ \A g \in Handlers : g # h => req'[g] = req[g]
  <2>1. Move(h, "release", req[h].view, req[h].held)
    BY <1>1 DEF UnlockOrder
  <2> QED
    BY <1>1, <2>1 DEF Move, TypeOK, Req
<1>3. /\ \A m \in Mutexes : locked'[m] = (locked[m] /\ m # req[h].held)
      /\ UNCHANGED <<orderLocks, refCount>>
  BY <1>1 DEF UnlockOrder
<1>4. HeldIsEntry'
  BY <1>2, <1>3 DEF LockInv, HeldIsEntry, Entry
<1>5. Injective'
  BY <1>3 DEF LockInv, Injective
<1>6. Counted'
  <2>1. \A m : Holders(m)' = Holders(m)
    BY <1>2 DEF Holders
  <2> QED
    BY <1>3, <2>1 DEF LockInv, Counted
<1>7. SectionAlone'
  <2>1. \A g \in Handlers : InSection(g)' => InSection(g) /\ g # h
    BY <1>2 DEF InSection
  <2>2. \A g \in Handlers : InSection(g) /\ g # h => req[g].held # req[h].held
    BY <1>1 DEF LockInv, SectionAlone
  <2>3. \A g \in Handlers : InSection(g) => req[g].held \in Mutexes
    BY HolderPlace DEF InSection
  <2>4. \A g \in Handlers : InSection(g)' =>
           /\ InSection(g) /\ req'[g] = req[g] /\ locked[req[g].held]
           /\ req[g].held \in Mutexes /\ req[g].held # req[h].held
    BY <1>2, <2>1, <2>2, <2>3 DEF LockInv, SectionAlone
  <2>5. \A g \in Handlers : InSection(g)' => locked'[req'[g].held]
    BY <1>3, <2>4
  <2> QED
    BY <2>4, <2>5 DEF LockInv, SectionAlone
<1> QED
  BY <1>4, <1>5, <1>6, <1>7 DEF LockInv

\* The last one out removes the entry, and is the last to hold its mutex.
LEMMA LockReleased ==
    ASSUME TypeOK, PlacedInv, LockInv, NEW h \in Handlers, ReleaseEntry(h)
    PROVE  LockInv'
<1>0. /\ req[h] \in Req /\ req[h].held # None /\ req[h].held \in Mutexes
      /\ req[h].on \in Orders /\ req[h].node \in Nodes
      /\ Entry(h) = req[h].held
  BY ReqFacts, HolderPlace DEF ReleaseEntry, Placed, LockInv, HeldIsEntry
<1> PICK m \in Mutexes : m = req[h].held
  BY <1>0
<1>1. /\ req'[h].held = None /\ req'[h].pc = "idle"
      /\ \A g \in Handlers : g # h => req'[g] = req[g]
  BY DEF ReleaseEntry, Done, Idle, TypeOK
<1>2. /\ refCount' = [refCount EXCEPT ![m] = @ - 1]
      /\ orderLocks[req[h].node][req[h].on] = m
      /\ UNCHANGED locked
  BY <1>0 DEF ReleaseEntry, Entry
<1>3. /\ Holders(m)' = Holders(m) \ {h} /\ h \in Holders(m)
      /\ Cardinality(Holders(m)') = Cardinality(Holders(m)) - 1
      /\ refCount[m] = Cardinality(Holders(m))
  <2>1. Holders(m)' = Holders(m) \ {h} /\ h \in Holders(m)
    BY <1>0, <1>1 DEF Holders
  <2>2. Cardinality(Holders(m)') = Cardinality(Holders(m)) - 1
    BY <2>1, HoldersFinite, FS_RemoveElement
  <2> QED
    BY <1>0, <1>2, <2>1, <2>2 DEF LockInv, Counted
<1>4. refCount'[m] = Cardinality(Holders(m)')
  BY <1>2, <1>3 DEF TypeOK
<1>5. /\ \A x \in Mutexes : x # m => Holders(x)' = Holders(x)
      /\ \A x \in Mutexes : x # m => refCount'[x] = refCount[x]
  <2>1. \A x \in Mutexes : x # m => Holders(x)' = Holders(x)
    BY <1>0, <1>1, NoneAssumption DEF Holders
  <2>2. \A x \in Mutexes : x # m => refCount'[x] = refCount[x]
    BY <1>2 DEF TypeOK
  <2> QED
    BY <2>1, <2>2
<1>6. SectionAlone'
  <2>1. \A g \in Handlers : InSection(g)' => InSection(g) /\ req'[g] = req[g]
    BY <1>1 DEF InSection
  <2> QED
    BY <1>2, <2>1 DEF LockInv, SectionAlone
<1>7. CASE refCount[m] # 1
  <2>1. UNCHANGED orderLocks
    BY <1>7 DEF ReleaseEntry
  <2>2. HeldIsEntry'
    BY <1>1, <2>1 DEF LockInv, HeldIsEntry, Entry
  <2>3. Injective'
    BY <2>1 DEF LockInv, Injective
  <2>4. Counted'
    BY <1>4, <1>5, <2>1 DEF LockInv, Counted
  <2> QED
    BY <1>6, <2>2, <2>3, <2>4 DEF LockInv
<1>8. CASE refCount[m] = 1
  <2>1. orderLocks' = [orderLocks EXCEPT ![req[h].node][req[h].on] = None]
    BY <1>8 DEF ReleaseEntry
  <2>2. \A n \in Nodes, o \in Orders :
           orderLocks'[n][o] = IF n = req[h].node /\ o = req[h].on THEN None
                               ELSE orderLocks[n][o]
    BY <1>0, <2>1 DEF TypeOK
  <2>3. Holders(m)' = {}
    <3>1. IsFiniteSet(Holders(m)') /\ Cardinality(Holders(m)') = 0
      BY <1>3, <1>8, HoldersFinite, FS_RemoveElement
    <3> QED
      BY <3>1, FS_EmptySet
  <2>4. HeldIsEntry'
    <3>1. ASSUME NEW g \in Handlers, req'[g].held # None
          PROVE  Entry(g)' = req'[g].held
      <4>1. g # h /\ req'[g] = req[g] /\ req[g].held # None
        BY <1>1, <3>1
      <4>2. req[g].held # m
        BY <2>3, <4>1 DEF Holders
      <4>3. /\ Entry(g) = req[g].held
            /\ req[g].on \in Orders /\ req[g].node \in Nodes
        BY <4>1, HolderPlace DEF LockInv, HeldIsEntry
      <4>4. ~(req[g].node = req[h].node /\ req[g].on = req[h].on)
        BY <1>2, <4>2, <4>3 DEF Entry
      <4> QED
        BY <2>2, <4>1, <4>3, <4>4 DEF Entry
    <3> QED
      BY <3>1 DEF HeldIsEntry
  <2>5. Injective'
    BY <2>2 DEF LockInv, Injective
  <2>6. Counted'
    BY <1>4, <1>5, <2>2, NoneAssumption DEF LockInv, Counted
  <2> QED
    BY <1>6, <2>4, <2>5, <2>6 DEF LockInv
<1> QED
  BY <1>7, <1>8

\* A process that stops takes its handlers and its entries with it.
LEMMA LockCrash ==
    ASSUME TypeOK, PlacedInv, LockInv, NEW n \in Nodes, Crash(n)
    PROVE  LockInv'
<1>1. /\ \A g \in Handlers : req'[g] = IF req[g].node = n THEN Idle ELSE req[g]
      /\ \A p \in Nodes, o \in Orders :
            orderLocks'[p][o] = IF p = n THEN None ELSE orderLocks[p][o]
      /\ UNCHANGED <<locked, refCount>>
  BY DEF Crash, TypeOK
<1>2. Idle.held = None
  BY DEF Idle
<1>3. \A g \in Handlers : req'[g].held # None =>
         /\ req'[g] = req[g] /\ req[g].node # n
         /\ req[g].on \in Orders /\ req[g].node \in Nodes
         /\ Entry(g) = req[g].held
  BY <1>1, <1>2, HolderPlace DEF LockInv, HeldIsEntry
<1>4. HeldIsEntry'
  BY <1>1, <1>3 DEF HeldIsEntry, Entry
<1>5. Injective'
  BY <1>1 DEF LockInv, Injective
<1>6. Counted'
  <2>1. ASSUME NEW p \in Nodes, NEW o \in Orders, NEW m \in Mutexes,
               orderLocks'[p][o] = m
        PROVE  refCount'[m] = Cardinality(Holders(m)')
    <3>1. m # None /\ p # n /\ orderLocks[p][o] = m
      BY <1>1, <2>1, NoneAssumption
    <3>2. \A g \in Handlers : req[g].held = m => req[g].node # n
      <4>1. \A g \in Handlers : req[g].held = m =>
               /\ orderLocks[req[g].node][req[g].on] = m
               /\ req[g].on \in Orders /\ req[g].node \in Nodes
        BY <3>1, HolderPlace DEF LockInv, HeldIsEntry, Entry
      <4> QED
        BY <3>1, <4>1 DEF LockInv, Injective
    <3>3. Holders(m)' = Holders(m)
      BY <1>1, <1>2, <3>1, <3>2 DEF Holders
    <3> QED
      BY <1>1, <3>1, <3>3 DEF LockInv, Counted
  <2> QED
    BY <2>1 DEF Counted
<1>7. SectionAlone'
  <2>1. \A g \in Handlers : InSection(g)' => InSection(g) /\ req'[g] = req[g]
    BY <1>3 DEF InSection
  <2> QED
    BY <1>1, <2>1 DEF LockInv, SectionAlone
<1> QED
  BY <1>4, <1>5, <1>6, <1>7 DEF LockInv

LEMMA IdleRequest == Idle.held = None
BY DEF Idle

\* Every step keeps the lock map in order.
LEMMA LockStep ==
    ASSUME TypeOK, PlacedInv, LockInv, [Next]_vars
    PROVE  LockInv'
<1>1. ASSUME NEW h \in Handlers, NEW n \in Nodes, Request(h, n) PROVE LockInv'
  <2>1. PICK item, e, u, step : Start(h, n, item, e, u, step)
    BY <1>1 DEF Request, ReportPaid, ReportUnpaid, ReportOther,
                AdminCompleteTopUp, TopUp
  <2> QED
    BY <2>1, QuietStart
<1>2. ASSUME NEW h \in Handlers, Proceed(h) \/ WriteFails(h) PROVE LockInv'
  <2>1. CASE LockOrder(h)
    BY <2>1, LockExisting, LockNew
  <2>2. CASE MutexLock(h)
    BY <2>2, LockTaken
  <2>3. CASE UnlockOrder(h)
    BY <2>3, LockGiven
  <2>4. CASE ReleaseEntry(h)
    BY <2>4, LockReleased
  <2>5. CASE ReadOrder(h)
    BY <2>5, QuietMove DEF ReadOrder, Step
  <2>6. CASE EpayUpdate(h)
    BY <2>6, QuietMove DEF EpayUpdate, Goto, Step
  <2>7. CASE CompleteOrder(h)
    BY <2>7, QuietEnd DEF CompleteOrder
  <2>8. CASE EpayIncreaseUserQuota(h)
    BY <2>8, QuietEnd DEF EpayIncreaseUserQuota
  <2>9. CASE MarkUnpaid(h)
    BY <2>9, QuietEnd DEF MarkUnpaid
  <2>10. CASE LeaveOrder(h)
    BY <2>10, QuietEnd DEF LeaveOrder
  <2>11. CASE WriteFails(h)
    BY <2>11, QuietEnd DEF WriteFails
  <2>12. CASE ReadCode(h)
    <3>1. req[h].held = None
      BY <2>12, ReqFacts DEF ReadCode, Placed
    <3>2. CASE Done(h)
      BY <2>12, <3>1, <3>2, IdleRequest, QuietDone DEF ReadCode, Done, locks
    <3>3. CASE Move(h, "use", "enabled", None)
      <4>1. Move(h, "use", "enabled", req[h].held)
        BY <3>1, <3>3
      <4> QED
        BY <2>12, <3>1, <4>1, QuietMove DEF ReadCode, Step
    <3> QED
      BY <2>12, <3>2, <3>3 DEF ReadCode
  <2>13. CASE UseCode(h)
    <3>1. req[h].held = None
      BY <2>13, ReqFacts DEF UseCode, Placed
    <3> QED
      BY <2>13, <3>1, IdleRequest, QuietDone DEF UseCode, Done, locks
  <2> QED
    BY <1>2, <2>1, <2>2, <2>3, <2>4, <2>5, <2>6, <2>7, <2>8, <2>9, <2>10,
       <2>11, <2>12, <2>13 DEF Proceed
<1>3. ASSUME NEW n \in Nodes, Crash(n) PROVE LockInv'
  BY <1>3, LockCrash
<1>4. ASSUME UNCHANGED req, UNCHANGED locks PROVE LockInv'
  BY <1>4, QuietLocks DEF InSection
<1>5. CASE UNCHANGED vars
  BY <1>4, <1>5 DEF vars, locks
<1>6. ASSUME NEW o \in Orders,
             \/ CreateOrder(o) \/ CreateFails(o) \/ ReportUnresolved(o)
             \/ \E result \in {"paid", "failed"} : Settle(o, result)
      PROVE  LockInv'
  BY <1>4, <1>6 DEF CreateOrder, CreateFails, ReportUnresolved, Settle
<1> QED
  BY <1>1, <1>2, <1>3, <1>5, <1>6 DEF Next
-----------------------------------------------------------------------------
(* Types and mutual exclusion *)

LEMMA InitInv == Init => TypeOK /\ PlacedInv /\ LockInv
<1> SUFFICES ASSUME Init PROVE TypeOK /\ PlacedInv /\ LockInv
  OBVIOUS
<1>1. TypeOK
  BY IdleType, MaxFaultsAssumption DEF Init, TypeOK, Status
<1>2. PlacedInv
  BY DEF Init, PlacedInv, Placed, Idle, OrderSteps
<1>3. \A h \in Handlers : req[h].held = None /\ req[h].pc = "idle"
  BY DEF Init, Idle
<1>4. HeldIsEntry /\ SectionAlone
  BY <1>3 DEF HeldIsEntry, SectionAlone, InSection
<1>5. \A n \in Nodes, o \in Orders : orderLocks[n][o] = None
  BY DEF Init
<1>6. Injective /\ Counted
  BY <1>5, NoneAssumption DEF Injective, Counted
<1> QED
  BY <1>1, <1>2, <1>4, <1>6 DEF LockInv

LEMMA LocksHold == Spec => [](TypeOK /\ PlacedInv /\ LockInv)
<1>1. TypeOK /\ PlacedInv /\ LockInv /\ [Next]_vars =>
        (TypeOK /\ PlacedInv /\ LockInv)'
  BY TypeStep, LockStep
<1> QED
  BY <1>1, InitInv, PTL DEF Spec

\* The values every variable of the payment code may take, for any number of
\* processes, orders, requests and faults.
THEOREM PaymentTypeCorrect == Spec => []TypeOK
BY LocksHold, PTL

\* What being inside says of a request.
LEMMA InSectionFacts ==
    ASSUME TypeOK, PlacedInv, NEW h \in Handlers, InSection(h)
    PROVE  req[h].on \in Orders /\ req[h].node \in Nodes /\ req[h].held # None
BY ReqFacts DEF InSection, OrderSteps

\* LockOrder and UnlockOrder exclude one another's critical sections on an
\* order within a process, although entries are removed and made again.
THEOREM OrdersExcluded == Spec => []OrderMutex
<1>1. TypeOK /\ PlacedInv /\ LockInv => OrderMutex
  BY DEF LockInv, HeldIsEntry, SectionAlone, OrderMutex, InSection, Entry
<1> QED
  BY <1>1, LocksHold, PTL

-----------------------------------------------------------------------------
(* Credits, with one process *)

OneProcess == \A m, n \in Nodes : m = n

\* An order is credited at most once, not before it left pending, and one
\* of neither waffo nor pancake is successful from then on.
CreditOK(o) ==
    /\ credits[o] \in {0, 1}
    /\ status[o] \in {"absent", "pending"} => credits[o] = 0
    /\ credits[o] > 0 /\ kind[o] \notin {"waffo", "pancake"} => status[o] = "success"

\* A request that is about to write under the lock what it read as pending,
\* or to make epay's second write, is about an order not yet credited.
Uncredited(r) ==
    /\ (r.pc = "write" /\ r.view = "pending" /\ r.held # None) =>
          credits[r.on] = 0
    /\ r.pc = "credit" =>
          /\ credits[r.on] = 0
          /\ kind[r.on] = "epay"
          /\ status[r.on] = "success"

CreditInv ==
    /\ \A o \in Orders : CreditOK(o)
    /\ \A h \in Handlers : Uncredited(req[h])

LEMMA CreditQuiet ==
    ASSUME CreditInv, UNCHANGED <<kind, status, credits>>,
           \A h \in Handlers :
               req'[h] = req[h] \/ req'[h].pc \notin {"write", "credit"}
    PROVE  CreditInv'
BY DEF CreditInv, CreditOK, Uncredited

\* With one process, two requests inside for one order are the same.
LEMMA Alone ==
    ASSUME TypeOK, PlacedInv, LockInv, OneProcess,
           NEW g \in Handlers, NEW h \in Handlers, InSection(g), InSection(h),
           req[g].on = req[h].on
    PROVE  g = h
<1>1. req[g].node = req[h].node
  BY InSectionFacts DEF OneProcess
<1>2. req[g].held = req[h].held
  BY <1>1 DEF LockInv, HeldIsEntry, Entry, InSection
<1> QED
  BY <1>2 DEF LockInv, SectionAlone

\* A request that works on an order under its lock is the only one that
\* Uncredited says something of for this order.
LEMMA AloneUncredited ==
    ASSUME TypeOK, PlacedInv, LockInv, OneProcess,
           NEW g \in Handlers, NEW h \in Handlers, g # h, InSection(h),
           req[g].on = req[h].on
    PROVE  /\ ~(req[g].pc = "write" /\ req[g].held # None)
           /\ req[g].pc # "credit"
BY Alone, ReqFacts DEF InSection, Placed

\* The other requests keep Uncredited when the request of h writes its order
\* under the lock.
LEMMA OthersKept ==
    ASSUME TypeOK, PlacedInv, LockInv, OneProcess, CreditInv,
           NEW h \in Handlers, InSection(h), NEW g \in Handlers, g # h,
           req'[g] = req[g], kind' = kind,
           \A o \in Orders : o # req[h].on =>
               status'[o] = status[o] /\ credits'[o] = credits[o]
    PROVE  Uncredited(req[g])'
<1>1. CASE req[g].on = req[h].on
  BY <1>1, AloneUncredited DEF Uncredited
<1>2. CASE req[g].on # req[h].on
  <2>1. req[g].pc \in {"write", "credit"} => req[g].on \in Orders
    BY ReqFacts DEF OrderSteps
  <2> QED
    BY <1>2, <2>1 DEF CreditInv, Uncredited
<1> QED
  BY <1>1, <1>2

\* The writer is inside and may take its order for pending and uncredited.
LEMMA WriterFacts ==
    ASSUME TypeOK, PlacedInv, CreditInv, NEW h \in Handlers,
           req[h].pc = "write", req[h].view = "pending", req[h].held # None
    PROVE  InSection(h) /\ req[h].on \in Orders /\ credits[req[h].on] = 0
BY ReqFacts DEF CreditInv, Uncredited, InSection, OrderSteps

\* A request that ends or goes to unlock touches no other.
LEMMA EndWorkReq ==
    ASSUME TypeOK, NEW h \in Handlers, EndWork(h)
    PROVE  /\ req'[h].pc \in {"idle", "unlock"}
           /\ \A g \in Handlers : g # h => req'[g] = req[g]
<1>1. req[h] \in Req
  BY DEF TypeOK
<1>2. CASE Done(h)
  BY <1>2 DEF Done, Idle, TypeOK
<1>3. CASE Goto(h, "unlock")
  BY <1>1, <1>3 DEF Goto, Move, TypeOK, Req
<1> QED
  BY <1>2, <1>3 DEF EndWork

LEMMA MoveReq ==
    ASSUME TypeOK, NEW h \in Handlers, NEW step, NEW v, NEW m,
           Move(h, step, v, m)
    PROVE  /\ req'[h].pc = step /\ req'[h].view = v /\ req'[h].held = m
           /\ req'[h].on = req[h].on
           /\ \A g \in Handlers : g # h => req'[g] = req[g]
<1>1. req[h] \in Req
  BY DEF TypeOK
<1> QED
  BY <1>1 DEF Move, TypeOK, Req

LEMMA CreditStep ==
    ASSUME TypeOK, PlacedInv, LockInv, OneProcess, CreditInv, [Next]_vars
    PROVE  CreditInv'
<1> USE DEF provider, codes, locks
<1>1. ASSUME NEW o \in Orders, CreateOrder(o) PROVE CreditInv'
  <2>1. \A p \in Orders : CreditOK(p)'
    BY <1>1 DEF CreateOrder, CreditInv, CreditOK, TypeOK
  <2>2. \A h \in Handlers : Uncredited(req[h])'
    <3>1. \A h \in Handlers : req[h].pc = "credit" =>
             status[req[h].on] = "success" /\ req[h].on \in Orders
      BY ReqFacts DEF CreditInv, Uncredited, OrderSteps
    <3> QED
      BY <1>1, <3>1 DEF CreateOrder, CreditInv, Uncredited, TypeOK
  <2> QED
    BY <2>1, <2>2 DEF CreditInv
<1>2. ASSUME NEW o \in Orders, CreateFails(o) PROVE CreditInv'
  <2>1. \A p \in Orders : CreditOK(p)'
    BY <1>2 DEF CreateFails, CreditInv, CreditOK, TypeOK
  <2>2. \A h \in Handlers : Uncredited(req[h])'
    <3>1. \A h \in Handlers : req[h].pc = "credit" =>
             kind[req[h].on] = "epay" /\ req[h].on \in Orders
      BY ReqFacts DEF CreditInv, Uncredited, OrderSteps
    <3> QED
      BY <1>2, <3>1 DEF CreateFails, CreditInv, Uncredited, TypeOK
  <2> QED
    BY <2>1, <2>2 DEF CreditInv
<1>3. ASSUME NEW o \in Orders, NEW result, Settle(o, result) PROVE CreditInv'
  BY <1>3, CreditQuiet DEF Settle
<1>4. ASSUME NEW h \in Handlers, NEW n \in Nodes, Request(h, n)
      PROVE  CreditInv'
  <2>1. PICK item, e, u, step : Start(h, n, item, e, u, step)
                                  /\ step \in {"lock", "read", "redeem"}
    BY <1>4 DEF Request, ReportPaid, ReportUnpaid, ReportOther,
                AdminCompleteTopUp, TopUp
  <2>2. \A g \in Handlers :
           req'[g] = req[g] \/ req'[g].pc \notin {"write", "credit"}
    BY <2>1 DEF Start, TypeOK, Idle
  <2> QED
    BY <2>1, <2>2, CreditQuiet DEF Start
<1>5. ASSUME NEW h \in Handlers,
             LockOrder(h) \/ MutexLock(h) \/ UnlockOrder(h) \/ ReleaseEntry(h)
                 \/ ReadCode(h) \/ UseCode(h)
      PROVE  CreditInv'
  <2>1. UNCHANGED <<kind, status, credits>>
    BY <1>5 DEF LockOrder, MutexLock, UnlockOrder, ReleaseEntry, ReadCode,
                UseCode
  <2>2. \/ Done(h)
        \/ \E step \in {"wait", "read", "release", "use"} : \E v, m :
              Move(h, step, v, m)
    <3>1. CASE LockOrder(h)
      BY <3>1 DEF LockOrder
    <3>2. CASE MutexLock(h)
      BY <3>2 DEF MutexLock, Goto
    <3>3. CASE UnlockOrder(h)
      BY <3>3 DEF UnlockOrder
    <3>4. CASE ReleaseEntry(h) \/ UseCode(h)
      BY <3>4 DEF ReleaseEntry, UseCode
    <3>5. CASE ReadCode(h)
      BY <3>5 DEF ReadCode
    <3> QED
      BY <1>5, <3>1, <3>2, <3>3, <3>4, <3>5
  <2>3. \A g \in Handlers :
           req'[g] = req[g] \/ req'[g].pc \notin {"write", "credit"}
    <3>1. CASE Done(h)
      BY <3>1 DEF Done, Idle, TypeOK
    <3>2. ASSUME NEW step \in {"wait", "read", "release", "use"}, NEW v, NEW m,
                 Move(h, step, v, m)
          PROVE  \A g \in Handlers :
                    req'[g] = req[g] \/ req'[g].pc \notin {"write", "credit"}
      BY <3>2, MoveReq
    <3> QED
      BY <2>2, <3>1, <3>2
  <2> QED
    BY <2>1, <2>3, CreditQuiet
<1>6. ASSUME NEW h \in Handlers, LeaveOrder(h) \/ WriteFails(h)
      PROVE  CreditInv'
  <2>1. UNCHANGED <<kind, status, credits>> /\ EndWork(h)
    BY <1>6 DEF LeaveOrder, WriteFails
  <2> QED
    BY <2>1, EndWorkReq, CreditQuiet
<1>7. ASSUME NEW h \in Handlers, ReadOrder(h) PROVE CreditInv'
  <2>1. req[h].on \in Orders /\ UNCHANGED <<kind, status, credits>>
    BY <1>7, ReqFacts DEF ReadOrder, OrderSteps
  <2>2. /\ req'[h].pc = "write" /\ req'[h].view = status[req[h].on]
        /\ req'[h].on = req[h].on
        /\ \A g \in Handlers : g # h => req'[g] = req[g]
    BY <1>7, MoveReq DEF ReadOrder
  <2>3. status[req[h].on] = "pending" => credits[req[h].on] = 0
    BY <2>1 DEF CreditInv, CreditOK
  <2>4. \A g \in Handlers : Uncredited(req[g])'
    BY <2>1, <2>2, <2>3 DEF CreditInv, Uncredited
  <2> QED
    BY <2>1, <2>4 DEF CreditInv, CreditOK
<1>8. ASSUME NEW h \in Handlers, CompleteOrder(h) PROVE CreditInv'
  <2>1. req[h].pc = "write" /\ req[h].view = "pending" /\ req[h].held # None
    BY <1>8, ReqFacts DEF CompleteOrder, Completes, Placed
  <2>2. InSection(h) /\ req[h].on \in Orders /\ credits[req[h].on] = 0
    BY <2>1, WriterFacts
  <2>3. /\ status' = [status EXCEPT ![req[h].on] = "success"]
        /\ credits' = [credits EXCEPT ![req[h].on] = @ + 1]
        /\ kind' = kind /\ EndWork(h)
    BY <1>8 DEF CompleteOrder
  <2>4. \A o \in Orders : CreditOK(o)'
    BY <2>2, <2>3 DEF CreditInv, CreditOK, TypeOK
  <2>5. ASSUME NEW g \in Handlers PROVE Uncredited(req[g])'
    <3>1. CASE g = h
      BY <2>3, <3>1, EndWorkReq DEF Uncredited
    <3>2. CASE g # h
      BY <2>2, <2>3, <3>2, EndWorkReq, OthersKept DEF TypeOK
    <3> QED
      BY <3>1, <3>2
  <2> QED
    BY <2>4, <2>5 DEF CreditInv
<1>9. ASSUME NEW h \in Handlers, EpayUpdate(h) PROVE CreditInv'
  <2>1. req[h].pc = "write" /\ req[h].view = "pending" /\ req[h].held # None
    BY <1>9, ReqFacts DEF EpayUpdate, Completes, Placed
  <2>2. InSection(h) /\ req[h].on \in Orders /\ credits[req[h].on] = 0
    BY <2>1, WriterFacts
  <2>3. /\ status' = [status EXCEPT ![req[h].on] = "success"]
        /\ credits' = credits /\ kind' = kind /\ kind[req[h].on] = "epay"
    BY <1>9 DEF EpayUpdate, ByEpay
  <2>4. /\ req'[h].pc = "credit" /\ req'[h].on = req[h].on
        /\ \A g \in Handlers : g # h => req'[g] = req[g]
    BY <1>9, MoveReq DEF EpayUpdate, Goto
  <2>5. \A o \in Orders : CreditOK(o)'
    BY <2>2, <2>3 DEF CreditInv, CreditOK, TypeOK
  <2>6. ASSUME NEW g \in Handlers PROVE Uncredited(req[g])'
    <3>1. CASE g = h
      BY <2>2, <2>3, <2>4, <3>1 DEF Uncredited, TypeOK
    <3>2. CASE g # h
      BY <2>2, <2>3, <2>4, <3>2, OthersKept DEF TypeOK
    <3> QED
      BY <3>1, <3>2
  <2> QED
    BY <2>5, <2>6 DEF CreditInv
<1>10. ASSUME NEW h \in Handlers, EpayIncreaseUserQuota(h) PROVE CreditInv'
  <2>1. /\ InSection(h) /\ req[h].on \in Orders
        /\ credits[req[h].on] = 0 /\ status[req[h].on] = "success"
    BY <1>10, ReqFacts
       DEF EpayIncreaseUserQuota, Placed, OrderSteps, InSection, CreditInv,
           Uncredited
  <2>2. /\ credits' = [credits EXCEPT ![req[h].on] = @ + 1]
        /\ status' = status /\ kind' = kind /\ EndWork(h)
    BY <1>10 DEF EpayIncreaseUserQuota
  <2>3. \A o \in Orders : CreditOK(o)'
    BY <2>1, <2>2 DEF CreditInv, CreditOK, TypeOK
  <2>4. ASSUME NEW g \in Handlers PROVE Uncredited(req[g])'
    <3>1. CASE g = h
      BY <2>2, <3>1, EndWorkReq DEF Uncredited
    <3>2. CASE g # h
      BY <2>1, <2>2, <3>2, EndWorkReq, OthersKept DEF TypeOK
    <3> QED
      BY <3>1, <3>2
  <2> QED
    BY <2>3, <2>4 DEF CreditInv
<1>11. ASSUME NEW h \in Handlers, MarkUnpaid(h) PROVE CreditInv'
  <2>1. /\ req[h].pc = "write" /\ req[h].view = "pending"
        /\ req[h].ev \in {"failed", "expired"}
        /\ status' = [status EXCEPT ![req[h].on] = req[h].ev]
        /\ credits' = credits /\ kind' = kind /\ EndWork(h)
    BY <1>11 DEF MarkUnpaid
  <2>2. req[h].on \in Orders
    BY <2>1, ReqFacts DEF OrderSteps
  <2>3. CASE req[h].held # None
    <3>1. InSection(h) /\ credits[req[h].on] = 0
      BY <2>1, <2>3, WriterFacts
    <3>2. \A o \in Orders : CreditOK(o)'
      BY <2>1, <2>2, <3>1 DEF CreditInv, CreditOK, TypeOK
    <3>3. ASSUME NEW g \in Handlers PROVE Uncredited(req[g])'
      <4>1. CASE g = h
        BY <2>1, <4>1, EndWorkReq DEF Uncredited
      <4>2. CASE g # h
        BY <2>1, <2>2, <3>1, <4>2, EndWorkReq, OthersKept DEF TypeOK
      <4> QED
        BY <4>1, <4>2
    <3> QED
      BY <3>2, <3>3 DEF CreditInv
  <2>4. CASE req[h].held = None
    <3>1. kind[req[h].on] = "waffo"
      BY <2>1, <2>4, ReqFacts DEF Placed
    <3>2. \A o \in Orders : CreditOK(o)'
      BY <2>1, <2>2, <3>1 DEF CreditInv, CreditOK, TypeOK
    <3>3. ASSUME NEW g \in Handlers PROVE Uncredited(req[g])'
      <4>1. CASE g = h
        BY <2>1, <4>1, EndWorkReq DEF Uncredited
      <4>2. CASE g # h
        <5>1. req'[g] = req[g]
          BY <2>1, <4>2, EndWorkReq
        <5>2. req[g].pc = "credit" =>
                 req[g].on \in Orders /\ req[g].on # req[h].on
          BY <3>1, ReqFacts DEF CreditInv, Uncredited, OrderSteps
        <5> QED
          BY <2>1, <2>2, <5>1, <5>2 DEF CreditInv, Uncredited, TypeOK
      <4> QED
        BY <4>1, <4>2
    <3> QED
      BY <3>2, <3>3 DEF CreditInv
  <2> QED
    BY <2>3, <2>4
<1>12. ASSUME NEW n \in Nodes, Crash(n) PROVE CreditInv'
  <2>1. \A g \in Handlers :
           req'[g] = req[g] \/ req'[g].pc \notin {"write", "credit"}
    BY <1>12 DEF Crash, Idle
  <2> QED
    BY <1>12, <2>1, CreditQuiet DEF Crash
<1>13. CASE UNCHANGED vars
  BY <1>13, CreditQuiet DEF vars
<1>14. ASSUME NEW o \in Orders, ReportUnresolved(o) PROVE CreditInv'
  BY <1>14, CreditQuiet DEF ReportUnresolved
<1> QED
  BY <1>1, <1>2, <1>3, <1>4, <1>5, <1>6, <1>7, <1>8, <1>9, <1>10, <1>11,
     <1>12, <1>13, <1>14 DEF Next, Proceed

LEMMA CreditsHold ==
    ASSUME OneProcess
    PROVE  Spec => []CreditInv
<1>1. Init => CreditInv
  BY DEF Init, CreditInv, CreditOK, Uncredited, Idle
<1>2. TypeOK /\ PlacedInv /\ LockInv /\ CreditInv /\ [Next]_vars => CreditInv'
  BY CreditStep
<1> QED
  BY <1>1, <1>2, LocksHold, PTL DEF Spec

\* With one process an order is credited once, however its reports, the
\* administrator's completions, failing writes and crashes interleave:
\* LockOrder makes up for the row locks the transactions do not take.
THEOREM OrderCreditedOnce ==
    ASSUME OneProcess
    PROVE  Spec => []CreditedOnce
<1>1. CreditInv => CreditedOnce
  BY DEF CreditInv, CreditOK, CreditedOnce
<1> QED
  BY <1>1, CreditsHold, PTL

\* With one process an order of epay, stripe or creem that was credited stays
\* successful.  Orders of waffo and pancake may not: RequestWaffoPay and
\* RequestWaffoPancakePay save a failure without the lock.
THEOREM OrderStaysSuccess ==
    ASSUME OneProcess
    PROVE  Spec => []CreditedStaysSuccess
<1>1. CreditInv => CreditedStaysSuccess
  BY DEF CreditInv, CreditOK, CreditedStaysSuccess
<1> QED
  BY <1>1, CreditsHold, PTL
============================================================================
