------------------------- MODULE TaskBillingProofs -------------------------
(***************************************************************************)
(* Proofs about TaskBilling, for any number of tasks, pollers and prices.  *)
(* Types first, with what a poller knows of the task in hand; then, where  *)
(* every writer goes through the CAS, the money.                           *)
(***************************************************************************)
EXTENDS TaskBilling, TLAPS

Steps == {"none", "answer", "funding", "token", "persist", "save"}
Billing == {"funding", "token", "persist"}

\* A poller at work has a task in hand, and never adjusts its accounts by more
\* than the price it copied.
WorkInvAt(p) ==
  /\ step[p] # "none" => cur[p] \in Tasks
  /\ phase[p] = "idle" => step[p] = "none"
  /\ step[p] \in Billing => copy[p][cur[p]].quota + delta[p] >= 0

WorkInv == \A p \in Pollers : WorkInvAt(p)

-----------------------------------------------------------------------------
(* Types                                                                      *)

\* The variables of the task in hand have their types.
JobOK ==
  /\ step \in [Pollers -> Steps]
  /\ cur \in [Pollers -> Tasks \cup {NoTask}]
  /\ answer \in [Pollers -> Answer]
  /\ delta \in [Pollers -> Int]

\* The step of a poller that goes on with a task, or drops it.
Works(p) ==
  \E t \in Tasks \cup {NoTask}, w \in Steps, a \in Answer, d \in Int :
    /\ Continue(p, t, w, a, d)
    /\ w # "none" => t \in Tasks /\ phase[p] # "idle"
    /\ w \in Billing => copy[p][t].quota + d >= 0

\* The answers and rows the actions write have their types.
LEMMA Constants ==
  /\ NoAnswer \in Answer /\ Failed \in Answer
  /\ NoRow \in Row
  /\ Terminal \subseteq Statuses
BY DEF NoAnswer, Failed, Answer, NoRow, Row, Terminal, Statuses

\* A poller that works keeps its variables in shape.
LEMMA WorkStep ==
  ASSUME TypeOK, WorkInv, NEW p \in Pollers, Works(p), UNCHANGED <<phase, copy>>
  PROVE  JobOK' /\ WorkInv'
<1>1. PICK t \in Tasks \cup {NoTask}, w \in Steps, a \in Answer, d \in Int :
        /\ Continue(p, t, w, a, d)
        /\ w # "none" => t \in Tasks /\ phase[p] # "idle"
        /\ w \in Billing => copy[p][t].quota + d >= 0
  BY DEF Works
<1>2. JobOK'
  BY <1>1 DEF TypeOK, JobOK, Continue, Steps
<1>3. ASSUME NEW q \in Pollers PROVE WorkInvAt(q)'
  <2>1. CASE q = p
    BY <1>1, <2>1 DEF TypeOK, Continue, WorkInvAt
  <2>2. CASE q # p
    <3>1. /\ step'[q] = step[q] /\ cur'[q] = cur[q] /\ delta'[q] = delta[q]
      BY <1>1, <2>2 DEF TypeOK, Continue
    <3> QED
      BY <3>1 DEF WorkInv, WorkInvAt
  <2> QED
    BY <2>1, <2>2
<1> QED
  BY <1>2, <1>3 DEF WorkInv

\* Dropping the task in hand is always a proper step.
LEMMA DropWorks ==
  ASSUME NEW p \in Pollers, Drop(p)
  PROVE  Works(p)
BY Constants DEF Drop, Works, Steps, Billing

\* So is going on with a task.
LEMMA ContinueWorks ==
  ASSUME NEW p \in Pollers, NEW t \in Tasks, NEW w \in Steps, NEW a \in Answer, NEW d \in Int,
         Continue(p, t, w, a, d), phase[p] # "idle",
         w \in Billing => copy[p][t].quota + d >= 0
  PROVE  Works(p)
BY DEF Works

\* So is starting to bill, if the adjustment is not below the price.
LEMMA AdjustWorks ==
  ASSUME NEW p \in Pollers, NEW t \in Tasks, NEW a \in Answer, NEW d \in Int,
         Adjust(p, t, a, d), phase[p] # "idle", copy[p][t].quota + d >= 0
  PROVE  Works(p)
<1>1. CASE d = 0
  BY <1>1, DropWorks DEF Adjust
<1>2. CASE d # 0
  <2>1. Continue(p, t, "funding", a, d)
    BY <1>2 DEF Adjust
  <2> QED
    BY <2>1, ContinueWorks DEF Steps, Billing
<1> QED
  BY <1>1, <1>2

\* What the provider answers is an answer.
LEMMA AnswersType ==
  ASSUME TypeOK, NEW t \in Tasks, NEW a \in Answers(t)
  PROVE  a \in Answer
<1>1. up[t] \in Statuses
  BY DEF TypeOK, Statuses
<1>2. \/ a = [status |-> up[t], failed |-> up[t] = "FAILURE"]
      \/ a = Failed
      \/ a = [status |-> up[t], failed |-> TRUE]
  BY DEF Answers
<1>3. \A b \in BOOLEAN : [status |-> up[t], failed |-> b] \in Answer
  BY <1>1 DEF Answer
<1>4. (up[t] = "FAILURE") \in BOOLEAN
  OBVIOUS
<1> QED
  BY <1>2, <1>3, <1>4, Constants, Zenon

\* Writing a row, or the price of one, keeps the rows in shape.
LEMMA RowWrite ==
  ASSUME TypeOK, NEW t \in Tasks, NEW new \in Row, row' = [row EXCEPT ![t] = new]
  PROVE  row' \in [Tasks -> Row]
BY DEF TypeOK

LEMMA RowFields ==
  ASSUME NEW x \in Row
  PROVE  /\ x.status \in Statuses /\ x.quota \in Nat
         /\ \A q \in Nat : [x EXCEPT !.quota = q] \in Row
         /\ [x EXCEPT !.status = "FAILURE", !.done = TRUE] \in Row
BY DEF Row, Statuses

\* A copy with another status is a row with the price of the copy.
LEMMA StatusWrite ==
  ASSUME NEW x \in Row, NEW s \in Statuses
  PROVE  /\ WithStatus(x, s) \in Row
         /\ WithStatus(x, s).status = s /\ WithStatus(x, s).quota = x.quota
BY DEF Row, WithStatus

\* So is the task RelayTask inserts.
LEMMA InitTaskType ==
  ASSUME TypeOK, NEW t \in Tasks, NEW q \in Nat
  PROVE  /\ InitTask(t, q) \in Row
         /\ InitTask(t, q).status = "NOT_START" /\ InitTask(t, q).quota = q
<1>1. attr[t].submitTime \in Nat
  BY AttributesAssumption DEF TypeOK, Attribute
<1> QED
  BY <1>1 DEF InitTask, Row, Statuses

\* Every step keeps the types.
LEMMA TypeStep ==
  ASSUME TypeOK, WorkInv, [Next]_vars
  PROVE  TypeOK' /\ WorkInv'
<1> USE DEF subVars, envVars, pollVars, money
<1>1. ASSUME NEW t \in Tasks, NEW q \in Quotas, PreConsumeBilling(t, q)
      PROVE  TypeOK' /\ WorkInv'
  BY <1>1, PricesAssumption
     DEF PreConsumeBilling, Submission, TypeOK, WorkInv, WorkInvAt
<1>2. ASSUME NEW t \in Tasks, NEW q \in Quotas, SettleSubmission(t, q)
      PROVE  TypeOK' /\ WorkInv'
  <2>1. row' \in [Tasks -> Row]
    <3>1. row' = [row EXCEPT ![t] = InitTask(t, q)] /\ q \in Nat
      BY <1>2, PricesAssumption DEF SettleSubmission
    <3> QED
      BY <3>1, InitTaskType, RowWrite
  <2>2. charge' \in [Tasks -> Int] /\ tCharge' \in [Tasks -> Int]
    BY <1>2, PricesAssumption DEF SettleSubmission, TypeOK
  <2> QED
    BY <1>2, <2>1, <2>2 DEF SettleSubmission, Submission, TypeOK, WorkInv, WorkInvAt
<1>3. ASSUME NEW t \in Tasks, SubmitFailed(t) \/ InsertTask(t) \/ CrashSubmission(t)
      PROVE  TypeOK' /\ WorkInv'
  <2>1. /\ sub' \in [Tasks -> {"new", "open", "accepted", "inserted", "refused", "lost"}]
        /\ charge' \in [Tasks -> Int] /\ tCharge' \in [Tasks -> Int]
    <3>1. CASE SubmitFailed(t)
      BY <3>1 DEF SubmitFailed, Submission, TypeOK
    <3>2. CASE InsertTask(t)
      <4>1. PICK to \in {"inserted", "lost"} : Submission(t, "accepted", to)
        BY <3>2 DEF InsertTask
      <4> QED
        BY <3>2, <4>1 DEF InsertTask, Submission, TypeOK
    <3>3. CASE CrashSubmission(t)
      BY <3>3 DEF CrashSubmission, Submission, TypeOK
    <3> QED
      BY <1>3, <3>1, <3>2, <3>3
  <2>2. UNCHANGED <<attr, row, fetch, reopened, envVars, pollVars>>
    BY <1>3 DEF SubmitFailed, InsertTask, CrashSubmission
  <2> QED
    BY <2>1, <2>2 DEF TypeOK, WorkInv, WorkInvAt
<1>4. ASSUME NEW p \in Pollers, SelectTimedOut(p) \/ SelectUnfinished(p) \/ Sleep(p)
      PROVE  TypeOK' /\ WorkInv'
  <2>1. PICK S \in SUBSET Tasks, w \in {"idle", "sweep", "poll"} : Select(p, w, S) /\ step[p] = "none"
    BY <1>4 DEF SelectTimedOut, SelectUnfinished, Sleep, TimedOut, Oldest, First, Unfinished, Free,
         WorkInv, WorkInvAt
  <2>2. TypeOK'
    BY <2>1, Constants DEF Select, TypeOK
  <2>3. ASSUME NEW q \in Pollers PROVE WorkInvAt(q)'
    BY <2>1 DEF Select, TypeOK, WorkInv, WorkInvAt, Billing
  <2> QED
    BY <2>2, <2>3 DEF WorkInv
<1>5. ASSUME NEW p \in Pollers, NEW t \in Tasks, SweepTask(p, t)
      PROVE  TypeOK' /\ WorkInv'
  <2> copy[p][t] \in Row /\ copy[p][t].quota \in Nat
    BY DEF TypeOK, Row
  <2>1. batch' \in [Pollers -> SUBSET Tasks]
    BY <1>5 DEF SweepTask, TakeOff, TypeOK
  <2>3. row' \in [Tasks -> Row]
    <3>1. WithStatus(copy[p][t], "FAILURE") \in Row
      BY StatusWrite DEF Statuses
    <3> QED
      BY <1>5, <3>1, RowWrite DEF SweepTask, UpdateWithStatus, TypeOK
  <2>2. Works(p)
    <3>1. CASE Drop(p)
      BY <3>1, DropWorks
    <3>2. CASE Adjust(p, t, Failed, IF IsLegacy(copy[p][t]) THEN 0 ELSE -copy[p][t].quota)
      BY <1>5, <3>2, AdjustWorks, Constants DEF SweepTask
    <3> QED
      BY <1>5, <3>1, <3>2 DEF SweepTask
  <2> QED
    BY <1>5, <2>1, <2>2, <2>3, WorkStep DEF SweepTask, TypeOK, JobOK, Steps
<1>6. ASSUME NEW p \in Pollers, NEW t \in Tasks, FetchTask(p, t)
      PROVE  TypeOK' /\ WorkInv'
  <2>1. batch' \in [Pollers -> SUBSET Tasks]
    BY <1>6 DEF FetchTask, TakeOff, TypeOK
  <2>2. Works(p)
    <3>1. CASE Drop(p)
      BY <3>1, DropWorks
    <3>2. ASSUME NEW a \in Answers(t), Continue(p, t, "answer", a, 0) PROVE Works(p)
      <4>1. a \in Answer /\ "answer" \in Steps /\ "answer" \notin Billing /\ phase[p] # "idle"
        BY <1>6, AnswersType DEF FetchTask, Steps, Billing
      <4> QED
        BY <4>1, <3>2, ContinueWorks
    <3> QED
      BY <1>6, <3>1, <3>2 DEF FetchTask
  <2> QED
    BY <1>6, <2>1, <2>2, WorkStep DEF FetchTask, TypeOK, JobOK, Steps
<1>7. ASSUME NEW p \in Pollers, NEW t \in Tasks, FailChannelTasks(p, t)
      PROVE  TypeOK' /\ WorkInv'
  <2>1. row' \in [Tasks -> Row]
    <3>1. \A u \in Tasks : row[u] \in Row /\ [row[u] EXCEPT !.status = "FAILURE", !.done = TRUE] \in Row
      BY RowFields DEF TypeOK
    <3> QED
      BY <1>7, <3>1 DEF FailChannelTasks
  <2>2. batch' \in [Pollers -> SUBSET Tasks]
    BY <1>7 DEF FailChannelTasks, TakeOff, TypeOK
  <2> QED
    BY <1>7, <2>1, <2>2 DEF FailChannelTasks, TypeOK, WorkInv, WorkInvAt
<1>8. ASSUME NEW p \in Pollers, NEW b \in Actuals, UpdateVideoTask(p, b)
      PROVE  TypeOK' /\ WorkInv'
  <2> DEFINE t == cur[p]
  <2> /\ t \in Tasks /\ copy[p][t] \in Row /\ copy[p][t].quota \in Nat /\ b \in Nat
      /\ answer[p] \in Answer /\ answer[p].status \in Statuses /\ phase[p] # "idle"
    BY <1>8, PricesAssumption DEF TypeOK, Row, Answer, UpdateVideoTask, WorkInv, WorkInvAt
  <2>1. row' \in [Tasks -> Row]
    <3>1. WithStatus(copy[p][t], answer[p].status) \in Row
      BY StatusWrite
    <3> QED
      BY <1>8, <3>1, RowWrite DEF UpdateVideoTask, UpdateWithStatus, TypeOK
  <2>2. Works(p)
    <3>1. CASE Drop(p)
      BY <3>1, DropWorks
    <3>2. CASE Adjust(p, t, answer[p], Settlement(p, t, b))
      <4>1. Settlement(p, t, b) \in Int /\ copy[p][t].quota + Settlement(p, t, b) >= 0
        BY DEF Settlement
      <4> QED
        BY <3>2, <4>1, AdjustWorks
    <3> QED
      BY <1>8, <3>1, <3>2 DEF UpdateVideoTask
  <2> QED
    BY <1>8, <2>1, <2>2, WorkStep DEF UpdateVideoTask, TypeOK, JobOK, Steps
<1>9. ASSUME NEW p \in Pollers, UpdateSunoTask(p)
      PROVE  TypeOK' /\ WorkInv'
  <2> DEFINE t == cur[p]
  <2> /\ t \in Tasks /\ copy[p][t].quota \in Nat /\ answer[p] \in Answer /\ phase[p] # "idle"
    BY <1>9 DEF TypeOK, Row, UpdateSunoTask, WorkInv, WorkInvAt
  <2>1. Works(p)
    <3>1. CASE Drop(p)
      BY <3>1, DropWorks
    <3>2. CASE Continue(p, t, "funding", answer[p], -copy[p][t].quota)
      BY <3>2, ContinueWorks DEF Steps, Billing
    <3>3. CASE Continue(p, t, "save", answer[p], 0)
      <4>1. "save" \in Steps /\ "save" \notin Billing
        BY DEF Steps, Billing
      <4> QED
        BY <3>3, <4>1, ContinueWorks
    <3> QED
      BY <1>9, <3>1, <3>2, <3>3 DEF UpdateSunoTask
  <2> QED
    BY <1>9, <2>1, WorkStep DEF UpdateSunoTask, TypeOK, JobOK, Steps
<1>10. ASSUME NEW p \in Pollers, SaveSunoTask(p)
       PROVE  TypeOK' /\ WorkInv'
  <2> DEFINE t == cur[p]
  <2> /\ t \in Tasks /\ copy[p][t].quota \in Nat /\ copy[p][t].submitTime \in Nat
      /\ answer[p].status \in Statuses /\ answer[p].failed \in BOOLEAN
    BY <1>10 DEF TypeOK, Row, Answer, SaveSunoTask, WorkInv, WorkInvAt
  <2>1. row' \in [Tasks -> Row]
    <3>1. attr[t].upstreamTime \in Nat
      BY AttributesAssumption DEF TypeOK, Attribute
    <3>2. SunoRow(p, t) \in Row
      BY <3>1 DEF Row, SunoRow
    <3> QED
      BY <1>10, <3>2, RowWrite DEF SaveSunoTask, TypeOK
  <2>2. late' \in [Tasks -> BOOLEAN]
    BY <1>10 DEF SaveSunoTask, TypeOK
  <2> QED
    BY <1>10, <2>1, <2>2, DropWorks, WorkStep DEF SaveSunoTask, TypeOK, JobOK, Steps
<1>11. ASSUME NEW p \in Pollers, TaskAdjustFunding(p)
       PROVE  TypeOK' /\ WorkInv'
  <2> DEFINE t == cur[p]
  <2> /\ t \in Tasks /\ answer[p] \in Answer /\ delta[p] \in Int /\ phase[p] # "idle"
      /\ copy[p][t].quota + delta[p] >= 0
    BY <1>11 DEF TypeOK, TaskAdjustFunding, WorkInv, WorkInvAt, Billing
  <2>1. charge' \in [Tasks -> Int]
    BY <1>11 DEF TaskAdjustFunding, TypeOK
  <2>2. Works(p)
    <3>1. CASE Drop(p)
      BY <3>1, DropWorks
    <3>2. CASE Continue(p, t, "token", answer[p], delta[p])
      BY <3>2, ContinueWorks DEF Steps
    <3>3. CASE Continue(p, t, "save", answer[p], 0)
      <4>1. "save" \in Steps /\ "save" \notin Billing
        BY DEF Steps, Billing
      <4> QED
        BY <3>3, <4>1, ContinueWorks
    <3> QED
      BY <1>11, <3>1, <3>2, <3>3 DEF TaskAdjustFunding
  <2> QED
    BY <1>11, <2>1, <2>2, WorkStep DEF TaskAdjustFunding, TypeOK, JobOK, Steps
<1>12. ASSUME NEW p \in Pollers, TaskAdjustTokenQuota(p)
       PROVE  TypeOK' /\ WorkInv'
  <2> DEFINE t == cur[p]
  <2> /\ t \in Tasks /\ answer[p] \in Answer /\ delta[p] \in Int /\ phase[p] # "idle"
      /\ copy[p][t].quota + delta[p] >= 0
    BY <1>12 DEF TypeOK, TaskAdjustTokenQuota, WorkInv, WorkInvAt, Billing
  <2>1. tCharge' \in [Tasks -> Int]
    BY <1>12 DEF TaskAdjustTokenQuota, TypeOK
  <2>2. Works(p)
    <3>1. CASE Drop(p)
      BY <3>1, DropWorks
    <3>2. CASE Continue(p, t, AfterBilling(p), answer[p], delta[p])
      BY <3>2, ContinueWorks DEF Steps, AfterBilling
    <3> QED
      BY <1>12, <3>1, <3>2 DEF TaskAdjustTokenQuota
  <2> QED
    BY <1>12, <2>1, <2>2, WorkStep DEF TaskAdjustTokenQuota, TypeOK, JobOK, Steps
<1>13. ASSUME NEW p \in Pollers, PersistQuota(p)
       PROVE  TypeOK' /\ WorkInv'
  <2> DEFINE t == cur[p]
  <2> /\ t \in Tasks /\ copy[p][t].quota \in Nat /\ delta[p] \in Int
      /\ copy[p][t].quota + delta[p] >= 0
    BY <1>13 DEF TypeOK, Row, PersistQuota, WorkInv, WorkInvAt, Billing
  <2>1. row' \in [Tasks -> Row]
    <3>1. row[t] \in Row /\ [row[t] EXCEPT !.quota = copy[p][t].quota + delta[p]] \in Row
      <4>1. row[t] \in Row /\ copy[p][t].quota + delta[p] \in Nat
        BY DEF TypeOK
      <4> QED
        BY <4>1, RowFields
    <3> QED
      BY <1>13, <3>1, RowWrite DEF PersistQuota, TypeOK
  <2> QED
    BY <1>13, <2>1, DropWorks, WorkStep DEF PersistQuota, TypeOK, JobOK, Steps
<1>14. ASSUME NEW f \in Fetchers, NEW t \in Tasks, FetchByID(f, t)
       PROVE  TypeOK' /\ WorkInv'
  BY <1>14 DEF FetchByID, TypeOK, WorkInv, WorkInvAt
<1>15. ASSUME NEW f \in Fetchers, TryRealtimeFetch(f)
       PROVE  TypeOK' /\ WorkInv'
  <2> DEFINE t == fetch[f].task
  <2> /\ t \in Tasks /\ fetch[f].copy \in Row /\ fetch[f].copy.quota \in Nat
    BY <1>15 DEF TypeOK, Row, TryRealtimeFetch
  <2>1. row' \in [Tasks -> Row]
    <3>1. ASSUME NEW a \in Answers(t),
                 row' = [row EXCEPT ![t] = WithStatus(fetch[f].copy, a.status)]
          PROVE  row' \in [Tasks -> Row]
      <4>1. a.status \in Statuses
        BY AnswersType DEF Answer
      <4> QED
        BY <3>1, <4>1, StatusWrite, RowWrite
    <3> QED
      BY <1>15, <3>1 DEF TryRealtimeFetch, UpdateWithStatus, TypeOK
  <2>2. fetch' \in [Fetchers -> [task: Tasks \cup {NoTask}, copy: Row]]
    BY <1>15, Constants DEF TryRealtimeFetch, NoFetch, TypeOK
  <2>3. reopened' \in [Tasks -> 0 .. MaxReopens]
    <3>1. CASE UNCHANGED reopened
      BY <3>1 DEF TypeOK
    <3>2. CASE reopened[t] < MaxReopens /\ reopened' = [reopened EXCEPT ![t] = @ + 1]
      BY <3>2, LimitsAssumption DEF TypeOK
    <3> QED
      BY <1>15, <3>1, <3>2 DEF TryRealtimeFetch
  <2> QED
    BY <1>15, <2>1, <2>2, <2>3 DEF TryRealtimeFetch, TypeOK, WorkInv, WorkInvAt
<1>16. ASSUME NEW t \in Tasks, UpstreamDone(t) \/ Expire(t)
       PROVE  TypeOK' /\ WorkInv'
  <2>1. up' \in [Tasks -> {"IN_PROGRESS", "SUCCESS", "FAILURE"}] /\ late' \in [Tasks -> BOOLEAN]
    BY <1>16 DEF UpstreamDone, Expire, TypeOK, Terminal
  <2> QED
    BY <1>16, <2>1 DEF UpstreamDone, Expire, TypeOK, WorkInv, WorkInvAt
<1>17. ASSUME NEW c \in Channels, DeleteChannel(c)
       PROVE  TypeOK' /\ WorkInv'
  BY <1>17 DEF DeleteChannel, TypeOK, WorkInv, WorkInvAt
<1>18. ASSUME NEW p \in Pollers, Crash(p)
       PROVE  TypeOK' /\ WorkInv'
  <2>1. TypeOK'
    BY <1>18, Constants DEF Crash, Drop, Continue, TypeOK
  <2>2. ASSUME NEW q \in Pollers PROVE WorkInvAt(q)'
    BY <1>18 DEF Crash, Drop, Continue, TypeOK, WorkInv, WorkInvAt, Billing
  <2> QED
    BY <2>1, <2>2 DEF WorkInv
<1>19. CASE UNCHANGED vars
  BY <1>19 DEF vars, TypeOK, WorkInv, WorkInvAt
<1> QED
  BY <1>1, <1>2, <1>3, <1>4, <1>5, <1>6, <1>7, <1>8, <1>9, <1>10, <1>11, <1>12, <1>13,
     <1>14, <1>15, <1>16, <1>17, <1>18, <1>19 DEF Next, Submit, Poll, Environment

\* Every variable of the task model keeps its type, and every price written back
\* to a row is a natural number: RecalculateTaskQuota never stores a negative one.
THEOREM TaskTypeCorrect == Spec => []TypeOK
<1>1. Init => TypeOK /\ WorkInv
  BY Constants, LimitsAssumption DEF Init, TypeOK, WorkInv, WorkInvAt, Billing, NoFetch
<1>2. TypeOK /\ WorkInv /\ [Next]_vars => TypeOK' /\ WorkInv'
  BY TypeStep
<1> QED
  BY <1>1, <1>2, PTL DEF Spec

-----------------------------------------------------------------------------
(* Money, where every writer of a finished task goes through the CAS          *)

\* The tasks are those of updateVideoSingleTask, with any number of GET requests
\* for them, and the settlement of the submission is not refused.
CasOnly ==
  /\ \A a \in Attributes : a.kind # "suno"
  /\ "settle" \notin Faults

\* No GET request has put the finished row of task t back in progress.
Closed(t) == reopened[t] = 0

\* The price in an unfinished row is what was taken for the task.
RowInvAt(t) ==
  /\ sub[t] # "inserted" => row[t].status = "NOT_START"
  /\ Closed(t) => charge[t] >= 0 /\ tCharge[t] >= 0
  /\ Closed(t) /\ sub[t] \in {"accepted", "inserted"} /\ row[t].status \notin Terminal
       => charge[t] = row[t].quota /\ tCharge[t] = row[t].quota

\* Poller p may still write task t from its copy.
Pending(p, t) == t \in batch[p] \/ (step[p] = "answer" /\ t = cur[p])

\* A copy that may be written was unfinished when it was read, and as long as
\* the row still is, they agree on the price.
CopyInvAt(p, t) ==
  Pending(p, t) =>
    /\ sub[t] = "inserted" /\ copy[p][t].status \notin Terminal
    /\ Closed(t) /\ row[t].status \notin Terminal => copy[p][t].quota = row[t].quota

\* So do the copy of a GET request and the row, while both are unfinished.
FetchInvAt(f, t) ==
  fetch[f].task = t =>
    /\ sub[t] = "inserted"
    /\ Closed(t) /\ row[t].status \notin Terminal /\ fetch[f].copy.status \notin Terminal
         => fetch[f].copy.quota = row[t].quota

\* A poller bills only what has a terminal row, and has enough left to give back.
BillInvAt(p) ==
  /\ step[p] # "save"
  /\ step[p] \in Billing => sub[cur[p]] = "inserted"
  /\ step[p] \in Billing /\ Closed(cur[p]) => row[cur[p]].status \in Terminal
  /\ step[p] = "funding" /\ Closed(cur[p]) => charge[cur[p]] + delta[p] >= 0
  /\ step[p] \in {"funding", "token"} /\ Closed(cur[p]) => tCharge[cur[p]] + delta[p] >= 0

OneBillerAt(p, q) ==
  step[p] \in Billing /\ step[q] \in Billing /\ cur[p] = cur[q] /\ Closed(cur[p]) => p = q

MoneyInv ==
  /\ \A t \in Tasks : RowInvAt(t)
  /\ \A p \in Pollers, t \in Tasks : CopyInvAt(p, t)
  /\ \A f \in Fetchers, t \in Tasks : FetchInvAt(f, t)
  /\ \A p \in Pollers : BillInvAt(p)
  /\ \A p, q \in Pollers : OneBillerAt(p, q)

\* Continue, seen from every poller.
LEMMA ContinueEffect ==
  ASSUME TypeOK, NEW p \in Pollers, NEW t, NEW w, NEW a, NEW d, Continue(p, t, w, a, d)
  PROVE  /\ step'[p] = w /\ cur'[p] = t /\ delta'[p] = d
         /\ \A q \in Pollers : q # p => step'[q] = step[q] /\ cur'[q] = cur[q] /\ delta'[q] = delta[q]
BY DEF Continue, TypeOK

\* A poller that only moves on, without touching rows or money, keeps the
\* invariant.
LEMMA MoveOn ==
  ASSUME TypeOK, MoneyInv, NEW p \in Pollers, NEW t, NEW w \in {"none", "answer"}, NEW a, NEW d,
         Continue(p, t, w, a, d), w = "answer" => t \in batch[p],
         \A q \in Pollers : batch'[q] \subseteq batch[q],
         UNCHANGED <<copy, row, fetch, reopened, sub, charge, tCharge>>
  PROVE  MoneyInv'
<1> USE ContinueEffect DEF Closed
<1>1. ASSUME NEW u \in Tasks PROVE RowInvAt(u)'
  BY DEF MoneyInv, RowInvAt
<1>2. ASSUME NEW q \in Pollers, NEW u \in Tasks PROVE CopyInvAt(q, u)'
  BY DEF MoneyInv, CopyInvAt, Pending
<1>3. ASSUME NEW q \in Pollers PROVE BillInvAt(q)'
  BY DEF MoneyInv, BillInvAt, Billing
<1>4. ASSUME NEW q1 \in Pollers, NEW q2 \in Pollers PROVE OneBillerAt(q1, q2)'
  BY DEF MoneyInv, OneBillerAt, Billing
<1>5. ASSUME NEW f \in Fetchers, NEW u \in Tasks PROVE FetchInvAt(f, u)'
  BY DEF MoneyInv, FetchInvAt
<1> QED
  BY <1>1, <1>2, <1>3, <1>4, <1>5 DEF MoneyInv

\* The winner of a CAS keeps the invariant: nobody was billing the task, and
\* the price it copied is what was taken.
LEMMA WinCas ==
  ASSUME TypeOK, MoneyInv, NEW p \in Pollers, NEW t \in Tasks, Pending(p, t),
         row[t].status = copy[p][t].status,
         NEW new \in Row, new.quota = copy[p][t].quota, row' = [row EXCEPT ![t] = new],
         NEW v, NEW w \in {"none", "funding"}, NEW a, NEW d \in Int,
         Continue(p, v, w, a, d),
         w = "funding" => v = t /\ new.status \in Terminal /\ copy[p][t].quota + d >= 0,
         \A q \in Pollers : batch'[q] \subseteq batch[q],
         UNCHANGED <<copy, fetch, reopened, sub, charge, tCharge>>
  PROVE  MoneyInv'
<1> USE ContinueEffect DEF Closed
<1>1. /\ row'[t] = new /\ \A u \in Tasks : u # t => row'[u] = row[u]
  BY DEF TypeOK
<1>2. /\ sub[t] = "inserted" /\ row[t].status \notin Terminal
      /\ Closed(t) => new.quota = row[t].quota /\ charge[t] = new.quota /\ tCharge[t] = new.quota
  BY DEF MoneyInv, CopyInvAt, RowInvAt
<1>3. \A q \in Pollers : Closed(t) => ~(step[q] \in Billing /\ cur[q] = t)
  BY <1>2 DEF MoneyInv, BillInvAt
<1>4. ASSUME NEW u \in Tasks PROVE RowInvAt(u)'
  BY <1>1, <1>2 DEF MoneyInv, RowInvAt
<1>5. ASSUME NEW q \in Pollers, NEW u \in Tasks PROVE CopyInvAt(q, u)'
  <2>1. Pending(q, u)' => Pending(q, u)
    BY DEF Pending
  <2> QED
    BY <1>1, <1>2, <2>1 DEF MoneyInv, CopyInvAt
<1>6. ASSUME NEW q \in Pollers PROVE BillInvAt(q)'
  <2>1. CASE q = p
    BY <2>1, <1>1, <1>2 DEF BillInvAt, Billing
  <2>2. CASE q # p
    <3>1. /\ BillInvAt(q) /\ cur[q] \in Tasks \cup {NoTask}
          /\ step[q] \in Billing => cur[q] # t \/ ~Closed(t)
      BY <1>3 DEF MoneyInv, TypeOK
    <3>2. step[q] \in Billing => cur[q] \in Tasks \/ cur[q] = NoTask
      BY <3>1
    <3> QED
      BY <2>2, <3>1, <3>2, <1>1 DEF BillInvAt, Billing, TypeOK
  <2> QED
    BY <2>1, <2>2
<1>7. ASSUME NEW q1 \in Pollers, NEW q2 \in Pollers PROVE OneBillerAt(q1, q2)'
  BY <1>3 DEF MoneyInv, OneBillerAt, Billing
<1>8. ASSUME NEW f \in Fetchers, NEW u \in Tasks PROVE FetchInvAt(f, u)'
  BY <1>1, <1>2 DEF MoneyInv, FetchInvAt
<1> QED
  BY <1>4, <1>5, <1>6, <1>7, <1>8 DEF MoneyInv

\* The write of a GET request: it keeps the price of an unfinished row, ends it or
\* not, or it changes a finished row, which then is finished again or reopened.
LEMMA FetchCas ==
  ASSUME TypeOK, WorkInv, MoneyInv, NEW f \in Fetchers, NEW t \in Tasks, fetch[f].task = t,
         row[t].status = fetch[f].copy.status,
         NEW new \in Row, new.quota = fetch[f].copy.quota, row' = [row EXCEPT ![t] = new],
         \A u \in Tasks : Closed(u)' => Closed(u),
         Closed(t)' /\ row[t].status \in Terminal => new.status \in Terminal,
         \A g \in Fetchers : fetch'[g] = IF g = f THEN NoFetch ELSE fetch[g],
         UNCHANGED <<batch, copy, step, cur, delta, sub, charge, tCharge>>
  PROVE  MoneyInv'
<1>1. /\ row'[t] = new /\ \A u \in Tasks : u # t => row'[u] = row[u]
  BY DEF TypeOK
<1>2. /\ sub[t] = "inserted"
      /\ Closed(t) /\ row[t].status \notin Terminal
           => new.quota = row[t].quota /\ charge[t] = new.quota /\ tCharge[t] = new.quota
  BY DEF MoneyInv, FetchInvAt, RowInvAt
<1>3. ASSUME NEW u \in Tasks PROVE RowInvAt(u)'
  BY <1>1, <1>2 DEF MoneyInv, RowInvAt
<1>4. ASSUME NEW q \in Pollers, NEW u \in Tasks PROVE CopyInvAt(q, u)'
  BY <1>1, <1>2 DEF MoneyInv, CopyInvAt, Pending
<1>5. ASSUME NEW g \in Fetchers, NEW u \in Tasks PROVE FetchInvAt(g, u)'
  <2>1. CASE g = f
    BY <2>1, TasksAssumption DEF FetchInvAt, NoFetch, NoTask
  <2>2. CASE g # f
    BY <1>1, <1>2, <2>2 DEF MoneyInv, FetchInvAt
  <2> QED
    BY <2>1, <2>2
<1>6. ASSUME NEW q \in Pollers PROVE BillInvAt(q)'
  <2>1. BillInvAt(q) /\ (step[q] \in Billing => cur[q] \in Tasks)
    BY DEF MoneyInv, WorkInv, WorkInvAt, Billing
  <2>2. step[q] \in Billing /\ Closed(cur[q])' => Closed(cur[q])
    BY <2>1
  <2> QED
    BY <1>1, <2>1, <2>2 DEF BillInvAt, Billing
<1>7. ASSUME NEW q1 \in Pollers, NEW q2 \in Pollers PROVE OneBillerAt(q1, q2)'
  <2>1. step[q1] \in Billing => cur[q1] \in Tasks
    BY DEF WorkInv, WorkInvAt, Billing
  <2> QED
    BY <2>1 DEF MoneyInv, OneBillerAt
<1> QED
  BY <1>3, <1>4, <1>5, <1>6, <1>7 DEF MoneyInv

\* A submission touches only a task that is not inserted yet, which no poller
\* knows of.
LEMMA SubmissionMoney ==
  ASSUME TypeOK, WorkInv, MoneyInv, NEW t \in Tasks, sub[t] # "inserted",
         RowInvAt(t)',
         \A u \in Tasks : u # t =>
           /\ row'[u] = row[u] /\ sub'[u] = sub[u]
           /\ charge'[u] = charge[u] /\ tCharge'[u] = tCharge[u],
         UNCHANGED <<batch, copy, step, cur, delta, fetch, reopened>>
  PROVE  MoneyInv'
<1> USE DEF Closed
<1>1. ASSUME NEW u \in Tasks PROVE RowInvAt(u)'
  <2>1. CASE u # t
    BY <2>1 DEF MoneyInv, RowInvAt
  <2> QED
    BY <2>1
<1>2. ASSUME NEW q \in Pollers, NEW u \in Tasks PROVE CopyInvAt(q, u)'
  BY DEF MoneyInv, CopyInvAt, Pending
<1>3. ASSUME NEW q \in Pollers PROVE BillInvAt(q)'
  <2>1. step[q] \in Billing => cur[q] \in Tasks /\ cur[q] # t
    BY DEF MoneyInv, BillInvAt, WorkInv, WorkInvAt, Billing
  <2>2. BillInvAt(q)
    BY DEF MoneyInv
  <2> QED
    BY <2>1, <2>2 DEF BillInvAt, Billing
<1>4. ASSUME NEW q1 \in Pollers, NEW q2 \in Pollers PROVE OneBillerAt(q1, q2)'
  BY DEF MoneyInv, OneBillerAt
<1>5. ASSUME NEW f \in Fetchers, NEW u \in Tasks PROVE FetchInvAt(f, u)'
  BY DEF MoneyInv, FetchInvAt
<1> QED
  BY <1>1, <1>2, <1>3, <1>4, <1>5 DEF MoneyInv

\* A fresh selection copies unfinished rows.
LEMMA SelectMoney ==
  ASSUME TypeOK, MoneyInv, NEW p \in Pollers, NEW w, NEW S \in SUBSET Unfinished,
         Select(p, w, S), step[p] = "none"
  PROVE  MoneyInv'
<1> USE DEF subVars, envVars, money, Closed
<1>0. /\ batch'[p] = S /\ \A u \in S : copy'[p][u] = row[u]
      /\ \A q \in Pollers : q # p => batch'[q] = batch[q] /\ copy'[q] = copy[q]
      /\ S \subseteq Tasks
  BY DEF Select, TypeOK, Unfinished
<1>u. UNCHANGED <<row, sub, charge, tCharge, step, cur, delta, fetch, reopened>>
  BY DEF Select
<1>1. ASSUME NEW u \in Tasks PROVE RowInvAt(u)'
  BY <1>u DEF MoneyInv, RowInvAt
<1>2. ASSUME NEW q \in Pollers, NEW u \in Tasks PROVE CopyInvAt(q, u)'
  <2>1. CASE q = p
    BY <1>0, <1>u, <2>1 DEF CopyInvAt, Pending, Unfinished
  <2>2. CASE q # p
    BY <1>0, <1>u, <2>2 DEF MoneyInv, CopyInvAt, Pending
  <2> QED
    BY <2>1, <2>2
<1>3. ASSUME NEW q \in Pollers PROVE BillInvAt(q)'
  BY <1>u DEF MoneyInv, BillInvAt
<1>4. ASSUME NEW q1 \in Pollers, NEW q2 \in Pollers PROVE OneBillerAt(q1, q2)'
  BY <1>u DEF MoneyInv, OneBillerAt
<1>5. ASSUME NEW f \in Fetchers, NEW u \in Tasks PROVE FetchInvAt(f, u)'
  BY <1>u DEF MoneyInv, FetchInvAt
<1> QED
  BY <1>1, <1>2, <1>3, <1>4, <1>5 DEF MoneyInv

\* Moving the money: only the elected poller does it, and what is left suffices.
LEMMA BillMoney ==
  ASSUME TypeOK, WorkInv, MoneyInv, NEW p \in Pollers, step[p] \in Billing,
         NEW c \in Int, NEW k \in Int, Closed(cur[p]) => c >= 0 /\ k >= 0,
         charge' = [charge EXCEPT ![cur[p]] = c], tCharge' = [tCharge EXCEPT ![cur[p]] = k],
         NEW v, NEW w \in {"none", "token", "persist"}, NEW a, NEW d,
         Continue(p, v, w, a, d), w # "none" => v = cur[p],
         w = "token" /\ Closed(cur[p]) => k + d >= 0,
         \A u \in Tasks : row'[u].status = row[u].status,
         \A u \in Tasks : u # cur[p] => row'[u] = row[u],
         UNCHANGED <<copy, sub, batch, fetch, reopened>>
  PROVE  MoneyInv'
<1> DEFINE t == cur[p]
<1> USE ContinueEffect DEF Closed
<1>1. /\ t \in Tasks /\ sub[t] = "inserted"
      /\ Closed(t) => row[t].status \in Terminal
  BY DEF MoneyInv, BillInvAt, WorkInv, WorkInvAt, Billing
<1>2. /\ charge'[t] = c /\ tCharge'[t] = k
      /\ \A u \in Tasks : u # t => charge'[u] = charge[u] /\ tCharge'[u] = tCharge[u]
  BY <1>1 DEF TypeOK
<1>3. ASSUME NEW u \in Tasks PROVE RowInvAt(u)'
  <2>1. CASE u = t
    BY <1>1, <1>2, <2>1 DEF RowInvAt
  <2>2. CASE u # t
    BY <1>2, <2>2 DEF RowInvAt, MoneyInv
  <2> QED
    BY <2>1, <2>2
<1>4. ASSUME NEW u \in Tasks PROVE Closed(u) /\ row[u].status \notin Terminal => row'[u] = row[u]
  BY <1>1
<1>5. ASSUME NEW q \in Pollers, NEW u \in Tasks PROVE CopyInvAt(q, u)'
  <2>1. Pending(q, u)' => Pending(q, u)
    BY DEF Pending
  <2> QED
    BY <2>1, <1>4 DEF MoneyInv, CopyInvAt
<1>6. ASSUME NEW q \in Pollers PROVE BillInvAt(q)'
  <2>1. CASE q = p
    BY <2>1, <1>1, <1>2 DEF BillInvAt, Billing
  <2>2. CASE q # p
    <3>1. step[q] \in Billing => cur[q] \in Tasks /\ (Closed(cur[q]) => cur[q] # t)
      BY <2>2 DEF MoneyInv, OneBillerAt, WorkInv, WorkInvAt, Billing
    <3>2. BillInvAt(q)
      BY DEF MoneyInv
    <3> QED
      BY <2>2, <3>1, <3>2, <1>2 DEF BillInvAt, Billing
  <2> QED
    BY <2>1, <2>2
<1>7. ASSUME NEW q1 \in Pollers, NEW q2 \in Pollers PROVE OneBillerAt(q1, q2)'
  BY DEF MoneyInv, OneBillerAt, Billing
<1>8. ASSUME NEW f \in Fetchers, NEW u \in Tasks PROVE FetchInvAt(f, u)'
  BY <1>4 DEF MoneyInv, FetchInvAt
<1> QED
  BY <1>3, <1>5, <1>6, <1>7, <1>8 DEF MoneyInv

\* Adjust either drops the task or starts to bill it.
LEMMA AdjustMoves ==
  ASSUME NEW p \in Pollers, NEW t \in Tasks, NEW b \in Answer, NEW d \in Int, Adjust(p, t, b, d)
  PROVE  \E v \in Tasks \cup {NoTask}, w \in {"none", "funding"}, a \in Answer, e \in Int :
           Continue(p, v, w, a, e) /\ (w = "funding" => v = t /\ e = d)
<1>1. CASE d = 0
  BY <1>1, Constants DEF Adjust, Drop
<1>2. CASE d # 0
  BY <1>2 DEF Adjust
<1> QED
  BY <1>1, <1>2

\* Every step keeps the invariant.
LEMMA MoneyStep ==
  ASSUME TypeOK, WorkInv, MoneyInv, CasOnly, [Next]_vars
  PROVE  MoneyInv'
<1> USE DEF subVars, envVars, pollVars, money
<1>1. ASSUME NEW t \in Tasks, NEW q \in Quotas, PreConsumeBilling(t, q)
      PROVE  MoneyInv'
  <2>1. RowInvAt(t)'
    BY <1>1, PricesAssumption DEF PreConsumeBilling, Submission, TypeOK, MoneyInv, RowInvAt, Closed
  <2> QED
    BY <1>1, <2>1, SubmissionMoney DEF PreConsumeBilling, Submission, TypeOK
<1>2. ASSUME NEW t \in Tasks, NEW q \in Quotas, SettleSubmission(t, q)
      PROVE  MoneyInv'
  <2>1. row'[t] = InitTask(t, q) /\ q \in Nat
    BY <1>2, PricesAssumption DEF SettleSubmission, TypeOK
  <2>2. row'[t].quota = q /\ row'[t].status = "NOT_START"
    BY <2>1, InitTaskType
  <2>3. charge'[t] = q /\ tCharge'[t] = q
    BY <1>2 DEF SettleSubmission, CasOnly, TypeOK
  <2>4. RowInvAt(t)'
    BY <1>2, <2>1, <2>2, <2>3 DEF SettleSubmission, Submission, TypeOK, MoneyInv, RowInvAt, Closed
  <2> QED
    BY <1>2, <2>4, SubmissionMoney DEF SettleSubmission, Submission, CasOnly, TypeOK
<1>3. ASSUME NEW t \in Tasks, SubmitFailed(t) \/ InsertTask(t) \/ CrashSubmission(t)
      PROVE  MoneyInv'
  <2>1. RowInvAt(t)'
    BY <1>3 DEF SubmitFailed, InsertTask, CrashSubmission, Submission, TypeOK, MoneyInv, RowInvAt, Closed
  <2> QED
    BY <1>3, <2>1, SubmissionMoney DEF SubmitFailed, InsertTask, CrashSubmission, Submission, TypeOK
<1>4. ASSUME NEW p \in Pollers, SelectTimedOut(p) \/ SelectUnfinished(p) \/ Sleep(p)
      PROVE  MoneyInv'
  <2>1. PICK S \in SUBSET Unfinished, w \in {"idle", "sweep", "poll"} : Select(p, w, S) /\ step[p] = "none"
    BY <1>4 DEF SelectTimedOut, SelectUnfinished, Sleep, TimedOut, Oldest, First, Free, WorkInv, WorkInvAt
  <2> QED
    BY <2>1, SelectMoney
<1>5. ASSUME NEW p \in Pollers, NEW t \in Tasks, SweepTask(p, t)
      PROVE  MoneyInv'
  <2>1. \A q \in Pollers : batch'[q] \subseteq batch[q]
    BY <1>5 DEF SweepTask, TakeOff, TypeOK
  <2>2. CASE UNCHANGED row /\ Drop(p)
    BY <1>5, <2>1, <2>2, MoveOn DEF SweepTask, Drop
  <2>3. CASE /\ UpdateWithStatus(t, copy[p][t].status,
                   WithStatus(copy[p][t], "FAILURE"))
             /\ Adjust(p, t, Failed, IF IsLegacy(copy[p][t]) THEN 0 ELSE -copy[p][t].quota)
    <3> DEFINE new == WithStatus(copy[p][t], "FAILURE")
               d == IF IsLegacy(copy[p][t]) THEN 0 ELSE -copy[p][t].quota
    <3>1. copy[p][t].quota \in Nat /\ d \in Int /\ copy[p][t].quota + d >= 0
      BY DEF TypeOK, Row
    <3>2. new \in Row /\ new.status \in Terminal /\ new.quota = copy[p][t].quota
      <4>1. copy[p][t] \in Row /\ "FAILURE" \in Statuses /\ "FAILURE" \in Terminal
        BY DEF TypeOK, Statuses, Terminal
      <4> QED
        BY <4>1, StatusWrite
    <3>3. Pending(p, t)
      BY <1>5 DEF SweepTask, Pending
    <3>4. PICK v \in Tasks \cup {NoTask}, w \in {"none", "funding"}, a \in Answer, e \in Int :
             Continue(p, v, w, a, e) /\ (w = "funding" => v = t /\ e = d)
      <4>1. Adjust(p, t, Failed, d)
        BY <2>3
      <4> HIDE DEF d
      <4> QED
        BY <3>1, <4>1, AdjustMoves, Constants
    <3>5. row[t].status = copy[p][t].status /\ row' = [row EXCEPT ![t] = new]
      BY <2>3 DEF UpdateWithStatus
    <3>6. UNCHANGED <<copy, fetch, reopened, sub, charge, tCharge>>
      BY <1>5 DEF SweepTask
    <3> HIDE DEF new, d
    <3> QED
      BY <2>1, <3>1, <3>2, <3>3, <3>4, <3>5, <3>6, WinCas
  <2> QED
    BY <1>5, <2>2, <2>3 DEF SweepTask
<1>6. ASSUME NEW p \in Pollers, NEW t \in Tasks, FetchTask(p, t)
      PROVE  MoneyInv'
  <2>1. \A q \in Pollers : batch'[q] \subseteq batch[q]
    BY <1>6 DEF FetchTask, TakeOff, TypeOK
  <2>2. t \in batch[p] /\ UNCHANGED <<copy, row, fetch, reopened, sub, charge, tCharge>>
    BY <1>6 DEF FetchTask
  <2>3. CASE Drop(p)
    BY <2>1, <2>2, <2>3, MoveOn DEF Drop
  <2>4. ASSUME NEW a, Continue(p, t, "answer", a, 0) PROVE MoneyInv'
    BY <2>1, <2>2, <2>4, MoveOn
  <2> QED
    BY <1>6, <2>3, <2>4 DEF FetchTask
<1>7. ASSUME NEW p \in Pollers, NEW t \in Tasks, FailChannelTasks(p, t)
      PROVE  MoneyInv'
  <2>1. PICK S \in SUBSET batch[p] :
          row' = [u \in Tasks |-> IF u \in S THEN [row[u] EXCEPT !.status = "FAILURE", !.done = TRUE]
                                  ELSE row[u]]
    BY <1>7 DEF FailChannelTasks
  <2>2. \A u \in Tasks : /\ row'[u].status = IF u \in S THEN "FAILURE" ELSE row[u].status
                         /\ u \notin S => row'[u] = row[u]
    <3>1. \A u \in Tasks : row[u] \in Row
      BY DEF TypeOK
    <3> QED
      BY <2>1, <3>1 DEF Row
  <2>3. /\ \A q \in Pollers : batch'[q] \subseteq batch[q]
        /\ UNCHANGED <<copy, fetch, reopened, sub, charge, tCharge, step, cur, delta>>
    BY <1>7 DEF FailChannelTasks, TakeOff, TypeOK
  <2>4. \A u \in S : u \in Tasks /\ sub[u] = "inserted"
    <3>1. S \subseteq Tasks
      BY DEF TypeOK
    <3> QED
      BY <3>1 DEF MoneyInv, CopyInvAt, Pending
  <2>5. "FAILURE" \in Terminal
    BY DEF Terminal
  <2>6. ASSUME NEW u \in Tasks PROVE RowInvAt(u)'
    BY <2>2, <2>3, <2>4, <2>5 DEF MoneyInv, RowInvAt, Closed
  <2>7. ASSUME NEW q \in Pollers, NEW u \in Tasks PROVE CopyInvAt(q, u)'
    BY <2>2, <2>3, <2>5 DEF MoneyInv, CopyInvAt, Pending, Closed
  <2>8. ASSUME NEW q \in Pollers PROVE BillInvAt(q)'
    <3>1. step[q] \in Billing => cur[q] \in Tasks
      BY DEF WorkInv, WorkInvAt, Billing
    <3>2. BillInvAt(q)
      BY DEF MoneyInv
    <3> QED
      BY <2>2, <2>3, <2>5, <3>1, <3>2 DEF BillInvAt, Closed
  <2>9. ASSUME NEW q1 \in Pollers, NEW q2 \in Pollers PROVE OneBillerAt(q1, q2)'
    BY <2>3 DEF MoneyInv, OneBillerAt, Closed
  <2>10. ASSUME NEW f \in Fetchers, NEW u \in Tasks PROVE FetchInvAt(f, u)'
    BY <2>2, <2>3, <2>5 DEF MoneyInv, FetchInvAt, Closed
  <2> QED
    BY <2>6, <2>7, <2>8, <2>9, <2>10 DEF MoneyInv
<1>8. ASSUME NEW p \in Pollers, NEW b \in Actuals, UpdateVideoTask(p, b)
      PROVE  MoneyInv'
  <2> DEFINE t == cur[p]
             new == WithStatus(copy[p][t], answer[p].status)
             d == Settlement(p, t, b)
  <2>1. /\ t \in Tasks /\ copy[p][t].quota \in Nat /\ b \in Nat /\ answer[p].status \in Statuses
        /\ Pending(p, t)
    BY <1>8, PricesAssumption DEF TypeOK, Row, Answer, UpdateVideoTask, WorkInv, WorkInvAt, Pending
  <2>2. UNCHANGED <<copy, fetch, reopened, sub, charge, tCharge, batch>>
    BY <1>8 DEF UpdateVideoTask
  <2>3. CASE UNCHANGED row /\ Drop(p)
    BY <2>2, <2>3, MoveOn DEF Drop
  <2>4. CASE /\ UpdateWithStatus(t, copy[p][t].status, new)
             /\ IF answer[p].status \in Terminal THEN Adjust(p, t, answer[p], d) ELSE Drop(p)
    <3>1. d \in Int /\ copy[p][t].quota + d >= 0
      BY <2>1 DEF Settlement
    <3>2. new \in Row /\ new.status = answer[p].status /\ new.quota = copy[p][t].quota
      <4>1. copy[p][t] \in Row
        BY <2>1 DEF TypeOK
      <4> QED
        BY <2>1, <4>1, StatusWrite
    <3>4. PICK v \in Tasks \cup {NoTask}, w \in {"none", "funding"}, a \in Answer, e \in Int :
             /\ Continue(p, v, w, a, e)
             /\ w = "funding" => v = t /\ e = d /\ answer[p].status \in Terminal
      <4>1. answer[p] \in Answer
        BY DEF TypeOK
      <4> HIDE DEF d, t
      <4>2. CASE answer[p].status \in Terminal
        BY <2>1, <2>4, <3>1, <4>1, <4>2, AdjustMoves
      <4>3. CASE answer[p].status \notin Terminal
        BY <2>4, <4>3, Constants DEF Drop
      <4> QED
        BY <4>2, <4>3
    <3>5. row[t].status = copy[p][t].status /\ row' = [row EXCEPT ![t] = new]
      BY <2>4 DEF UpdateWithStatus
    <3> HIDE DEF new, d, t
    <3> QED
      BY <2>1, <2>2, <3>1, <3>2, <3>4, <3>5, WinCas
  <2> QED
    BY <1>8, <2>3, <2>4 DEF UpdateVideoTask
<1>9. ASSUME NEW p \in Pollers, UpdateSunoTask(p) \/ SaveSunoTask(p)
      PROVE  MoneyInv'
  <2>1. step[p] # "save"
    BY DEF MoneyInv, BillInvAt
  <2>2. step[p] = "answer" => attr[cur[p]].kind # "suno"
    BY DEF WorkInv, WorkInvAt, TypeOK, CasOnly
  <2> QED
    BY <1>9, <2>1, <2>2 DEF UpdateSunoTask, SaveSunoTask
<1>10. ASSUME NEW p \in Pollers, step[p] \in Billing
       PROVE  /\ cur[p] \in Tasks /\ AfterBilling(p) \in {"none", "persist"}
              /\ charge[cur[p]] \in Int /\ tCharge[cur[p]] \in Int /\ delta[p] \in Int
              /\ Closed(cur[p]) => charge[cur[p]] >= 0 /\ tCharge[cur[p]] >= 0
              /\ BillInvAt(p)
  <2>1. cur[p] \in Tasks
    BY <1>10 DEF WorkInv, WorkInvAt, Billing
  <2>2. attr[cur[p]].kind # "suno"
    BY <2>1 DEF TypeOK, CasOnly
  <2> QED
    BY <2>1, <2>2 DEF TypeOK, MoneyInv, RowInvAt, AfterBilling
<1>11. ASSUME NEW p \in Pollers, TaskAdjustFunding(p)
       PROVE  MoneyInv'
  <2>1. step[p] \in Billing
    BY <1>11 DEF TaskAdjustFunding, Billing
  <2>2. UNCHANGED <<copy, fetch, reopened, sub, batch, row, tCharge>>
    BY <1>11 DEF TaskAdjustFunding
  <2>3. tCharge' = [tCharge EXCEPT ![cur[p]] = tCharge[cur[p]]]
    BY <2>2 DEF TypeOK
  <2>4. CASE UNCHANGED charge /\ Drop(p)
    <3>1. charge' = [charge EXCEPT ![cur[p]] = charge[cur[p]]]
      BY <2>4 DEF TypeOK
    <3> QED
      BY <2>1, <2>2, <2>3, <2>4, <3>1, <1>10, BillMoney DEF Drop
  <2>5. CASE /\ charge' = [charge EXCEPT ![cur[p]] = @ + delta[p]]
             /\ Continue(p, cur[p], "token", answer[p], delta[p])
    <3>1. Closed(cur[p]) => charge[cur[p]] + delta[p] >= 0 /\ tCharge[cur[p]] + delta[p] >= 0
      BY <1>11, <2>1, <1>10 DEF TaskAdjustFunding, BillInvAt
    <3>2. charge' = [charge EXCEPT ![cur[p]] = charge[cur[p]] + delta[p]]
      BY <2>5
    <3>3. charge[cur[p]] + delta[p] \in Int
      BY <2>1, <1>10
    <3> QED
      BY <2>1, <2>2, <2>3, <2>5, <3>1, <3>2, <3>3, <1>10, BillMoney
  <2> QED
    BY <1>11, <2>1, <2>4, <2>5, <1>10 DEF TaskAdjustFunding
<1>12. ASSUME NEW p \in Pollers, TaskAdjustTokenQuota(p)
       PROVE  MoneyInv'
  <2>1. step[p] \in Billing
    BY <1>12 DEF TaskAdjustTokenQuota, Billing
  <2>2. UNCHANGED <<copy, fetch, reopened, sub, batch, row, charge>>
    BY <1>12 DEF TaskAdjustTokenQuota
  <2>3. charge' = [charge EXCEPT ![cur[p]] = charge[cur[p]]]
    BY <2>2 DEF TypeOK
  <2>4. PICK k \in Int : (Closed(cur[p]) => k >= 0) /\ tCharge' = [tCharge EXCEPT ![cur[p]] = k]
    <3>1. CASE UNCHANGED tCharge
      <4>1. tCharge' = [tCharge EXCEPT ![cur[p]] = tCharge[cur[p]]]
        BY <3>1 DEF TypeOK
      <4> QED
        BY <4>1, <2>1, <1>10
    <3>2. CASE tCharge' = [tCharge EXCEPT ![cur[p]] = @ + delta[p]]
      <4>1. /\ tCharge[cur[p]] + delta[p] \in Int
            /\ Closed(cur[p]) => tCharge[cur[p]] + delta[p] >= 0
        BY <1>12, <2>1, <1>10 DEF TaskAdjustTokenQuota, BillInvAt
      <4> QED
        BY <3>2, <4>1
    <3> QED
      BY <1>12, <3>1, <3>2 DEF TaskAdjustTokenQuota
  <2>5. CASE Drop(p)
    BY <2>1, <2>2, <2>3, <2>4, <2>5, <1>10, BillMoney DEF Drop
  <2>6. CASE Continue(p, cur[p], AfterBilling(p), answer[p], delta[p])
    <3>1. AfterBilling(p) \in {"none", "token", "persist"} /\ AfterBilling(p) # "token"
      BY <2>1, <1>10
    <3>2. charge[cur[p]] \in Int /\ (Closed(cur[p]) => charge[cur[p]] >= 0)
      BY <2>1, <1>10
    <3>3. \A u \in Tasks : row'[u] = row[u]
      BY <2>2
    <3> QED
      BY <2>1, <2>2, <2>3, <2>4, <2>6, <3>1, <3>2, <3>3, BillMoney
  <2> QED
    BY <1>12, <2>5, <2>6 DEF TaskAdjustTokenQuota
<1>13. ASSUME NEW p \in Pollers, PersistQuota(p)
       PROVE  MoneyInv'
  <2>1. step[p] \in Billing
    BY <1>13 DEF PersistQuota, Billing
  <2>2. UNCHANGED <<copy, fetch, reopened, sub, batch, charge, tCharge>> /\ Drop(p)
    BY <1>13 DEF PersistQuota
  <2>3. /\ charge' = [charge EXCEPT ![cur[p]] = charge[cur[p]]]
        /\ tCharge' = [tCharge EXCEPT ![cur[p]] = tCharge[cur[p]]]
    BY <2>2 DEF TypeOK
  <2>4. /\ \A u \in Tasks : row'[u].status = row[u].status
        /\ \A u \in Tasks : u # cur[p] => row'[u] = row[u]
    <3>1. CASE UNCHANGED row
      BY <3>1
    <3>2. CASE row' = [row EXCEPT ![cur[p]].quota = copy[p][cur[p]].quota + delta[p]]
      <4>1. \A u \in Tasks : row[u] \in Row
        BY DEF TypeOK
      <4>2. /\ row'[cur[p]] = [row[cur[p]] EXCEPT !.quota = copy[p][cur[p]].quota + delta[p]]
            /\ \A u \in Tasks : u # cur[p] => row'[u] = row[u]
        BY <3>2, <2>1, <1>10 DEF TypeOK
      <4> QED
        BY <4>1, <4>2, <2>1, <1>10 DEF Row
    <3> QED
      BY <1>13, <3>1, <3>2 DEF PersistQuota
  <2> QED
    BY <2>1, <2>2, <2>3, <2>4, <1>10, BillMoney DEF Drop
<1>14. ASSUME NEW t \in Tasks, UpstreamDone(t) \/ Expire(t)
       PROVE  MoneyInv'
  BY <1>14 DEF UpstreamDone, Expire, MoneyInv, RowInvAt, CopyInvAt, FetchInvAt, BillInvAt, OneBillerAt, Pending, Closed
<1>15. ASSUME NEW c \in Channels, DeleteChannel(c)
       PROVE  MoneyInv'
  BY <1>15 DEF DeleteChannel, MoneyInv, RowInvAt, CopyInvAt, FetchInvAt, BillInvAt, OneBillerAt, Pending, Closed
<1>16. ASSUME NEW p \in Pollers, Crash(p)
       PROVE  MoneyInv'
  <2>1. /\ step'[p] = "none" /\ batch'[p] = {}
        /\ \A q \in Pollers : q # p => /\ step'[q] = step[q] /\ cur'[q] = cur[q] /\ delta'[q] = delta[q]
                                       /\ batch'[q] = batch[q] /\ copy'[q] = copy[q]
        /\ UNCHANGED <<row, fetch, reopened, sub, charge, tCharge>>
    BY <1>16, ContinueEffect DEF Crash, Drop, TypeOK
  <2>2. ASSUME NEW u \in Tasks PROVE RowInvAt(u)'
    BY <2>1 DEF MoneyInv, RowInvAt, Closed
  <2>3. ASSUME NEW q \in Pollers, NEW u \in Tasks PROVE CopyInvAt(q, u)'
    BY <2>1 DEF MoneyInv, CopyInvAt, Pending, Closed
  <2>4. ASSUME NEW q \in Pollers PROVE BillInvAt(q)'
    BY <2>1 DEF MoneyInv, BillInvAt, Billing, Closed
  <2>5. ASSUME NEW q1 \in Pollers, NEW q2 \in Pollers PROVE OneBillerAt(q1, q2)'
    BY <2>1 DEF MoneyInv, OneBillerAt, Billing, Closed
  <2>6. ASSUME NEW f \in Fetchers, NEW u \in Tasks PROVE FetchInvAt(f, u)'
    BY <2>1 DEF MoneyInv, FetchInvAt, Closed
  <2> QED
    BY <2>2, <2>3, <2>4, <2>5, <2>6 DEF MoneyInv
<1>17. CASE UNCHANGED vars
  BY <1>17 DEF vars, MoneyInv, RowInvAt, CopyInvAt, FetchInvAt, BillInvAt, OneBillerAt, Pending, Closed
<1>18. ASSUME NEW f \in Fetchers, NEW t \in Tasks, FetchByID(f, t)
       PROVE  MoneyInv'
  <2>1. /\ \A g \in Fetchers : fetch'[g] = IF g = f THEN [task |-> t, copy |-> row[t]] ELSE fetch[g]
        /\ sub[t] = "inserted"
        /\ UNCHANGED <<row, reopened, batch, copy, step, cur, delta, sub, charge, tCharge>>
    BY <1>18 DEF FetchByID, TypeOK
  <2>2. ASSUME NEW g \in Fetchers, NEW u \in Tasks PROVE FetchInvAt(g, u)'
    <3>1. CASE g = f
      BY <2>1, <3>1 DEF FetchInvAt, Closed
    <3>2. CASE g # f
      BY <2>1, <3>2 DEF MoneyInv, FetchInvAt, Closed
    <3> QED
      BY <3>1, <3>2
  <2>3. ASSUME NEW u \in Tasks PROVE RowInvAt(u)'
    BY <2>1 DEF MoneyInv, RowInvAt, Closed
  <2>4. ASSUME NEW q \in Pollers, NEW u \in Tasks PROVE CopyInvAt(q, u)'
    BY <2>1 DEF MoneyInv, CopyInvAt, Pending, Closed
  <2>5. ASSUME NEW q \in Pollers PROVE BillInvAt(q)'
    BY <2>1 DEF MoneyInv, BillInvAt, Closed
  <2>6. ASSUME NEW q1 \in Pollers, NEW q2 \in Pollers PROVE OneBillerAt(q1, q2)'
    BY <2>1 DEF MoneyInv, OneBillerAt, Closed
  <2> QED
    BY <2>2, <2>3, <2>4, <2>5, <2>6 DEF MoneyInv
<1>19. ASSUME NEW f \in Fetchers, TryRealtimeFetch(f)
       PROVE  MoneyInv'
  <2>0. PICK t \in Tasks : t = fetch[f].task
    BY <1>19 DEF TryRealtimeFetch, TypeOK
  <2>1. /\ fetch[f].copy \in Row
        /\ \A g \in Fetchers : fetch'[g] = IF g = f THEN NoFetch ELSE fetch[g]
        /\ UNCHANGED <<batch, copy, step, cur, delta, sub, charge, tCharge>>
    BY <1>19 DEF TryRealtimeFetch, TypeOK
  <2>2. CASE UNCHANGED <<row, reopened>>
    <3>1. ASSUME NEW g \in Fetchers, NEW u \in Tasks PROVE FetchInvAt(g, u)'
      <4>1. CASE g = f
        BY <2>1, <4>1, TasksAssumption DEF FetchInvAt, NoFetch, NoTask
      <4>2. CASE g # f
        BY <2>1, <2>2, <4>2 DEF MoneyInv, FetchInvAt, Closed
      <4> QED
        BY <4>1, <4>2
    <3>2. ASSUME NEW u \in Tasks PROVE RowInvAt(u)'
      BY <2>1, <2>2 DEF MoneyInv, RowInvAt, Closed
    <3>3. ASSUME NEW q \in Pollers, NEW u \in Tasks PROVE CopyInvAt(q, u)'
      BY <2>1, <2>2 DEF MoneyInv, CopyInvAt, Pending, Closed
    <3>4. ASSUME NEW q \in Pollers PROVE BillInvAt(q)'
      BY <2>1, <2>2 DEF MoneyInv, BillInvAt, Closed
    <3>5. ASSUME NEW q1 \in Pollers, NEW q2 \in Pollers PROVE OneBillerAt(q1, q2)'
      BY <2>1, <2>2 DEF MoneyInv, OneBillerAt, Closed
    <3> QED
      BY <3>1, <3>2, <3>3, <3>4, <3>5 DEF MoneyInv
  <2>3. ASSUME NEW a \in Answers(t),
               UpdateWithStatus(t, fetch[f].copy.status, WithStatus(fetch[f].copy, a.status)),
               IF row[t].status \in Terminal /\ a.status \notin Terminal
               THEN /\ reopened[t] < MaxReopens
                    /\ reopened' = [reopened EXCEPT ![t] = @ + 1]
               ELSE UNCHANGED reopened
        PROVE  MoneyInv'
    <3> DEFINE new == WithStatus(fetch[f].copy, a.status)
    <3>1. /\ new \in Row /\ new.status = a.status /\ new.quota = fetch[f].copy.quota
      <4>1. a.status \in Statuses
        BY <2>1, AnswersType DEF Answer
      <4> QED
        BY <2>1, <4>1, StatusWrite
    <3>2. /\ row[t].status = fetch[f].copy.status /\ row' = [row EXCEPT ![t] = new]
      BY <2>3 DEF UpdateWithStatus
    <3>3. /\ \A u \in Tasks : Closed(u)' => Closed(u)
          /\ Closed(t)' /\ row[t].status \in Terminal => new.status \in Terminal
      <4>1. CASE UNCHANGED reopened /\ ~(row[t].status \in Terminal /\ a.status \notin Terminal)
        BY <4>1, <3>1 DEF Closed
      <4>2. CASE reopened' = [reopened EXCEPT ![t] = @ + 1]
        <5>1. reopened[t] \in Nat
          BY <2>1, LimitsAssumption DEF TypeOK
        <5>2. reopened'[t] # 0 /\ \A u \in Tasks : u # t => reopened'[u] = reopened[u]
          BY <2>1, <4>2, <5>1 DEF TypeOK
        <5> QED
          BY <5>2 DEF Closed
      <4> QED
        BY <2>3, <4>1, <4>2
    <3> HIDE DEF new
    <3> QED
      BY <2>0, <2>1, <3>1, <3>2, <3>3, FetchCas
  <2> QED
    BY <1>19, <2>0, <2>2, <2>3 DEF TryRealtimeFetch
<1> QED
  BY <1>1, <1>2, <1>3, <1>4, <1>5, <1>6, <1>7, <1>8, <1>9, <1>11, <1>12, <1>13,
     <1>14, <1>15, <1>16, <1>17, <1>18, <1>19 DEF Next, Submit, Poll, Environment

\* The initial states satisfy the invariant.
LEMMA MoneyInit ==
  ASSUME Init
  PROVE  MoneyInv
<1>1. \A f \in Fetchers, t \in Tasks : FetchInvAt(f, t)
  BY TasksAssumption DEF Init, FetchInvAt, NoFetch, NoTask
<1> QED
  BY <1>1 DEF Init, MoneyInv, RowInvAt, CopyInvAt, BillInvAt, OneBillerAt, Pending, Billing, NoRow

\* Types, work and money together.
LEMMA MoneySafe ==
  ASSUME CasOnly
  PROVE  Spec => [](TypeOK /\ WorkInv /\ MoneyInv)
<1>1. Init => TypeOK /\ WorkInv /\ MoneyInv
  <2>1. Init => TypeOK /\ WorkInv
    BY Constants, LimitsAssumption DEF Init, TypeOK, WorkInv, WorkInvAt, Billing, NoFetch
  <2> QED
    BY <2>1, MoneyInit
<1>2. TypeOK /\ WorkInv /\ MoneyInv /\ [Next]_vars => (TypeOK /\ WorkInv /\ MoneyInv)'
  BY TypeStep, MoneyStep
<1> QED
  BY <1>1, <1>2, PTL DEF Spec

\* RefundTaskQuota and RecalculateTaskQuota never give back more than was taken,
\* for any number of nodes, tasks, GET requests, crashes and failed statements, for
\* tasks of updateVideoSingleTask no GET request has reopened.
THEOREM TaskNoOverRefund ==
  ASSUME CasOnly
  PROVE  Spec => []NoOverRefund
<1>1. TypeOK /\ WorkInv /\ MoneyInv => NoOverRefund
  BY DEF MoneyInv, RowInvAt, NoOverRefund, Closed
<1> QED
  BY <1>1, MoneySafe, PTL

\* task.Quota of an unfinished task is what its funding source was charged, for
\* tasks of updateVideoSingleTask no GET request has reopened.
THEOREM TaskQuotaIsCharge ==
  ASSUME CasOnly
  PROVE  Spec => []QuotaIsCharge
<1>1. TypeOK /\ WorkInv /\ MoneyInv => QuotaIsCharge
  BY DEF MoneyInv, RowInvAt, QuotaIsCharge, Unfinished, Closed
<1> QED
  BY <1>1, MoneySafe, PTL

\* UpdateWithStatus elects at most one process to bill a task that no GET request
\* has reopened, with any number of pollers, sweeps and GET requests.
THEOREM TaskOneBiller ==
  ASSUME CasOnly
  PROVE  Spec => []OneBiller
<1>1. TypeOK /\ WorkInv /\ MoneyInv => OneBiller
  BY DEF MoneyInv, OneBillerAt, OneBiller, Billing, Closed
<1> QED
  BY <1>1, MoneySafe, PTL

\* No step changes the status of a finished task.
LEMMA TerminalStep ==
  ASSUME TypeOK, WorkInv, MoneyInv, CasOnly, [Next]_vars, NEW u \in Tasks,
         sub[u] = "inserted", row[u].status \in Terminal,
         \A p \in Pollers : ~FailChannelTasks(p, u),
         \A f \in Fetchers : fetch[f].task = u => fetch'[f] = fetch[f]
  PROVE  row'[u].status = row[u].status
<1> USE DEF subVars, envVars, pollVars, money
<1>1. ASSUME NEW t \in Tasks, NEW q \in Quotas, SettleSubmission(t, q)
      PROVE  row'[u].status = row[u].status
  BY <1>1 DEF SettleSubmission, Submission, TypeOK
<1>2. ASSUME NEW p \in Pollers, NEW t \in Tasks, NEW new, Pending(p, t),
             UpdateWithStatus(t, copy[p][t].status, new)
      PROVE  row'[u].status = row[u].status
  <2>1. u # t
    BY <1>2 DEF UpdateWithStatus, MoneyInv, CopyInvAt
  <2> QED
    BY <1>2, <2>1 DEF UpdateWithStatus, TypeOK
<1>3. ASSUME NEW p \in Pollers, NEW t \in Tasks, SweepTask(p, t)
      PROVE  row'[u].status = row[u].status
  <2>1. Pending(p, t)
    BY <1>3 DEF SweepTask, Pending
  <2>2. \/ UpdateWithStatus(t, copy[p][t].status,
                             WithStatus(copy[p][t], "FAILURE"))
        \/ UNCHANGED row
    BY <1>3 DEF SweepTask
  <2> QED
    BY <1>2, <2>1, <2>2
<1>4. ASSUME NEW p \in Pollers, NEW b \in Actuals, UpdateVideoTask(p, b)
      PROVE  row'[u].status = row[u].status
  <2>1. cur[p] \in Tasks /\ Pending(p, cur[p])
    BY <1>4 DEF UpdateVideoTask, Pending, WorkInv, WorkInvAt
  <2>2. \/ \E new : UpdateWithStatus(cur[p], copy[p][cur[p]].status, new)
        \/ UNCHANGED row
    BY <1>4 DEF UpdateVideoTask
  <2> QED
    BY <1>2, <2>1, <2>2
<1>5. ASSUME NEW p \in Pollers, NEW t \in Tasks, FailChannelTasks(p, t)
      PROVE  row'[u].status = row[u].status
  <2>1. CASE /\ u \in batch[p] /\ attr[u].channel = attr[t].channel
             /\ (attr[u].kind = "suno") = (attr[t].kind = "suno")
    <3>1. FailChannelTasks(p, u)
      BY <1>5, <2>1 DEF FailChannelTasks
    <3> QED
      BY <3>1
  <2>2. CASE ~(/\ u \in batch[p] /\ attr[u].channel = attr[t].channel
               /\ (attr[u].kind = "suno") = (attr[t].kind = "suno"))
    BY <1>5, <2>2 DEF FailChannelTasks
  <2> QED
    BY <2>1, <2>2
<1>6. ASSUME NEW p \in Pollers, UpdateSunoTask(p) \/ SaveSunoTask(p)
      PROVE  FALSE
  BY <1>6 DEF UpdateSunoTask, SaveSunoTask, MoneyInv, BillInvAt, WorkInv, WorkInvAt, TypeOK, CasOnly
<1>7. ASSUME NEW p \in Pollers, PersistQuota(p)
      PROVE  row'[u].status = row[u].status
  <2>1. row[u] \in Row
    BY DEF TypeOK
  <2>2. CASE UNCHANGED row
    BY <2>2
  <2>3. CASE row' = [row EXCEPT ![cur[p]].quota = copy[p][cur[p]].quota + delta[p]]
    <3>1. \/ row'[u] = row[u]
          \/ row'[u] = [row[u] EXCEPT !.quota = copy[p][cur[p]].quota + delta[p]]
      BY <2>3 DEF TypeOK
    <3> QED
      BY <2>1, <3>1 DEF Row
  <2> QED
    BY <1>7, <2>2, <2>3 DEF PersistQuota
<1>8. ASSUME NEW f \in Fetchers, NEW t \in Tasks, FetchByID(f, t)
      PROVE  UNCHANGED row
  BY <1>8 DEF FetchByID
<1>16. ASSUME NEW f \in Fetchers, TryRealtimeFetch(f)
       PROVE  row'[u].status = row[u].status
  <2>1. fetch[f].task # u
    BY <1>16, TasksAssumption DEF TryRealtimeFetch, TypeOK, NoFetch, NoTask
  <2> QED
    BY <1>16, <2>1 DEF TryRealtimeFetch, UpdateWithStatus, TypeOK
<1>9. UNCHANGED row => row'[u].status = row[u].status
  OBVIOUS
<1>10. ASSUME NEW t \in Tasks, NEW q \in Quotas, PreConsumeBilling(t, q)
       PROVE  UNCHANGED row
  BY <1>10 DEF PreConsumeBilling
<1>11. ASSUME NEW t \in Tasks, SubmitFailed(t) \/ InsertTask(t) \/ CrashSubmission(t)
                                \/ UpstreamDone(t) \/ Expire(t)
       PROVE  UNCHANGED row
  BY <1>11 DEF SubmitFailed, InsertTask, CrashSubmission, UpstreamDone, Expire
<1>12. ASSUME NEW p \in Pollers, SelectTimedOut(p) \/ SelectUnfinished(p) \/ Sleep(p)
                                \/ TaskAdjustFunding(p) \/ TaskAdjustTokenQuota(p) \/ Crash(p)
       PROVE  UNCHANGED row
  BY <1>12 DEF SelectTimedOut, SelectUnfinished, Sleep, Select, TaskAdjustFunding,
               TaskAdjustTokenQuota, Crash
<1>13. ASSUME NEW p \in Pollers, NEW t \in Tasks, FetchTask(p, t)
       PROVE  UNCHANGED row
  BY <1>13 DEF FetchTask
<1>14. ASSUME NEW c \in Channels, DeleteChannel(c)
       PROVE  UNCHANGED row
  BY <1>14 DEF DeleteChannel
<1>15. UNCHANGED vars => UNCHANGED row
  BY DEF vars
<1> QED
  BY <1>1, <1>3, <1>4, <1>5, <1>6, <1>7, <1>8, <1>9, <1>10, <1>11, <1>12, <1>13, <1>14, <1>15,
     <1>16 DEF Next, Submit, Poll, Environment

\* However stale the copies the pollers write back, no poll of a task of
\* updateVideoSingleTask and no sweep changes the outcome of a finished one: the
\* only writes that do are the bulk update after a failed channel lookup and the
\* write of a GET request for that task.
THEOREM TaskTerminalIsFinal ==
  ASSUME CasOnly
  PROVE  Spec => TerminalIsFinal
<1> DEFINE Inv == TypeOK /\ WorkInv /\ MoneyInv
           Keeps == \A t \in Tasks :
             /\ sub[t] = "inserted" /\ row[t].status \in Terminal
             /\ \A p \in Pollers : ~FailChannelTasks(p, t)
             /\ \A f \in Fetchers : fetch[f].task = t => fetch'[f] = fetch[f]
             => row'[t].status = row[t].status
<1>1. Inv /\ [Next]_vars => [Keeps]_vars
  BY TerminalStep
<1>2. Spec => []Inv
  BY MoneySafe
<1> HIDE DEF Inv
<1> QED
  BY <1>1, <1>2, PTL DEF Spec, TerminalIsFinal
=============================================================================
