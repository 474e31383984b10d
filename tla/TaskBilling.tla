---------------------------- MODULE TaskBilling ----------------------------
(***************************************************************************)
(* Asynchronous tasks (video, Suno) and their money: controller/relay.go   *)
(* RelayTask submits and settles a task, service/task_polling.go polls it  *)
(* and sweeps it after a timeout, relay/relay_task.go refreshes it when    *)
(* the user asks, service/task_billing.go refunds or re-prices it.         *)
(*                                                                         *)
(* Each process with NODE_TYPE other than "slave" runs one poller.  A      *)
(* poller works on copies of the rows it selected; every statement it      *)
(* sends and every answer it waits for is one step.  The hold/settle of    *)
(* the submission is one step each, as module HoldCapture promises.        *)
(*                                                                         *)
(* charge and tCharge are history variables: what task t has taken, net,   *)
(* from its funding source and from its token.                             *)
(***************************************************************************)
EXTENDS Integers, FiniteSets

CONSTANTS
  Tasks,           \* task ids, in the order the rows are inserted
  Pollers,         \* processes that run TaskPollingLoop
  Fetchers,        \* concurrent GET requests for a task
  Attributes,      \* what a task may look like (see Attribute)
  Channels,        \* channel ids
  Quotas,          \* prices of a submission
  Actuals,         \* prices the adaptor may report on completion; 0 keeps the price
  TaskTimeout,     \* whether TaskTimeoutMinutes > 0
  SweepLimit,      \* tasks one sweep may select (100 in the code)
  TaskQueryLimit,  \* tasks one poll may select
  MaxReopens,      \* bound: how often GET requests put one finished row back in progress
  Faults           \* kinds of fault that may strike, a subset of FaultKinds

\* "settle": the settlement of the submission is refused; "insert", "cas",
\* "save", "persist": that write of the task row fails; "funding", "token": the
\* account update fails or is refused; "upstream": the provider answers a poll
\* with an error; "channel": a channel is deleted; "lookup": the channel cache of
\* a process is behind the table, or the query for the channel fails; "crash": a
\* process dies.
FaultKinds == {"settle", "insert", "cas", "save", "persist", "funding", "token",
               "upstream", "channel", "lookup", "crash"}

\* suno: updateSunoTasks; video: updateVideoSingleTask; gemini: the same, and
\* tryRealtimeFetch when the user asks for the task.
Kinds == {"suno", "video", "gemini"}
\* upstreamTime is the submit time the provider reports, 0 if it reports none.
Attribute == [kind: Kinds, channel: Channels, submitTime: Nat, upstreamTime: Nat]

ASSUME TasksAssumption == Tasks \subseteq Nat \ {0}
ASSUME AttributesAssumption == Attributes \subseteq Attribute
ASSUME PricesAssumption == Quotas \subseteq Nat /\ Actuals \subseteq Nat
ASSUME LimitsAssumption == SweepLimit \in Nat \ {0} /\ TaskQueryLimit \in Nat \ {0}
                           /\ MaxReopens \in Nat
ASSUME TaskFaultsAssumption == Faults \subseteq FaultKinds /\ TaskTimeout \in BOOLEAN

VARIABLES
  attr,        \* the attributes of each task
  sub,         \* control point of the submission of each task
  row,         \* the row of the tasks table; before the insert, RelayTask's task
  up,          \* the task as the provider sees it
  late,        \* the submit_time in the row is before the timeout cutoff
  channels,    \* the channels that exist
  phase, batch, copy,          \* per poller: phase, selected tasks, their in-memory copies
  step, cur, answer, delta,    \* per poller: the task in hand and what is left to do for it
  fetch,       \* per GET request: the task it has read and its copy
  reopened,    \* history: how often a GET request has put a finished row back in progress
  charge, tCharge              \* history: net amounts taken for each task

subVars == <<attr, sub>>
envVars == <<up, late, channels>>
pollVars == <<phase, batch, copy, step, cur, answer, delta>>
money == <<charge, tCharge>>
vars == <<attr, sub, row, up, late, channels, phase, batch, copy, step, cur, answer, delta,
          fetch, reopened, charge, tCharge>>

\* model.TaskStatus; IN_PROGRESS also stands for SUBMITTED and QUEUED.
Statuses == {"NOT_START", "IN_PROGRESS", "SUCCESS", "FAILURE"}
Terminal == {"SUCCESS", "FAILURE"}

\* The columns of a task that billing depends on; done is progress = "100%".
Row == [status: Statuses, done: BOOLEAN, quota: Nat, submitTime: Nat]
NoRow == [status |-> "NOT_START", done |-> FALSE, quota |-> 0, submitTime |-> 0]

\* The copy x with another status, and progress "100%" if that ends the task.
WithStatus(x, s) == [status |-> s, done |-> s \in Terminal, quota |-> x.quota,
                     submitTime |-> x.submitTime]

\* What a provider answers: a status, and whether it gives a reason for failure.
Answer == [status: Statuses, failed: BOOLEAN]
NoAnswer == [status |-> "NOT_START", failed |-> FALSE]
Failed == [status |-> "FAILURE", failed |-> TRUE]

NoTask == 0
NoFetch == [task |-> NoTask, copy |-> NoRow]

TypeOK ==
  /\ attr \in [Tasks -> Attributes]
  /\ sub \in [Tasks -> {"new", "open", "accepted", "inserted", "refused", "lost"}]
  /\ row \in [Tasks -> Row]
  /\ up \in [Tasks -> {"IN_PROGRESS", "SUCCESS", "FAILURE"}]
  /\ late \in [Tasks -> BOOLEAN]
  /\ channels \subseteq Channels
  /\ phase \in [Pollers -> {"idle", "sweep", "poll"}]
  /\ batch \in [Pollers -> SUBSET Tasks]
  /\ copy \in [Pollers -> [Tasks -> Row]]
  /\ step \in [Pollers -> {"none", "answer", "funding", "token", "persist", "save"}]
  /\ cur \in [Pollers -> Tasks \cup {NoTask}]
  /\ answer \in [Pollers -> Answer]
  /\ delta \in [Pollers -> Int]
  /\ fetch \in [Fetchers -> [task: Tasks \cup {NoTask}, copy: Row]]
  /\ reopened \in [Tasks -> 0 .. MaxReopens]
  /\ charge \in [Tasks -> Int]
  /\ tCharge \in [Tasks -> Int]

Init ==
  /\ attr \in [Tasks -> Attributes]
  /\ sub = [t \in Tasks |-> "new"]
  /\ row = [t \in Tasks |-> NoRow]
  /\ up = [t \in Tasks |-> "IN_PROGRESS"]
  /\ late = [t \in Tasks |-> FALSE]
  /\ channels = Channels
  /\ phase = [p \in Pollers |-> "idle"]
  /\ batch = [p \in Pollers |-> {}]
  /\ copy = [p \in Pollers |-> [t \in Tasks |-> NoRow]]
  /\ step = [p \in Pollers |-> "none"]
  /\ cur = [p \in Pollers |-> NoTask]
  /\ answer = [p \in Pollers |-> NoAnswer]
  /\ delta = [p \in Pollers |-> 0]
  /\ fetch = [f \in Fetchers |-> NoFetch]
  /\ reopened = [t \in Tasks |-> 0]
  /\ charge = [t \in Tasks |-> 0]
  /\ tCharge = [t \in Tasks |-> 0]

-----------------------------------------------------------------------------
(* Submission: RelayTask                                                      *)

Submission(t, from, to) == sub[t] = from /\ sub' = [sub EXCEPT ![t] = to]

\* RelayTaskSubmit pre-consumes the estimated price, once for all attempts.
PreConsumeBilling(t, q) ==
  /\ Submission(t, "new", "open")
  /\ charge' = [charge EXCEPT ![t] = q] /\ tCharge' = [tCharge EXCEPT ![t] = q]
  /\ UNCHANGED <<attr, row, fetch, reopened>> /\ UNCHANGED envVars /\ UNCHANGED pollVars

\* No channel accepted the task: the deferred Refund gives the hold back.
SubmitFailed(t) ==
  /\ Submission(t, "open", "refused")
  /\ charge' = [charge EXCEPT ![t] = 0] /\ tCharge' = [tCharge EXCEPT ![t] = 0]
  /\ UNCHANGED <<attr, row, fetch, reopened>> /\ UNCHANGED envVars /\ UNCHANGED pollVars

\* The task RelayTask builds, submitted now at price q.
InitTask(t, q) ==
  [status |-> "NOT_START", done |-> FALSE, quota |-> q, submitTime |-> attr[t].submitTime]

\* Mutant of SettleSubmission: the new price is kept but not settled.
SettleForgotten(t, q) ==
  /\ Submission(t, "open", "accepted")
  /\ UNCHANGED money
  /\ row' = [row EXCEPT ![t] = InitTask(t, q)]
  /\ UNCHANGED <<attr, fetch, reopened>> /\ UNCHANGED envVars /\ UNCHANGED pollVars

\* The provider accepted the task at price q (AdjustBillingOnSubmit): settle.
\* An error of SettleBilling is only logged; the task keeps price q.
SettleSubmission(t, q) ==
  /\ Submission(t, "open", "accepted")
  /\ \/ charge' = [charge EXCEPT ![t] = q] /\ tCharge' = [tCharge EXCEPT ![t] = q]
     \/ "settle" \in Faults /\ UNCHANGED money
  /\ row' = [row EXCEPT ![t] = InitTask(t, q)]
  /\ UNCHANGED <<attr, fetch, reopened>> /\ UNCHANGED envVars /\ UNCHANGED pollVars

\* task.Insert; an error is only logged.  Ids are handed out in order.
InsertTask(t) ==
  /\ \A u \in Tasks : u < t => sub[u] \in {"inserted", "refused", "lost"}
  /\ \/ Submission(t, "accepted", "inserted")
     \/ "insert" \in Faults /\ Submission(t, "accepted", "lost")
  /\ UNCHANGED <<attr, row, fetch, reopened>> /\ UNCHANGED envVars /\ UNCHANGED pollVars /\ UNCHANGED money

\* The process dies between the hold and the insert.
CrashSubmission(t) ==
  /\ "crash" \in Faults
  /\ \E from \in {"open", "accepted"} : Submission(t, from, "lost")
  /\ UNCHANGED <<attr, row, fetch, reopened>> /\ UNCHANGED envVars /\ UNCHANGED pollVars /\ UNCHANGED money

-----------------------------------------------------------------------------
(* Selecting tasks: GetTimedOutUnfinishedTasks, GetAllUnFinishSyncTasks        *)

Unfinished == {t \in Tasks : /\ sub[t] = "inserted"
                             /\ ~row[t].done /\ row[t].status \notin Terminal}

\* ORDER BY id LIMIT n.
First(S, n) == {t \in S : Cardinality({u \in S : u < t}) < n}

\* ORDER BY submit_time LIMIT n.
Earlier(u, t) ==
  \/ row[u].submitTime < row[t].submitTime
  \/ row[u].submitTime = row[t].submitTime /\ u < t
Oldest(S, n) == {t \in S : Cardinality({u \in S : Earlier(u, t)}) < n}

\* Mutant of TimedOut: the switch is read the wrong way round.
TimedOutInverted == IF TaskTimeout THEN {} ELSE Oldest({t \in Unfinished : late[t]}, SweepLimit)

\* What one sweep selects: TaskTimeoutMinutes <= 0 turns the sweep off.
TimedOut == IF TaskTimeout THEN Oldest({t \in Unfinished : late[t]}, SweepLimit) ELSE {}

\* The rows are read once; the poller works on the copies until the next select.
Select(p, where, S) ==
  /\ phase' = [phase EXCEPT ![p] = where]
  /\ batch' = [batch EXCEPT ![p] = S]
  /\ copy' = [copy EXCEPT ![p] = [t \in Tasks |-> IF t \in S THEN row[t] ELSE NoRow]]
  /\ UNCHANGED <<step, cur, answer, delta>>
  /\ UNCHANGED <<row, fetch, reopened>> /\ UNCHANGED subVars /\ UNCHANGED envVars /\ UNCHANGED money

\* The poller has nothing in hand.
Free(p) == step[p] = "none"

SelectTimedOut(p) ==
  /\ phase[p] = "idle" /\ Select(p, "sweep", TimedOut)

SelectUnfinished(p) ==
  /\ phase[p] = "sweep" /\ batch[p] = {} /\ Free(p)
  /\ Select(p, "poll", First(Unfinished, TaskQueryLimit))

\* The round is over; the loop sleeps for 15 seconds.
Sleep(p) ==
  /\ phase[p] = "poll" /\ batch[p] = {} /\ Free(p)
  /\ Select(p, "idle", {})

-----------------------------------------------------------------------------
(* One task of the batch                                                       *)

\* Mutants of UpdateWithStatus: the WHERE on the status is gone, or only guards
\* a success.
UpdateAnyStatus(t, from, new) ==
  /\ from \in Statuses
  /\ row' = [row EXCEPT ![t] = new]
UpdateUnlessSucceeded(t, from, new) ==
  /\ from \in Statuses /\ row[t].status # "SUCCESS"
  /\ row' = [row EXCEPT ![t] = new]

\* UpdateWithStatus: write every column of the new row if the status in the
\* database is still the one the copy was read with.
UpdateWithStatus(t, from, new) ==
  /\ row[t].status = from
  /\ row' = [row EXCEPT ![t] = new]

\* The poller goes on with task t: w is the next step, a the answer it acts on
\* and d the amount by which the accounts are to be adjusted.
Continue(p, t, w, a, d) ==
  /\ step' = [step EXCEPT ![p] = w]
  /\ cur' = [cur EXCEPT ![p] = t]
  /\ answer' = [answer EXCEPT ![p] = a]
  /\ delta' = [delta EXCEPT ![p] = d]

Drop(p) == Continue(p, NoTask, "none", NoAnswer, 0)

\* An adjustment by nothing is not made.
Adjust(p, t, a, d) == IF d = 0 THEN Drop(p) ELSE Continue(p, t, "funding", a, d)

TakeOff(p, S) == batch' = [batch EXCEPT ![p] = @ \ S]

\* The constant of sweepTimedOutTasks.
legacyTaskCutoff == 1740182400

IsLegacy(x) == x.submitTime > 0 /\ x.submitTime < legacyTaskCutoff

\* One iteration of sweepTimedOutTasks: fail the task by CAS, refund it if the
\* CAS was won.
SweepTask(p, t) ==
  /\ phase[p] = "sweep" /\ Free(p) /\ t \in batch[p]
  /\ TakeOff(p, {t})
  /\ \/ /\ UpdateWithStatus(t, copy[p][t].status, WithStatus(copy[p][t], "FAILURE"))
        /\ Adjust(p, t, Failed, IF IsLegacy(copy[p][t]) THEN 0 ELSE -copy[p][t].quota)
     \/ /\ row[t].status # copy[p][t].status \/ "cas" \in Faults
        /\ UNCHANGED row /\ Drop(p)
  /\ UNCHANGED <<phase, copy>>
  /\ UNCHANGED <<fetch, reopened>> /\ UNCHANGED subVars /\ UNCHANGED envVars /\ UNCHANGED money

\* What the provider may answer about task t.  A Suno item carries a fail reason
\* of its own, whatever its status.
Answers(t) ==
  {[status |-> up[t], failed |-> up[t] = "FAILURE"]}
    \cup (IF "upstream" \in Faults THEN {Failed} ELSE {})
    \cup (IF "upstream" \in Faults /\ attr[t].kind = "suno"
          THEN {[status |-> up[t], failed |-> TRUE]} ELSE {})

\* What CacheGetChannel may say of channel c: whether there is one.  It reads a
\* copy of the table each process refreshes from time to time, or the database.
CacheGetChannel(c) == {c \in channels} \cup (IF "lookup" \in Faults THEN BOOLEAN ELSE {})

\* FetchTask for one task of the batch.  No answer, an unreadable one or a 429
\* leaves the task for the next round.
FetchTask(p, t) ==
  /\ phase[p] = "poll" /\ Free(p) /\ t \in batch[p]
  /\ TRUE \in CacheGetChannel(attr[t].channel)
  /\ TakeOff(p, {t})
  /\ \/ \E a \in Answers(t) : Continue(p, t, "answer", a, 0)
     \/ Drop(p)
  /\ UNCHANGED <<phase, copy>>
  /\ UNCHANGED <<row, fetch, reopened>> /\ UNCHANGED subVars /\ UNCHANGED envVars /\ UNCHANGED money

\* CacheGetChannel failed: TaskBulkUpdateByID fails all tasks of the channel that
\* are left in the batch, whatever their rows have become, and refunds nothing.
\* The code looks the channel up once for its tasks, the model once per task: the
\* lookup may also fail between two of them.
FailChannelTasks(p, t) ==
  LET S == {u \in batch[p] : /\ attr[u].channel = attr[t].channel
                             /\ (attr[u].kind = "suno") = (attr[t].kind = "suno")} IN
  /\ phase[p] = "poll" /\ Free(p) /\ t \in batch[p]
  /\ FALSE \in CacheGetChannel(attr[t].channel)
  /\ TakeOff(p, S)
  /\ row' = [u \in Tasks |-> IF u \in S THEN [row[u] EXCEPT !.status = "FAILURE", !.done = TRUE]
                             ELSE row[u]]
  /\ UNCHANGED <<phase, copy, step, cur, answer, delta>>
  /\ UNCHANGED <<fetch, reopened>> /\ UNCHANGED subVars /\ UNCHANGED envVars /\ UNCHANGED money

\* Mutant of Settlement: a failure is not refunded.
SettlementOnSuccess(p, t, actual) ==
  IF answer[p].status = "FAILURE" \/ actual = 0 THEN 0 ELSE actual - copy[p][t].quota

\* What settleTaskBillingOnComplete, or the refund, adjusts the accounts by.
Settlement(p, t, actual) ==
  IF answer[p].status = "FAILURE" THEN -copy[p][t].quota
  ELSE IF actual = 0 THEN 0
  ELSE actual - copy[p][t].quota

\* updateVideoSingleTask after the fetch.  A terminal status is written by CAS
\* and only the winner bills; any other status is written by CAS too, or not at
\* all when nothing changed.
UpdateVideoTask(p, actual) ==
  LET t == cur[p]
      new == WithStatus(copy[p][t], answer[p].status) IN
  /\ step[p] = "answer" /\ attr[t].kind # "suno"
  /\ \/ /\ UpdateWithStatus(t, copy[p][t].status, new)
        /\ IF answer[p].status \in Terminal
           THEN Adjust(p, t, answer[p], Settlement(p, t, actual))
           ELSE Drop(p)
     \/ /\ \/ row[t].status # copy[p][t].status
           \/ "cas" \in Faults
           \/ answer[p].status = copy[p][t].status
        /\ UNCHANGED row /\ Drop(p)
  /\ UNCHANGED <<phase, batch, copy>>
  /\ UNCHANGED <<fetch, reopened>> /\ UNCHANGED subVars /\ UNCHANGED envVars /\ UNCHANGED money

\* updateSunoTasks for one item: unless taskNeedsUpdate finds nothing new, a
\* failed item is refunded first and the row is saved afterwards.
UpdateSunoTask(p) ==
  LET t == cur[p] IN
  /\ step[p] = "answer" /\ attr[t].kind = "suno"
  /\ \/ /\ answer[p].failed /\ copy[p][t].quota # 0
        /\ Continue(p, t, "funding", answer[p], -copy[p][t].quota)
     \/ /\ ~answer[p].failed \/ copy[p][t].quota = 0
        /\ Continue(p, t, "save", answer[p], 0)
     \/ /\ ~answer[p].failed /\ answer[p].status = copy[p][t].status
        /\ attr[t].upstreamTime = copy[p][t].submitTime
        /\ Drop(p)
  /\ UNCHANGED <<phase, batch, copy>>
  /\ UNCHANGED <<row, fetch, reopened>> /\ UNCHANGED subVars /\ UNCHANGED envVars /\ UNCHANGED money

\* The copy with what the provider reports: its status, its submit time if it has
\* one, and progress "100%" on a reason for failure or a success.
SunoRow(p, t) ==
  [status |-> answer[p].status, quota |-> copy[p][t].quota,
   done |-> answer[p].failed \/ answer[p].status = "SUCCESS",
   submitTime |-> IF attr[t].upstreamTime # 0 THEN attr[t].upstreamTime ELSE copy[p][t].submitTime]

\* task.Update: every column, whatever the row has become; an error is logged.
\* Another submit time may be on the other side of the timeout cutoff.
SaveSunoTask(p) ==
  LET t == cur[p] IN
  /\ step[p] = "save"
  /\ \/ /\ row' = [row EXCEPT ![t] = SunoRow(p, t)]
        /\ \/ UNCHANGED late
           \/ /\ SunoRow(p, t).submitTime # row[t].submitTime
              /\ \E b \in BOOLEAN : late' = [late EXCEPT ![t] = b]
     \/ "save" \in Faults /\ UNCHANGED <<row, late>>
  /\ Drop(p)
  /\ UNCHANGED <<phase, batch, copy>>
  /\ UNCHANGED <<fetch, reopened, up, channels>> /\ UNCHANGED subVars /\ UNCHANGED money

-----------------------------------------------------------------------------
(* Moving the money: RefundTaskQuota and RecalculateTaskQuota                  *)

\* What follows the billing of the task in hand.
AfterBilling(p) ==
  IF phase[p] = "poll" /\ attr[cur[p]].kind = "suno" THEN "save"
  ELSE IF answer[p].status = "SUCCESS" THEN "persist"
  ELSE "none"

\* taskAdjustFunding: an error ends the billing and is not retried.
TaskAdjustFunding(p) ==
  /\ step[p] = "funding"
  /\ \/ /\ charge' = [charge EXCEPT ![cur[p]] = @ + delta[p]]
        /\ Continue(p, cur[p], "token", answer[p], delta[p])
     \/ /\ "funding" \in Faults
        /\ UNCHANGED charge
        /\ IF AfterBilling(p) = "save" THEN Continue(p, cur[p], "save", answer[p], 0) ELSE Drop(p)
  /\ UNCHANGED <<phase, batch, copy, tCharge>>
  /\ UNCHANGED <<row, fetch, reopened>> /\ UNCHANGED subVars /\ UNCHANGED envVars

\* taskAdjustTokenQuota: skipped when the token is gone, an error is logged.
TaskAdjustTokenQuota(p) ==
  /\ step[p] = "token"
  /\ \/ tCharge' = [tCharge EXCEPT ![cur[p]] = @ + delta[p]]
     \/ "token" \in Faults /\ UNCHANGED tCharge
  /\ IF AfterBilling(p) = "none" THEN Drop(p)
     ELSE Continue(p, cur[p], AfterBilling(p), answer[p], delta[p])
  /\ UNCHANGED <<phase, batch, copy, charge>>
  /\ UNCHANGED <<row, fetch, reopened>> /\ UNCHANGED subVars /\ UNCHANGED envVars

\* Mutant of PersistQuota: the difference is stored instead of the price.
PersistDelta(p) ==
  /\ step[p] = "persist"
  /\ row' = [row EXCEPT ![cur[p]].quota = delta[p]]
  /\ Drop(p)
  /\ UNCHANGED <<phase, batch, copy>>
  /\ UNCHANGED <<fetch, reopened>> /\ UNCHANGED subVars /\ UNCHANGED envVars /\ UNCHANGED money

\* The last statement of RecalculateTaskQuota: keep the new price in the row.
PersistQuota(p) ==
  LET t == cur[p] IN
  /\ step[p] = "persist"
  /\ \/ row' = [row EXCEPT ![t].quota = copy[p][t].quota + delta[p]]
     \/ "persist" \in Faults /\ UNCHANGED row
  /\ Drop(p)
  /\ UNCHANGED <<phase, batch, copy>>
  /\ UNCHANGED <<fetch, reopened>> /\ UNCHANGED subVars /\ UNCHANGED envVars /\ UNCHANGED money

-----------------------------------------------------------------------------
(* The user asks for a task: tryRealtimeFetch                                  *)

\* The handler reads the row, whatever its status.
FetchByID(f, t) ==
  /\ fetch[f].task = NoTask /\ sub[t] = "inserted"
  /\ attr[t].kind = "gemini" /\ attr[t].channel \in channels
  /\ fetch' = [fetch EXCEPT ![f] = [task |-> t, copy |-> row[t]]]
  /\ UNCHANGED <<row, reopened>> /\ UNCHANGED subVars /\ UNCHANGED envVars
  /\ UNCHANGED pollVars /\ UNCHANGED money

\* The provider's answer is written by CAS against the status that was read;
\* nobody looks at the outcome and nothing is billed.  A finished row is no
\* exception: if a sweep or an error of the provider ended the task, the provider
\* may still be working on it and the row is opened again.  The answer is taken
\* and written in one step: the row was read before it, so a CAS with an answer
\* that has grown old is one the request could have made when it was new.
TryRealtimeFetch(f) ==
  LET t == fetch[f].task IN
  /\ t # NoTask
  /\ fetch' = [fetch EXCEPT ![f] = NoFetch]
  /\ \/ \E a \in Answers(t) :
          /\ UpdateWithStatus(t, fetch[f].copy.status, WithStatus(fetch[f].copy, a.status))
          /\ IF row[t].status \in Terminal /\ a.status \notin Terminal
             THEN /\ reopened[t] < MaxReopens
                  /\ reopened' = [reopened EXCEPT ![t] = @ + 1]
             ELSE UNCHANGED reopened
     \/ UNCHANGED <<row, reopened>>
  /\ UNCHANGED subVars /\ UNCHANGED envVars /\ UNCHANGED pollVars /\ UNCHANGED money

-----------------------------------------------------------------------------
(* Environment                                                                 *)

\* The provider finishes the task.
UpstreamDone(t) ==
  /\ sub[t] = "inserted" /\ up[t] = "IN_PROGRESS"
  /\ \E s \in Terminal : up' = [up EXCEPT ![t] = s]
  /\ UNCHANGED <<late, channels, row, fetch, reopened>>
  /\ UNCHANGED subVars /\ UNCHANGED pollVars /\ UNCHANGED money

\* The timeout of the task passes.
Expire(t) ==
  /\ TaskTimeout /\ sub[t] = "inserted" /\ ~late[t]
  /\ late' = [late EXCEPT ![t] = TRUE]
  /\ UNCHANGED <<up, channels, row, fetch, reopened>>
  /\ UNCHANGED subVars /\ UNCHANGED pollVars /\ UNCHANGED money

DeleteChannel(c) ==
  /\ "channel" \in Faults /\ c \in channels
  /\ channels' = channels \ {c}
  /\ UNCHANGED <<up, late, row, fetch, reopened>>
  /\ UNCHANGED subVars /\ UNCHANGED pollVars /\ UNCHANGED money

\* A process dies and comes back: its copies and the billing in hand are gone.
Crash(p) ==
  /\ "crash" \in Faults /\ phase[p] # "idle"
  /\ phase' = [phase EXCEPT ![p] = "idle"]
  /\ batch' = [batch EXCEPT ![p] = {}]
  /\ copy' = [copy EXCEPT ![p] = [t \in Tasks |-> NoRow]]
  /\ Drop(p)
  /\ UNCHANGED <<row, fetch, reopened>> /\ UNCHANGED subVars /\ UNCHANGED envVars /\ UNCHANGED money

Submit(t) ==
  \/ \E q \in Quotas : PreConsumeBilling(t, q) \/ SettleSubmission(t, q)
  \/ SubmitFailed(t) \/ InsertTask(t)

Poll(p) ==
  \/ SelectTimedOut(p) \/ SelectUnfinished(p) \/ Sleep(p)
  \/ \E t \in Tasks : SweepTask(p, t) \/ FetchTask(p, t) \/ FailChannelTasks(p, t)
  \/ \E actual \in Actuals : UpdateVideoTask(p, actual)
  \/ UpdateSunoTask(p) \/ SaveSunoTask(p)
  \/ TaskAdjustFunding(p) \/ TaskAdjustTokenQuota(p) \/ PersistQuota(p)

Environment ==
  \/ \E t \in Tasks : UpstreamDone(t) \/ Expire(t) \/ CrashSubmission(t)
  \/ \E c \in Channels : DeleteChannel(c)
  \/ \E p \in Pollers : Crash(p)

Next ==
  \/ \E t \in Tasks : Submit(t)
  \/ \E p \in Pollers : Poll(p)
  \/ \E f \in Fetchers : TryRealtimeFetch(f) \/ \E t \in Tasks : FetchByID(f, t)
  \/ Environment

Spec == Init /\ [][Next]_vars

\* The loops of the pollers and the submission handlers run on, and time passes.
\* Nothing is assumed of the providers: a poll may go unanswered for ever.
FairSpec ==
  /\ Spec
  /\ \A p \in Pollers : WF_vars(Poll(p))
  /\ \A t \in Tasks : WF_vars(Submit(t)) /\ WF_vars(Expire(t))
-----------------------------------------------------------------------------
(* Properties                                                                  *)

\* RefundTaskQuota and RecalculateTaskQuota: whatever pollers, sweeps and crashes
\* do, a task that updateVideoSingleTask polls is never given back more than was
\* taken for it, unless a GET request has reopened it after it had ended.
NoOverRefund == \A t \in Tasks : reopened[t] = 0 => charge[t] >= 0 /\ tCharge[t] >= 0

\* task.Quota is what a refund would pay: while a task is unfinished it is
\* exactly what its funding source has been charged, unless a GET request has
\* reopened it.
QuotaIsCharge == \A t \in Unfinished : reopened[t] = 0 => charge[t] = row[t].quota

\* The CAS of UpdateWithStatus elects one process to bill a task: no two
\* pollers, sweeping or polling, are ever moving money for the same task, unless
\* a GET request has reopened it.
OneBiller ==
  \A p, q \in Pollers :
    /\ step[p] \in {"funding", "token", "persist"}
    /\ step[q] \in {"funding", "token", "persist"}
    /\ cur[p] = cur[q] /\ reopened[cur[p]] = 0
    => p = q

\* A finished task is never reopened and never changes its outcome, however
\* stale the copy a poller writes back.  Two writers are excepted: the bulk update
\* after a failed channel lookup, which looks at no status, and a GET request.
TerminalIsFinal ==
  [][\A t \in Tasks :
       /\ sub[t] = "inserted" /\ row[t].status \in Terminal
       /\ \A p \in Pollers : ~FailChannelTasks(p, t)
       /\ \A f \in Fetchers : fetch[f].task = t => fetch'[f] = fetch[f]
       => row'[t].status = row[t].status]_vars

\* The sweep ends every task, even one whose provider never answers and even
\* when more tasks are pending than one round selects.
EveryTaskFinishes == \A t \in Tasks : sub[t] = "inserted" ~> row[t].done

\* RefundTaskQuota: a task that fails, timeouts included, is given back in full.
FailureRefunded ==
  \A t \in Tasks :
    sub[t] = "inserted" /\ row[t].status = "FAILURE" /\ ~IsLegacy(row[t]) ~> charge[t] = 0

\* The comment of legacyTaskCutoff, 2026-02-22 00:00:00 UTC in seconds.
documentedLegacyCutoff == 1771718400

\* sweepTimedOutTasks refunds no task of the old system, that is none submitted
\* before the documented cutoff.
LegacyNotRefunded ==
  \A p \in Pollers :
    phase[p] = "sweep" /\ step[p] = "funding"
      => copy[p][cur[p]].submitTime >= documentedLegacyCutoff
=============================================================================
