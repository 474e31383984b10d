------------------------------ MODULE QuotaCache ------------------------------
(***************************************************************************)
(* The balance of one user in its three places: the users row, the deltas  *)
(* the batch updater keeps in memory (model/utils.go) and the hash in      *)
(* Redis (model/user_cache.go, common/redis.go), with the functions of     *)
(* model/user.go that read and write them.                                 *)
(*                                                                         *)
(* A call of IncreaseUserQuota or DecreaseUserQuota starts a goroutine for *)
(* the hash and writes the row, or the memory, itself: the two run side by *)
(* side.  A thread is a request that reads the balance and fills the hash, *)
(* or one that saves the whole user.  Every Redis command and every        *)
(* statement is a step.                                                    *)
(*                                                                         *)
(* Time in Redis passes in half seconds, as TTL answers in seconds and     *)
(* rounds.  The tokens' balances are kept in the same three places in the  *)
(* same way (model/token.go, model/token_cache.go).                        *)
(***************************************************************************)
EXTENDS Integers, FiniteSets, Functions

CONSTANTS Calls,    \* a bound: the calls in progress at a time
          Threads,  \* a bound: the reading and saving requests at a time
          Amounts,  \* the amounts a balance may change by
          Start,    \* the balance at the start
          Lifetime, \* RedisKeyCacheSeconds, in half seconds
          BatchUpdateEnabled,
          MaxOps,   \* a bound: the changes and saves of a behaviour
          MaxFaults \* a bound: the failing statements and commands, and crashes

ASSUME CallsAssumption == IsFiniteSet(Calls)
ASSUME AmountsAssumption == Amounts \subseteq Nat
ASSUME StartAssumption == Start \in Int
ASSUME LifetimeAssumption == Lifetime \in Nat
ASSUME SwitchAssumption == BatchUpdateEnabled \in BOOLEAN
ASSUME BoundsAssumption == MaxOps \in Nat /\ MaxFaults \in Nat

VARIABLES row,       \* users.quota
          store,     \* batchUpdateStores[BatchUpdateTypeUserQuota][id]
          flushing,  \* the delta batchUpdate has taken out of the store
          hash,      \* the hash user:<id>
          call, thread,
          truth,     \* history: the balance all calls add up to
          slipped,   \* history: the row lost a change, by a fault or a save
          raced,     \* history: a change went past the hash or the fill of it
          ops, faults

db == <<row, store, flushing>>
history == <<truth, slipped, raced>>
vars == <<row, store, flushing, hash, call, thread, truth, slipped, raced,
          ops, faults>>

\* ttl is what is left to live: 0 for no such key, -1 for no expiry.  A hash
\* that is not whole has a Quota field only.
Hash == [quota: Int, whole: BOOLEAN, ttl: Int]
NoHash == [quota |-> 0, whole |-> FALSE, ttl |-> 0]
Exists == hash.ttl # 0

\* todo is what the caller has still to do, incr how far its goroutine is.
Call == [delta: Int, todo: {"none", "record", "write"},
         incr: {"none", "ttl", "exec"}, ttl: Int]
NoCall == [delta |-> 0, todo |-> "none", incr |-> "none", ttl |-> 0]

\* read: GetUserById is next; again: the second read of GetUserQuota; fill:
\* updateUserCache; ttl and exec: updateUserQuotaCache; save: Updates of a user;
\* saveAll: Save of a user.
\* value is the quota read; dirty, history: a change went past it.
Thread == [pc: {"idle", "read", "again", "fill", "ttl", "exec", "save", "saveAll"},
           value: Int, ttl: Int, dirty: BOOLEAN]
NoThread == [pc |-> "idle", value |-> 0, ttl |-> 0, dirty |-> FALSE]

TypeOK ==
    /\ row \in Int /\ store \in Int /\ flushing \in Int
    /\ hash \in Hash /\ hash.ttl >= -1 /\ (~Exists => hash = NoHash)
    /\ call \in [Calls -> Call]
    /\ thread \in [Threads -> Thread]
    /\ truth \in Int /\ slipped \in BOOLEAN /\ raced \in BOOLEAN
    /\ ops \in 0 .. MaxOps
    /\ faults \in 0 .. MaxFaults

-----------------------------------------------------------------------------
(* Redis *)

\* What TTL may answer: seconds, rounded.  The odd half second is rounded up if
\* all of it is left and down if not, so that a key about to expire has TTL 0.
\* EXPIRE takes seconds.
TTL == IF hash.ttl > 0 THEN {hash.ttl \div 2, (hash.ttl + 1) \div 2} ELSE {hash.ttl}

Expire(h, ttl) == [h EXCEPT !.ttl = 2 * ttl]

\* A key that does not exist is created with the one field.
RedisHIncrBy(delta, ttl) == Expire([hash EXCEPT !.quota = @ + delta], ttl)
RedisHSetField(value, ttl) == Expire([hash EXCEPT !.quota = value], ttl)

\* Mutant of Expiry: the expiration is forgotten.
NoExpiry == -1

\* The expiration is set only when it is positive.
Expiry == IF Lifetime > 0 THEN Lifetime ELSE -1

RedisHSetObj(value) == [quota |-> value, whole |-> TRUE, ttl |-> Expiry]

Tick ==
    /\ hash.ttl > 0
    /\ hash' = IF hash.ttl = 1 THEN NoHash ELSE [hash EXCEPT !.ttl = @ - 1]
    /\ UNCHANGED <<db, call, thread, history, ops, faults>>

\* InvalidateUserCache: ManageUser disables, promotes or demotes a user.
InvalidateUserCache ==
    /\ Exists
    /\ hash' = NoHash
    /\ UNCHANGED <<db, call, thread, history, ops, faults>>

-----------------------------------------------------------------------------
(* Changes of the balance *)

\* The threads that hold a value older than the change.
Outdated == [t \in Threads |->
               [thread[t] EXCEPT !.dirty = @ \/ thread[t].pc # "idle"]]

\* IncreaseUserQuota (sign 1) and DecreaseUserQuota (sign -1) with their flag
\* db: the goroutine of the hash is started first.
ChangeUserQuota(c, sign, amount, direct) ==
    /\ call[c] = NoCall
    /\ ops < MaxOps
    /\ ops' = ops + 1
    /\ truth' = truth + sign * amount
    /\ call' = [call EXCEPT ![c] =
                  [delta |-> sign * amount, incr |-> "ttl", ttl |-> 0,
                   todo |-> IF ~direct /\ BatchUpdateEnabled THEN "record"
                            ELSE "write"]]
    /\ thread' = Outdated
    /\ UNCHANGED <<db, hash, slipped, raced, faults>>

\* A call whose two halves are done is over.
Ended(r) == IF r.todo = "none" /\ r.incr = "none" THEN NoCall ELSE r

SetTodo(c, todo) == call' = [call EXCEPT ![c] = Ended([@ EXCEPT !.todo = todo])]
SetIncr(c, incr, ttl) == call' = [call EXCEPT ![c] =
                                    Ended([@ EXCEPT !.incr = incr, !.ttl = ttl])]

addNewRecord(c) ==
    /\ call[c].todo = "record"
    /\ store' = store + call[c].delta
    /\ SetTodo(c, "none")
    /\ UNCHANGED <<row, flushing, hash, thread, history, ops, faults>>

\* increaseUserQuota and decreaseUserQuota: one UPDATE.
WriteRow(c) ==
    /\ call[c].todo = "write"
    /\ row' = row + call[c].delta
    /\ SetTodo(c, "none")
    /\ UNCHANGED <<store, flushing, hash, thread, history, ops, faults>>

WriteRowFails(c) ==
    /\ call[c].todo = "write"
    /\ faults < MaxFaults
    /\ faults' = faults + 1
    /\ slipped' = TRUE
    /\ SetTodo(c, "none")
    /\ UNCHANGED <<db, hash, thread, truth, raced, ops>>

\* Mutant of CacheTTL: a missing key is not told apart.
CacheTTLUnchecked(c) ==
    /\ call[c].incr = "ttl"
    /\ \E ttl \in TTL : SetIncr(c, "exec", ttl)
    /\ UNCHANGED <<db, hash, thread, history, ops, faults>>

\* RedisHIncrBy asks for the TTL, and goes on only if it is positive: a key
\* without expiry, or with less than half a second to live, misses the change.
CacheTTL(c) ==
    /\ call[c].incr = "ttl"
    /\ \E ttl \in TTL :
          /\ SetIncr(c, IF ttl > 0 THEN "exec" ELSE "none", ttl)
          /\ raced' = (raced \/ (Exists /\ ~(ttl > 0)))
    /\ UNCHANGED <<db, hash, thread, truth, slipped, ops, faults>>

\* Mutant of CacheIncr: the increment is a plain write of the field.
CacheIncrSet(c) ==
    /\ call[c].incr = "exec"
    /\ hash' = RedisHSetField(call[c].delta, call[c].ttl)
    /\ SetIncr(c, "none", 0)
    /\ UNCHANGED <<db, thread, history, ops, faults>>

\* cacheIncrUserQuota: HINCRBY and EXPIRE in one transaction.
CacheIncr(c) ==
    /\ call[c].incr = "exec"
    /\ hash' = RedisHIncrBy(call[c].delta, call[c].ttl)
    /\ SetIncr(c, "none", 0)
    /\ UNCHANGED <<db, thread, history, ops, faults>>

\* The command fails; the goroutine logs it.
CacheIncrFails(c) ==
    /\ call[c].incr = "exec"
    /\ faults < MaxFaults
    /\ faults' = faults + 1
    /\ raced' = TRUE
    /\ SetIncr(c, "none", 0)
    /\ UNCHANGED <<db, hash, thread, truth, slipped, ops>>

\* Recharge, Redeem and the other transactions that credit the row and leave
\* the hash alone.
Recharge(amount) ==
    /\ ops < MaxOps
    /\ ops' = ops + 1
    /\ row' = row + amount
    /\ truth' = truth + amount
    /\ raced' = TRUE
    /\ thread' = Outdated
    /\ UNCHANGED <<store, flushing, hash, call, slipped, faults>>

\* The override of ManageUser: the row is set to a value, whatever waits to be
\* written to it, and the hash is left alone.  The balance changes by as much as
\* the row does.
OverrideQuota(value) ==
    /\ ops < MaxOps
    /\ ops' = ops + 1
    /\ row' = value
    /\ truth' = truth + (value - row)
    /\ raced' = TRUE
    /\ thread' = Outdated
    /\ UNCHANGED <<store, flushing, hash, call, slipped, faults>>

-----------------------------------------------------------------------------
(* The batch updater: one goroutine, so one flush at a time.  A delta of    *)
(* zero is written too, to no effect.                                       *)

\* Mutant of batchUpdate: only credits count as data.
batchUpdateCredits ==
    /\ flushing = 0
    /\ store > 0
    /\ flushing' = store
    /\ store' = 0
    /\ UNCHANGED <<row, hash, call, thread, history, ops, faults>>

batchUpdate ==
    /\ flushing = 0
    /\ store # 0
    /\ flushing' = store
    /\ store' = 0
    /\ UNCHANGED <<row, hash, call, thread, history, ops, faults>>

\* Mutant of FlushRow: the store that is being filled again is cleared too.
FlushRowClearing ==
    /\ flushing # 0
    /\ row' = row + flushing
    /\ flushing' = 0
    /\ store' = 0
    /\ UNCHANGED <<hash, call, thread, history, ops, faults>>

FlushRow ==
    /\ flushing # 0
    /\ row' = row + flushing
    /\ flushing' = 0
    /\ UNCHANGED <<store, hash, call, thread, history, ops, faults>>

\* The error is logged and the delta is gone.
FlushRowFails ==
    /\ flushing # 0
    /\ faults < MaxFaults
    /\ faults' = faults + 1
    /\ flushing' = 0
    /\ slipped' = TRUE
    /\ UNCHANGED <<row, store, hash, call, thread, truth, raced, ops>>

-----------------------------------------------------------------------------
(* Reading the balance, and saving a user *)

SetThread(t, r) == thread' = [thread EXCEPT ![t] = r]

\* Some change has reached only a part of the places.
Unsettled == store # 0 \/ flushing # 0 \/ \E c \in Calls : call[c] # NoCall

\* What a thread that has just read the row knows.
Read(pc) == [pc |-> pc, value |-> row, ttl |-> 0, dirty |-> Unsettled]

\* GetUserQuota, GetUserCache: the hash is not there.  When it is, its Quota
\* is the answer and nothing changes.
CacheMiss(t) ==
    /\ thread[t] = NoThread
    /\ ~Exists
    /\ SetThread(t, [NoThread EXCEPT !.pc = "read"])
    /\ UNCHANGED <<db, hash, call, history, ops, faults>>

GetUserById(t) ==
    /\ thread[t].pc = "read"
    /\ SetThread(t, Read("fill"))
    /\ UNCHANGED <<db, hash, call, history, ops, faults>>

\* GetUserQuota ignores the error and reads the quota itself.
GetUserByIdFails(t) ==
    /\ thread[t].pc = "read"
    /\ faults < MaxFaults
    /\ faults' = faults + 1
    /\ SetThread(t, [NoThread EXCEPT !.pc = "again"])
    /\ UNCHANGED <<db, hash, call, history, ops>>

SelectQuota(t) ==
    /\ thread[t].pc = "again"
    /\ SetThread(t, Read("ttl"))
    /\ UNCHANGED <<db, hash, call, history, ops, faults>>

\* updateUserCache, for GetUserCache in a goroutine.
updateUserCache(t) ==
    /\ thread[t].pc = "fill"
    /\ hash' = RedisHSetObj(thread[t].value)
    /\ raced' = thread[t].dirty
    /\ SetThread(t, NoThread)
    /\ UNCHANGED <<db, call, truth, slipped, ops, faults>>

\* updateUserQuotaCache
QuotaTTL(t) ==
    /\ thread[t].pc = "ttl"
    /\ \E ttl \in TTL :
          SetThread(t, IF ttl > 0 THEN [thread[t] EXCEPT !.pc = "exec", !.ttl = ttl]
                       ELSE NoThread)
    /\ UNCHANGED <<db, hash, call, history, ops, faults>>

QuotaSet(t) ==
    /\ thread[t].pc = "exec"
    /\ hash' = RedisHSetField(thread[t].value, thread[t].ttl)
    /\ raced' = thread[t].dirty
    /\ SetThread(t, NoThread)
    /\ UNCHANGED <<db, call, truth, slipped, ops, faults>>

\* A handler that changes a user reads all of it first.
ReadUser(t) ==
    /\ thread[t] = NoThread
    /\ ops < MaxOps
    /\ ops' = ops + 1
    /\ \E pc \in {"save", "saveAll"} : SetThread(t, Read(pc))
    /\ UNCHANGED <<db, hash, call, history, faults>>

\* User.Update writes every field that is not zero, the quota it read with
\* them; the struct it then caches has the same quota.
Update(t) ==
    /\ thread[t].pc = "save"
    /\ LET saved == IF thread[t].value = 0 THEN row ELSE thread[t].value
       IN  /\ row' = saved
           /\ slipped' = (slipped \/ saved # row)
           /\ SetThread(t, [thread[t] EXCEPT !.pc = "fill", !.value = saved])
    /\ UNCHANGED <<store, flushing, hash, call, truth, raced, ops, faults>>

\* TransferAffQuotaToQuota, and inviteUser with amount 0: every column is saved,
\* the quota read and the amount with them.  The hash is left alone.
Save(t, amount) ==
    /\ thread[t].pc = "saveAll"
    /\ row' = thread[t].value + amount
    /\ truth' = truth + amount
    /\ slipped' = (slipped \/ thread[t].value # row)
    /\ raced' = (raced \/ amount # 0)
    /\ thread' = [Outdated EXCEPT ![t] = NoThread]
    /\ UNCHANGED <<store, flushing, hash, call, ops, faults>>

-----------------------------------------------------------------------------
\* The process stops: all it had in memory is gone.
Crash ==
    /\ faults < MaxFaults
    /\ faults' = faults + 1
    /\ store' = 0
    /\ flushing' = 0
    /\ call' = [c \in Calls |-> NoCall]
    /\ thread' = [t \in Threads |-> NoThread]
    /\ slipped' = TRUE
    /\ raced' = TRUE
    /\ UNCHANGED <<row, hash, truth, ops>>

Init ==
    /\ row = Start
    /\ store = 0
    /\ flushing = 0
    /\ hash = NoHash
    /\ call = [c \in Calls |-> NoCall]
    /\ thread = [t \in Threads |-> NoThread]
    /\ truth = Start
    /\ slipped = FALSE
    /\ raced = FALSE
    /\ ops = 0
    /\ faults = 0

CallStep(c) == addNewRecord(c) \/ WriteRow(c)

CacheStep(c) == CacheTTL(c) \/ CacheIncr(c)

ThreadStep(t) ==
    \/ GetUserById(t) \/ SelectQuota(t) \/ updateUserCache(t)
    \/ QuotaTTL(t) \/ QuotaSet(t) \/ Update(t)
    \/ \E amount \in Amounts \cup {0} : Save(t, amount)

Flush == batchUpdate \/ FlushRow

Next ==
    \/ \E c \in Calls :
          \/ \E sign \in {1, -1}, amount \in Amounts, direct \in BOOLEAN :
                ChangeUserQuota(c, sign, amount, direct)
          \/ CallStep(c) \/ CacheStep(c)
          \/ WriteRowFails(c) \/ CacheIncrFails(c)
    \/ \E amount \in Amounts : Recharge(amount) \/ OverrideQuota(amount)
    \/ \E t \in Threads :
          CacheMiss(t) \/ ReadUser(t) \/ GetUserByIdFails(t) \/ ThreadStep(t)
    \/ Flush \/ FlushRowFails \/ Tick \/ InvalidateUserCache \/ Crash

Spec == Init /\ [][Next]_vars

\* Callers and goroutines run, the updater wakes up, and time passes.
FairSpec ==
    /\ Spec
    /\ \A c \in Calls : WF_vars(CallStep(c)) /\ WF_vars(CacheStep(c))
    /\ \A t \in Threads : WF_vars(ThreadStep(t))
    /\ WF_vars(Flush)
    /\ WF_vars(Tick)

-----------------------------------------------------------------------------
(* Properties *)

\* What each call has still to bring to the row or the store, and to the hash.
Unwritten == [c \in Calls |-> IF call[c].todo = "none" THEN 0 ELSE call[c].delta]
Unapplied == [c \in Calls |-> IF call[c].incr = "none" THEN 0 ELSE call[c].delta]

\* The row, the memory of the updater and the calls that have not come to
\* either add up to all that was added and taken, whatever overlaps, as long
\* as no statement failed, no process died and no save of a whole user wrote
\* back a quota that had changed since it was read.
Conserved ==
    ~slipped =>
        row + store + flushing + SumFunction(Unwritten) = truth

\* A whole hash and the increments under way show the same balance, although
\* hash and row are written side by side.  The exceptions: a change overlapped the
\* read that filled the hash, a command failed, a transaction or an override went
\* past the hash, or RedisHIncrBy skipped it because its TTL was none or read 0.
CacheAgrees ==
    (Exists /\ hash.whole /\ ~raced /\ ~slipped) =>
        hash.quota + SumFunction(Unapplied) = truth

\* Once the changes end all of them are in the row.
EventuallyWritten == <>[](slipped \/ row = truth)

\* Once the changes end a hash that was filled with an old balance, missed a
\* change or was made of one late increment, gives way to one that agrees with the
\* row.  MaxOps ends the changes: a user whose requests never pause for the
\* lifetime of the hash keeps renewing it, the wrong one too.
CacheRepaired == <>[](Exists => hash.whole /\ hash.quota = row)
===============================================================================
