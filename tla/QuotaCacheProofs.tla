--------------------------- MODULE QuotaCacheProofs ---------------------------
(***************************************************************************)
(* The balance of a user is conserved, and the hash agrees with it, for    *)
(* any number of calls and threads, any amounts and any bounds.            *)
(*                                                                         *)
(* The inductive invariant adds two parts to what the theorems state.      *)
(* ExpiryInv: an increment or a write of the field that is under way       *)
(* carries a time to live, so it never leaves a hash behind that Redis     *)
(* holds for gone.  CleanInv: a thread whose value no change has gone past *)
(* holds the true balance, and nothing is under way; this is why a hash it *)
(* fills agrees.  What the calls have still to bring is a sum over Calls,  *)
(* which FoldLemmas reasons about.                                         *)
(***************************************************************************)
EXTENDS QuotaCache, FoldLemmas

\* What waits to be executed after a TTL has a time to live.
ExpiryInv ==
    /\ \A c \in Calls : call[c].incr = "exec" => call[c].ttl > 0
    /\ \A t \in Threads : thread[t].pc = "exec" => thread[t].ttl > 0

\* TTL answers a number, and a positive one only for a key with an expiry.
LEMMA TTLFacts ==
  ASSUME TypeOK, NEW ttl \in TTL
  PROVE  ttl \in Int /\ (ttl > 0 => hash.ttl > 0)
<1>1. hash.ttl \in Int
  BY DEF TypeOK, Hash
<1>2. hash.ttl \div 2 \in Int /\ (hash.ttl + 1) \div 2 \in Int
  BY <1>1
<1> QED
  BY <1>1, <1>2 DEF TTL

\* The fields of a call.
LEMMA CallFields ==
  ASSUME TypeOK, NEW c \in Calls
  PROVE  /\ call[c] \in Call /\ call[c].delta \in Int /\ call[c].ttl \in Int
         /\ call[c].todo \in {"none", "record", "write"}
         /\ call[c].incr \in {"none", "ttl", "exec"}
  BY DEF TypeOK, Call

\* The fields of a thread.
LEMMA ThreadFields ==
  ASSUME TypeOK, NEW t \in Threads
  PROVE  /\ thread[t] \in Thread /\ thread[t].value \in Int
         /\ thread[t].ttl \in Int /\ thread[t].dirty \in BOOLEAN
  BY DEF TypeOK, Thread

\* HINCRBY and HSET with EXPIRE write the Quota field and the time to live.
LEMMA HashWrites ==
  ASSUME TypeOK, NEW value \in Int, NEW ttl \in Int
  PROVE  /\ hash \in Hash /\ hash.quota \in Int
         /\ RedisHIncrBy(value, ttl) =
               [quota |-> hash.quota + value, whole |-> hash.whole, ttl |-> 2 * ttl]
         /\ RedisHSetField(value, ttl) =
               [quota |-> value, whole |-> hash.whole, ttl |-> 2 * ttl]
         /\ RedisHIncrBy(value, ttl) \in Hash /\ RedisHSetField(value, ttl) \in Hash
<1>1. hash \in Hash /\ hash.quota \in Int /\ hash.whole \in BOOLEAN
  BY DEF TypeOK, Hash
<1>2. ASSUME NEW q \in Int
      PROVE  Expire([hash EXCEPT !.quota = q], ttl)
               = [quota |-> q, whole |-> hash.whole, ttl |-> 2 * ttl]
  <2> DEFINE h == [hash EXCEPT !.quota = q]
  <2>1. h \in Hash /\ h.quota = q /\ h.whole = hash.whole
    BY <1>1 DEF Hash
  <2> HIDE DEF h
  <2>2. Expire(h, ttl) = [quota |-> q, whole |-> hash.whole, ttl |-> 2 * ttl]
    BY <2>1 DEF Expire, Hash
  <2> QED
    BY <2>2 DEF h
<1>3. /\ RedisHIncrBy(value, ttl) = Expire([hash EXCEPT !.quota = hash.quota + value], ttl)
      /\ RedisHSetField(value, ttl) = Expire([hash EXCEPT !.quota = value], ttl)
  BY DEF RedisHIncrBy, RedisHSetField
<1>4. hash.quota + value \in Int /\ 2 * ttl \in Int
  BY <1>1
<1>5. \A q \in Int : [quota |-> q, whole |-> hash.whole, ttl |-> 2 * ttl] \in Hash
  BY <1>1, <1>4 DEF Hash
<1> QED
  BY <1>1, <1>2, <1>3, <1>4, <1>5

\* What becomes of the record of a call.
LEMMA CallRecords ==
  ASSUME TypeOK, NEW c \in Calls
  PROVE  /\ call[c] \in Call /\ NoCall \in Call
         /\ \A todo \in {"none", "record", "write"} :
               Ended([call[c] EXCEPT !.todo = todo]) \in Call
         /\ \A incr \in {"none", "ttl", "exec"}, ttl \in Int :
               Ended([call[c] EXCEPT !.incr = incr, !.ttl = ttl]) \in Call
<1>1. call[c] \in Call /\ NoCall \in Call
  BY DEF TypeOK, Call, NoCall
<1> QED
  BY <1>1 DEF Call, Ended

\* Setting the record of one call leaves the others alone.
LEMMA CallTyped ==
  ASSUME TypeOK, NEW c \in Calls, NEW r \in Call, call' = [call EXCEPT ![c] = r]
  PROVE  /\ call' \in [Calls -> Call] /\ call'[c] = r
         /\ \A d \in Calls : d # c => call'[d] = call[d]
  BY DEF TypeOK

\* Setting one thread leaves the others alone.
LEMMA ThreadTyped ==
  ASSUME TypeOK, NEW t \in Threads, NEW r \in Thread, SetThread(t, r)
  PROVE  /\ thread' \in [Threads -> Thread] /\ thread'[t] = r
         /\ \A s \in Threads : s # t => thread'[s] = thread[s]
  BY DEF TypeOK, SetThread

\* A call that is done with the row is still a call.
LEMMA SetTodoFacts ==
  ASSUME TypeOK, ExpiryInv, NEW c \in Calls, SetTodo(c, "none")
  PROVE  /\ call' \in [Calls -> Call]
         /\ \A d \in Calls : call'[d].incr = "exec" => call'[d].ttl > 0
<1> DEFINE r == Ended([call[c] EXCEPT !.todo = "none"])
<1>1. call[c] \in Call /\ r \in Call
  BY CallRecords
<1>2. call' = [call EXCEPT ![c] = r]
  BY DEF SetTodo, TypeOK
<1>3. r.incr = "exec" => r.ttl > 0
  BY <1>1 DEF Ended, NoCall, Call, ExpiryInv
<1> HIDE DEF r
<1> QED
  BY <1>1, <1>2, <1>3, CallTyped DEF ExpiryInv

\* A call whose goroutine goes on after TTL has a time to live.
LEMMA SetIncrFacts ==
  ASSUME TypeOK, ExpiryInv, NEW c \in Calls, NEW incr \in {"none", "exec"},
         NEW ttl \in Int, incr = "exec" => ttl > 0, SetIncr(c, incr, ttl)
  PROVE  /\ call' \in [Calls -> Call]
         /\ \A d \in Calls : call'[d].incr = "exec" => call'[d].ttl > 0
<1> DEFINE r == Ended([call[c] EXCEPT !.incr = incr, !.ttl = ttl])
<1>1. call[c] \in Call /\ r \in Call
  BY CallRecords
<1>2. call' = [call EXCEPT ![c] = r]
  BY DEF SetIncr, TypeOK
<1>3. r.incr = "exec" => r.ttl > 0
  BY <1>1 DEF Ended, NoCall, Call
<1> HIDE DEF r
<1> QED
  BY <1>1, <1>2, <1>3, CallTyped DEF ExpiryInv

\* A change marks every thread in progress and moves none.
LEMMA OutdatedFacts ==
  ASSUME TypeOK, ExpiryInv, thread' = Outdated
  PROVE  /\ thread' \in [Threads -> Thread]
         /\ \A t \in Threads : /\ thread'[t].pc = thread[t].pc
                               /\ thread'[t].ttl = thread[t].ttl
                               /\ thread[t].pc # "idle" => thread'[t].dirty
<1>1. \A t \in Threads : thread[t] \in Thread
  BY DEF TypeOK
<1> QED
  BY <1>1 DEF Outdated, Thread

\* A save of a whole user ends its thread and marks the others.
LEMMA SaveThreads ==
  ASSUME TypeOK, ExpiryInv, NEW t \in Threads, NEW amount, Save(t, amount)
  PROVE  /\ thread' \in [Threads -> Thread] /\ thread'[t] = NoThread
         /\ \A s \in Threads : s # t =>
               thread'[s] = [thread[s] EXCEPT !.dirty = @ \/ thread[s].pc # "idle"]
         /\ \A s \in Threads : thread'[s].pc = "exec" => thread'[s].ttl > 0
<1>1. \A s \in Threads : thread[s] \in Thread
  BY DEF TypeOK
<1>2. Outdated \in [Threads -> Thread]
  BY <1>1 DEF Outdated, Thread
<1>3. NoThread \in Thread /\ NoThread.pc = "idle"
  BY DEF Thread, NoThread
<1>4. thread' = [Outdated EXCEPT ![t] = NoThread]
  BY DEF Save
<1>5. /\ thread' \in [Threads -> Thread] /\ thread'[t] = NoThread
      /\ \A s \in Threads : s # t => thread'[s] = Outdated[s]
  BY <1>2, <1>3, <1>4
<1>6. \A s \in Threads : /\ Outdated[s].pc = thread[s].pc
                          /\ Outdated[s].ttl = thread[s].ttl
  BY <1>1 DEF Outdated, Thread
<1>7. ASSUME NEW s \in Threads, thread'[s].pc = "exec"
      PROVE  thread'[s].ttl > 0
  <2>1. s # t
    BY <1>3, <1>5, <1>7
  <2>2. thread'[s].pc = thread[s].pc /\ thread'[s].ttl = thread[s].ttl
    BY <1>5, <1>6, <2>1
  <2> QED
    BY <1>7, <2>2 DEF ExpiryInv
<1> QED
  BY <1>5, <1>7 DEF Outdated

\* Every step keeps the types, and ExpiryInv with them: a time to live that
\* is written is never zero.
LEMMA TypeStep ==
  ASSUME TypeOK, ExpiryInv, [Next]_vars
  PROVE  TypeOK' /\ ExpiryInv'
<1> USE BoundsAssumption, AmountsAssumption
<1>1. ASSUME NEW c \in Calls, NEW sign \in {1, -1}, NEW amount \in Amounts,
             NEW direct \in BOOLEAN, ChangeUserQuota(c, sign, amount, direct)
      PROVE  TypeOK' /\ ExpiryInv'
  <2> DEFINE r == [delta |-> sign * amount, incr |-> "ttl", ttl |-> 0,
                   todo |-> IF ~direct /\ BatchUpdateEnabled THEN "record"
                            ELSE "write"]
  <2>1. sign * amount \in Int
    BY AmountsAssumption
  <2>2. r \in Call /\ r.incr # "exec"
    BY <2>1 DEF Call
  <2>3. call' = [call EXCEPT ![c] = r] /\ thread' = Outdated
    BY <1>1 DEF ChangeUserQuota
  <2> HIDE DEF r
  <2>4. /\ call' \in [Calls -> Call] /\ call'[c] = r
        /\ \A d \in Calls : d # c => call'[d] = call[d]
    BY <2>2, <2>3, CallTyped
  <2>5. truth' \in Int /\ ops' \in 0 .. MaxOps
    BY <1>1, <2>1 DEF ChangeUserQuota, TypeOK
  <2>6. UNCHANGED <<row, store, flushing, hash, slipped, raced, faults>>
    BY <1>1 DEF ChangeUserQuota, db
  <2> QED
    BY <2>2, <2>3, <2>4, <2>5, <2>6, OutdatedFacts DEF TypeOK, ExpiryInv, Exists
<1>2. ASSUME NEW c \in Calls, addNewRecord(c) PROVE TypeOK' /\ ExpiryInv'
  <2>1. store' \in Int
    BY <1>2, CallFields DEF addNewRecord, TypeOK
  <2> QED
    BY <1>2, <2>1, SetTodoFacts DEF addNewRecord, TypeOK, ExpiryInv, Exists, history
<1>3. ASSUME NEW c \in Calls, WriteRow(c) PROVE TypeOK' /\ ExpiryInv'
  <2>1. row' \in Int
    BY <1>3, CallFields DEF WriteRow, TypeOK
  <2> QED
    BY <1>3, <2>1, SetTodoFacts DEF WriteRow, TypeOK, ExpiryInv, Exists, history
<1>4. ASSUME NEW c \in Calls, WriteRowFails(c) PROVE TypeOK' /\ ExpiryInv'
  BY <1>4, SetTodoFacts DEF WriteRowFails, TypeOK, ExpiryInv, Exists, db
<1>5. ASSUME NEW c \in Calls, CacheTTL(c) PROVE TypeOK' /\ ExpiryInv'
  <2>1. /\ call' \in [Calls -> Call]
        /\ \A d \in Calls : call'[d].incr = "exec" => call'[d].ttl > 0
    <3>1. PICK ttl \in TTL : SetIncr(c, IF ttl > 0 THEN "exec" ELSE "none", ttl)
      BY <1>5 DEF CacheTTL
    <3>2. ttl \in Int
      BY TTLFacts
    <3>3. CASE ttl > 0
      BY <3>1, <3>2, <3>3, SetIncrFacts
    <3>4. CASE ~(ttl > 0)
      BY <3>1, <3>2, <3>4, SetIncrFacts
    <3> QED
      BY <3>3, <3>4
  <2>2. raced' \in BOOLEAN
    BY <1>5 DEF CacheTTL, TypeOK
  <2> QED
    BY <1>5, <2>1, <2>2 DEF CacheTTL, TypeOK, ExpiryInv, Exists, db
<1>6. ASSUME NEW c \in Calls, CacheIncr(c) PROVE TypeOK' /\ ExpiryInv'
  <2>1. /\ call' \in [Calls -> Call]
        /\ \A d \in Calls : call'[d].incr = "exec" => call'[d].ttl > 0
    BY <1>6, SetIncrFacts DEF CacheIncr
  <2>2. call[c].delta \in Int /\ call[c].ttl \in Int /\ call[c].ttl > 0
    BY <1>6, CallFields DEF CacheIncr, ExpiryInv
  <2>3. hash' \in Hash /\ hash'.ttl > 0
    <3>1. hash' = RedisHIncrBy(call[c].delta, call[c].ttl)
      BY <1>6 DEF CacheIncr
    <3> QED
      BY <2>2, <3>1, HashWrites
  <2> QED
    BY <1>6, <2>1, <2>3 DEF CacheIncr, TypeOK, ExpiryInv, Exists, db, history, Hash
<1>7. ASSUME NEW c \in Calls, CacheIncrFails(c) PROVE TypeOK' /\ ExpiryInv'
  BY <1>7, SetIncrFacts DEF CacheIncrFails, TypeOK, ExpiryInv, Exists, db
<1>8. ASSUME NEW amount \in Amounts, Recharge(amount) PROVE TypeOK' /\ ExpiryInv'
  BY <1>8, OutdatedFacts DEF Recharge, TypeOK, ExpiryInv, Exists
<1>8a. ASSUME NEW value \in Amounts, OverrideQuota(value) PROVE TypeOK' /\ ExpiryInv'
  <2>1. row' \in Int /\ truth' \in Int
    BY <1>8a DEF OverrideQuota, TypeOK
  <2> QED
    BY <1>8a, <2>1, OutdatedFacts DEF OverrideQuota, TypeOK, ExpiryInv, Exists
<1>9. CASE batchUpdate \/ FlushRow \/ FlushRowFails
  <2>1. /\ row' \in Int /\ store' \in Int /\ flushing' \in Int
        /\ slipped' \in BOOLEAN /\ faults' \in 0 .. MaxFaults
    <3>1. CASE batchUpdate
      BY <3>1 DEF batchUpdate, TypeOK, history
    <3>2. CASE FlushRow
      BY <3>2 DEF FlushRow, TypeOK, history
    <3>3. CASE FlushRowFails
      BY <3>3 DEF FlushRowFails, TypeOK
    <3> QED
      BY <1>9, <3>1, <3>2, <3>3
  <2>2. UNCHANGED <<hash, call, thread, truth, raced, ops>>
    BY <1>9 DEF batchUpdate, FlushRow, FlushRowFails, history
  <2> QED
    BY <2>1, <2>2 DEF TypeOK, ExpiryInv, Exists
<1>10. CASE Tick
  <2>1. hash \in Hash /\ hash.ttl \in Int
    BY DEF TypeOK, Hash
  <2>2. CASE hash.ttl = 1
    BY <1>10, <2>2 DEF Tick, TypeOK, ExpiryInv, Exists, history, db, Hash, NoHash
  <2>3. CASE hash.ttl # 1
    <3>1. hash' = [hash EXCEPT !.ttl = hash.ttl - 1] /\ hash.ttl > 0
      BY <1>10, <2>3 DEF Tick
    <3>2. hash' \in Hash /\ hash'.ttl > 0
      BY <2>1, <2>3, <3>1 DEF Hash
    <3> QED
      BY <1>10, <3>2 DEF Tick, TypeOK, ExpiryInv, Exists, history, db, Hash
  <2> QED
    BY <2>2, <2>3
<1>11. CASE InvalidateUserCache
  BY <1>11 DEF InvalidateUserCache, TypeOK, ExpiryInv, Exists, history, db, Hash, NoHash
<1>12. CASE Crash
  BY <1>12 DEF Crash, TypeOK, ExpiryInv, Exists, NoCall, NoThread, Call, Thread
<1>r. NoThread \in Thread /\ \A pc \in {"fill", "ttl", "save", "saveAll"} : Read(pc) \in Thread
  BY DEF TypeOK, Thread, NoThread, Read, Unsettled
<1>s. \A pc \in {"read", "again"} : /\ [NoThread EXCEPT !.pc = pc] \in Thread
                                    /\ [NoThread EXCEPT !.pc = pc].pc = pc
  BY <1>r DEF Thread
<1>13. ASSUME NEW t \in Threads, CacheMiss(t) PROVE TypeOK' /\ ExpiryInv'
  <2>1. /\ SetThread(t, [NoThread EXCEPT !.pc = "read"])
        /\ UNCHANGED <<row, store, flushing, hash, call, truth, slipped, raced, ops, faults>>
    BY <1>13 DEF CacheMiss, history, db
  <2>2. /\ thread' \in [Threads -> Thread] /\ thread'[t].pc = "read"
        /\ \A s \in Threads : s # t => thread'[s] = thread[s]
    BY <1>s, <2>1, ThreadTyped
  <2> QED
    BY <2>1, <2>2 DEF TypeOK, ExpiryInv, Exists
<1>14. ASSUME NEW t \in Threads, GetUserById(t) PROVE TypeOK' /\ ExpiryInv'
  BY <1>14, <1>r, ThreadTyped DEF GetUserById, TypeOK, ExpiryInv, Exists, history, db, Read
<1>15. ASSUME NEW t \in Threads, GetUserByIdFails(t) PROVE TypeOK' /\ ExpiryInv'
  <2>1. faults' \in 0 .. MaxFaults
    BY <1>15 DEF GetUserByIdFails, TypeOK
  <2> QED
    BY <1>15, <1>s, <2>1, ThreadTyped DEF GetUserByIdFails, TypeOK, ExpiryInv, Exists, history, db
<1>16. ASSUME NEW t \in Threads, SelectQuota(t) PROVE TypeOK' /\ ExpiryInv'
  BY <1>16, <1>r, ThreadTyped DEF SelectQuota, TypeOK, ExpiryInv, Exists, history, db, Read
<1>17. ASSUME NEW t \in Threads, updateUserCache(t) PROVE TypeOK' /\ ExpiryInv'
  <2>1. thread[t].value \in Int /\ thread[t].dirty \in BOOLEAN
    BY DEF TypeOK, Thread
  <2>2. hash' \in Hash /\ hash'.ttl >= -1 /\ hash'.ttl # 0
    BY <1>17, <2>1, LifetimeAssumption DEF updateUserCache, RedisHSetObj, Expiry, Hash
  <2> QED
    BY <1>17, <1>r, <2>1, <2>2, ThreadTyped DEF updateUserCache, TypeOK, ExpiryInv, Exists, db, NoThread
<1>18. ASSUME NEW t \in Threads, QuotaTTL(t) PROVE TypeOK' /\ ExpiryInv'
  <2>1. thread[t] \in Thread
    BY DEF TypeOK
  <2>a. PICK ttl \in TTL :
            SetThread(t, IF ttl > 0 THEN [thread[t] EXCEPT !.pc = "exec", !.ttl = ttl]
                         ELSE NoThread)
    BY <1>18 DEF QuotaTTL
  <2>b. ttl \in Int
    BY TTLFacts
  <2>2. CASE ttl > 0
    <3> DEFINE r == [thread[t] EXCEPT !.pc = "exec", !.ttl = ttl]
    <3>1. r \in Thread /\ r.ttl > 0 /\ SetThread(t, r)
      BY <2>1, <2>2, <2>a, <2>b DEF Thread
    <3> HIDE DEF r
    <3> QED
      BY <1>18, <3>1, ThreadTyped DEF QuotaTTL, TypeOK, ExpiryInv, Exists, history, db
  <2>3. CASE ~(ttl > 0)
    <3>1. SetThread(t, NoThread)
      BY <2>3, <2>a
    <3> QED
      BY <1>18, <1>r, <3>1, ThreadTyped DEF QuotaTTL, TypeOK, ExpiryInv, Exists, history, db, NoThread
  <2> QED
    BY <2>2, <2>3
<1>19. ASSUME NEW t \in Threads, QuotaSet(t) PROVE TypeOK' /\ ExpiryInv'
  <2>1. /\ thread[t].value \in Int /\ thread[t].dirty \in BOOLEAN
        /\ thread[t].ttl \in Int /\ thread[t].ttl > 0
    BY <1>19 DEF TypeOK, Thread, ExpiryInv, QuotaSet
  <2>2. hash' \in Hash /\ hash'.ttl > 0
    <3>1. hash' = RedisHSetField(thread[t].value, thread[t].ttl)
      BY <1>19 DEF QuotaSet
    <3> QED
      BY <2>1, <3>1, HashWrites
  <2> QED
    BY <1>19, <1>r, <2>1, <2>2, ThreadTyped DEF QuotaSet, TypeOK, ExpiryInv, Exists, db, NoThread, Hash
<1>20. ASSUME NEW t \in Threads, ReadUser(t) PROVE TypeOK' /\ ExpiryInv'
  <2>1. PICK pc \in {"save", "saveAll"} : SetThread(t, Read(pc))
    BY <1>20 DEF ReadUser
  <2> QED
    BY <1>20, <1>r, <2>1, ThreadTyped
       DEF ReadUser, TypeOK, ExpiryInv, Exists, history, db, Read
<1>21. ASSUME NEW t \in Threads, Update(t) PROVE TypeOK' /\ ExpiryInv'
  <2> DEFINE saved == IF thread[t].value = 0 THEN row ELSE thread[t].value
             r == [thread[t] EXCEPT !.pc = "fill", !.value = saved]
  <2>1. thread[t] \in Thread /\ saved \in Int
    BY DEF TypeOK, Thread
  <2>2. r \in Thread /\ r.pc = "fill"
    BY <2>1 DEF Thread
  <2>3. row' = saved /\ slipped' = (slipped \/ saved # row) /\ SetThread(t, r)
    BY <1>21 DEF Update
  <2> HIDE DEF r, saved
  <2> QED
    BY <1>21, <2>1, <2>2, <2>3, ThreadTyped DEF Update, TypeOK, ExpiryInv, Exists
<1>21a. ASSUME NEW t \in Threads, NEW amount \in Amounts \cup {0}, Save(t, amount)
        PROVE  TypeOK' /\ ExpiryInv'
  <2>1. thread[t].value \in Int /\ amount \in Int
    BY ThreadFields
  <2>2. row' \in Int /\ truth' \in Int /\ slipped' \in BOOLEAN /\ raced' \in BOOLEAN
    BY <1>21a, <2>1 DEF Save, TypeOK
  <2>3. /\ thread' \in [Threads -> Thread]
        /\ \A s \in Threads : thread'[s].pc = "exec" => thread'[s].ttl > 0
    BY <1>21a, <1>r, SaveThreads DEF ExpiryInv
  <2> QED
    BY <1>21a, <2>2, <2>3 DEF Save, TypeOK, ExpiryInv, Exists
<1>22. CASE UNCHANGED vars
  BY <1>22 DEF vars, TypeOK, ExpiryInv, Exists
<1> QED
  BY <1>1, <1>2, <1>3, <1>4, <1>5, <1>6, <1>7, <1>8, <1>8a, <1>9, <1>10, <1>11,
     <1>12, <1>13, <1>14, <1>15, <1>16, <1>17, <1>18, <1>19, <1>20, <1>21, <1>21a, <1>22
     DEF Next, CallStep, CacheStep, ThreadStep, Flush
-----------------------------------------------------------------------------
(* The sums over the calls *)

\* The points at which a thread holds a value it has read.
Holding == {"fill", "ttl", "exec", "save", "saveAll"}

\* No change is under way.
Quiet == store = 0 /\ flushing = 0 /\ \A c \in Calls : call[c] = NoCall

\* A value no change has gone past is the true balance.
CleanInv ==
    \A t \in Threads :
        thread[t].pc \in Holding /\ ~thread[t].dirty =>
            Quiet /\ (~slipped => thread[t].value = truth)

\* What all calls have still to bring to the row or the store, and to the hash.
ToWrite == SumFunction(Unwritten)
ToApply == SumFunction(Unapplied)

\* What the calls have still to bring are integers.
LEMMA SumsTyped ==
  ASSUME TypeOK
  PROVE  /\ Unwritten \in [Calls -> Int] /\ Unapplied \in [Calls -> Int]
  BY CallFields DEF Unwritten, Unapplied

\* Their sums are integers.
LEMMA SumsAreNumbers ==
  ASSUME TypeOK
  PROVE  ToWrite \in Int /\ ToApply \in Int
<1> HIDE DEF Unwritten, Unapplied
<1>1. SumFunction(Unwritten) \in Int /\ SumFunction(Unapplied) \in Int
  BY SumsTyped, SumIsInt, CallsAssumption
<1> QED
  BY <1>1 DEF ToWrite, ToApply

\* With no call in progress nothing is left to bring.
LEMMA SumsOfQuiet ==
  ASSUME TypeOK, \A c \in Calls : call[c] = NoCall
  PROVE  ToWrite = 0 /\ ToApply = 0
<1>1. \A c \in Calls : Unwritten[c] = 0 /\ Unapplied[c] = 0
  BY DEF Unwritten, Unapplied, NoCall
<1> QED
  BY <1>1, SumsTyped, SumZero, CallsAssumption DEF ToWrite, ToApply

\* A step of one call changes the sums by what that call brings.
LEMMA SumsChange ==
  ASSUME TypeOK, TypeOK', NEW c \in Calls,
         \A d \in Calls : d # c => call'[d] = call[d]
  PROVE  /\ ToWrite \in Int /\ ToApply \in Int
         /\ ToWrite' = ToWrite - Unwritten[c] + Unwritten'[c]
         /\ ToApply' = ToApply - Unapplied[c] + Unapplied'[c]
<1>1. /\ Unwritten \in [Calls -> Int] /\ Unapplied \in [Calls -> Int]
      /\ Unwritten' \in [Calls -> Int] /\ Unapplied' \in [Calls -> Int]
  <2>1. \A d \in Calls : /\ call'[d].delta \in Int
                          /\ call[d].delta \in Int
    BY DEF TypeOK, Call
  <2> QED
    BY <2>1 DEF Unwritten, Unapplied
<1>2. \A d \in Calls \ {c} : Unwritten'[d] = Unwritten[d] /\ Unapplied'[d] = Unapplied[d]
  BY DEF Unwritten, Unapplied
<1> HIDE DEF Unwritten, Unapplied
<1>3. /\ SumFunction(Unwritten) \in Int
      /\ SumFunction(Unwritten') = SumFunction(Unwritten) - Unwritten[c] + Unwritten'[c]
  BY <1>1, <1>2, SumUpdate, CallsAssumption
<1>4. /\ SumFunction(Unapplied) \in Int
      /\ SumFunction(Unapplied') = SumFunction(Unapplied) - Unapplied[c] + Unapplied'[c]
  BY <1>1, <1>2, SumUpdate, CallsAssumption
<1> QED
  BY <1>3, <1>4 DEF ToWrite, ToApply

\* The sums when the half of a call that writes the row is done.
LEMMA SetTodoSums ==
  ASSUME TypeOK, TypeOK', NEW c \in Calls, call[c].todo # "none", SetTodo(c, "none")
  PROVE  /\ ToWrite \in Int /\ ToApply \in Int
         /\ ToWrite' = ToWrite - call[c].delta
         /\ ToApply' = ToApply
<1> DEFINE r == Ended([call[c] EXCEPT !.todo = "none"])
<1>1. call[c] \in Call /\ r \in Call
  BY CallRecords
<1>2. call' = [call EXCEPT ![c] = r]
  BY DEF SetTodo, TypeOK
<1>3. /\ r.todo = "none" /\ r.incr = call[c].incr
      /\ r.incr # "none" => r.delta = call[c].delta
  BY <1>1 DEF Ended, NoCall, Call
<1> HIDE DEF r
<1>4. call'[c] = r /\ \A d \in Calls : d # c => call'[d] = call[d]
  BY <1>1, <1>2, CallTyped
<1>5. /\ Unwritten[c] = call[c].delta /\ Unwritten'[c] = 0
      /\ Unapplied'[c] = Unapplied[c]
  BY <1>3, <1>4 DEF Unwritten, Unapplied
<1>6. Unwritten[c] \in Int /\ Unapplied[c] \in Int
  BY SumsTyped
<1>7. /\ ToWrite \in Int /\ ToApply \in Int
      /\ ToWrite' = ToWrite - Unwritten[c] + Unwritten'[c]
      /\ ToApply' = ToApply - Unapplied[c] + Unapplied'[c]
  BY <1>4, SumsChange
<1> HIDE DEF ToWrite, ToApply, Unwritten, Unapplied
<1> QED
  BY <1>5, <1>6, <1>7

\* The sums when the half of a call that increments the hash goes on or ends.
LEMMA SetIncrSums ==
  ASSUME TypeOK, TypeOK', NEW c \in Calls, call[c].incr # "none",
         NEW incr \in {"none", "exec"}, NEW ttl \in Int, SetIncr(c, incr, ttl)
  PROVE  /\ ToWrite \in Int /\ ToApply \in Int
         /\ ToWrite' = ToWrite
         /\ ToApply' = IF incr = "none" THEN ToApply - call[c].delta ELSE ToApply
<1> DEFINE r == Ended([call[c] EXCEPT !.incr = incr, !.ttl = ttl])
<1>1. call[c] \in Call /\ r \in Call
  BY CallRecords
<1>2. call' = [call EXCEPT ![c] = r]
  BY DEF SetIncr, TypeOK
<1>3. /\ r.incr = incr /\ r.todo = call[c].todo
      /\ incr # "none" => r.delta = call[c].delta
      /\ r.todo # "none" => r.delta = call[c].delta
  BY <1>1 DEF Ended, NoCall, Call
<1> HIDE DEF r
<1>4. call'[c] = r /\ \A d \in Calls : d # c => call'[d] = call[d]
  BY <1>1, <1>2, CallTyped
<1>5. /\ Unapplied[c] = call[c].delta
      /\ Unapplied'[c] = IF incr = "none" THEN 0 ELSE call[c].delta
      /\ Unwritten'[c] = Unwritten[c]
  BY <1>3, <1>4 DEF Unwritten, Unapplied
<1>6. Unwritten[c] \in Int /\ Unapplied[c] \in Int
  BY SumsTyped
<1>7. /\ ToWrite \in Int /\ ToApply \in Int
      /\ ToWrite' = ToWrite - Unwritten[c] + Unwritten'[c]
      /\ ToApply' = ToApply - Unapplied[c] + Unapplied'[c]
  BY <1>4, SumsChange
<1> HIDE DEF ToWrite, ToApply, Unwritten, Unapplied
<1> QED
  BY <1>5, <1>6, <1>7

\* A step of a call finds no thread with a clean value.
LEMMA CallLeavesClean ==
  ASSUME CleanInv, ~Quiet, thread' = thread
  PROVE  CleanInv'
  BY DEF CleanInv

\* A thread that reads the row while nothing is under way reads the truth.
LEMMA ReadIsClean ==
  ASSUME TypeOK, Conserved, NEW pc \in {"fill", "ttl", "save", "saveAll"},
         ~Read(pc).dirty
  PROVE  Quiet /\ (~slipped => Read(pc).value = truth)
<1>1. Quiet /\ Read(pc).value = row
  BY DEF Read, Unsettled, Quiet
<1>2. ToWrite = 0
  BY <1>1, SumsOfQuiet DEF Quiet
<1>3. ~slipped => row + store + flushing + ToWrite = truth
  BY DEF Conserved, ToWrite
<1> HIDE DEF ToWrite
<1> QED
  BY <1>1, <1>2, <1>3 DEF Quiet, TypeOK

\* One thread is set, and nothing else that CleanInv is about.
LEMMA ThreadKeepsClean ==
  ASSUME TypeOK, CleanInv, NEW t \in Threads, NEW r \in Thread, SetThread(t, r),
         UNCHANGED <<store, flushing, call, truth>>, slipped => slipped',
         (r.pc \in Holding /\ ~r.dirty) => Quiet /\ (~slipped' => r.value = truth)
  PROVE  CleanInv'
<1>1. /\ thread'[t] = r /\ \A s \in Threads : s # t => thread'[s] = thread[s]
  BY ThreadTyped
<1>2. Quiet' <=> Quiet
  BY DEF Quiet
<1> HIDE DEF Holding, Quiet
<1> QED
  BY <1>1, <1>2 DEF CleanInv

\* The two statements and what makes them inductive.
Balance == Conserved /\ CacheAgrees /\ CleanInv

\* No step loses a change, and none shows a hash that disagrees.
LEMMA BalanceStep ==
  ASSUME TypeOK, ExpiryInv, TypeOK', Balance, [Next]_vars
  PROVE  Balance'
<1>c. ~slipped => row + store + flushing + ToWrite = truth
  BY DEF Balance, Conserved, ToWrite
<1>a. (hash.ttl # 0 /\ hash.whole /\ ~raced /\ ~slipped) => hash.quota + ToApply = truth
  BY DEF Balance, CacheAgrees, ToApply, Exists
<1>i. CleanInv
  BY DEF Balance
<1> DEFINE Goal ==
        /\ ~slipped' => row' + store' + flushing' + ToWrite' = truth'
        /\ (hash'.ttl # 0 /\ hash'.whole /\ ~raced' /\ ~slipped')
              => hash'.quota + ToApply' = truth'
        /\ CleanInv'
<1>x. SUFFICES Goal
  BY DEF Balance, Conserved, CacheAgrees, Exists, ToWrite, ToApply
<1>n. ToWrite \in Int /\ ToApply \in Int
  BY SumsAreNumbers
<1>s. UNCHANGED call => ToWrite' = ToWrite /\ ToApply' = ToApply
  BY DEF ToWrite, ToApply, Unwritten, Unapplied
<1>v. /\ row \in Int /\ store \in Int /\ flushing \in Int /\ truth \in Int
      /\ slipped \in BOOLEAN /\ raced \in BOOLEAN
      /\ hash \in Hash /\ hash.quota \in Int /\ hash.whole \in BOOLEAN
      /\ hash.ttl \in Int /\ hash.ttl >= -1
      /\ hash.ttl = 0 => ~hash.whole
  BY DEF TypeOK, Hash, Exists, NoHash
<1>o. \A d \in Calls : /\ call[d].delta \in Int
                       /\ (call[d].todo # "none" \/ call[d].incr # "none") => ~Quiet
  BY CallFields DEF Quiet, NoCall
<1> HIDE DEF ToWrite, ToApply
<1> USE AmountsAssumption
<1>1. ASSUME NEW c \in Calls, NEW sign \in {1, -1}, NEW amount \in Amounts,
             NEW direct \in BOOLEAN, ChangeUserQuota(c, sign, amount, direct)
      PROVE  Goal
  <2> DEFINE delta == sign * amount
             r == [delta |-> delta, incr |-> "ttl", ttl |-> 0,
                   todo |-> IF ~direct /\ BatchUpdateEnabled THEN "record"
                            ELSE "write"]
  <2>1. delta \in Int
    BY AmountsAssumption
  <2>2. r \in Call /\ r.delta = delta /\ r.incr # "none" /\ r.todo # "none"
    BY <2>1 DEF Call
  <2>3. /\ call' = [call EXCEPT ![c] = r] /\ thread' = Outdated
        /\ truth' = truth + delta /\ call[c] = NoCall
        /\ UNCHANGED <<row, store, flushing, hash, slipped, raced>>
    BY <1>1 DEF ChangeUserQuota, db
  <2> HIDE DEF r, delta
  <2>4. call'[c] = r /\ \A d \in Calls : d # c => call'[d] = call[d]
    BY <2>2, <2>3, CallTyped
  <2>5. /\ Unwritten[c] = 0 /\ Unwritten'[c] = delta
        /\ Unapplied[c] = 0 /\ Unapplied'[c] = delta
    BY <2>2, <2>3, <2>4 DEF Unwritten, Unapplied, NoCall
  <2>6. /\ ToWrite' = ToWrite - Unwritten[c] + Unwritten'[c]
        /\ ToApply' = ToApply - Unapplied[c] + Unapplied'[c]
    BY <2>4, SumsChange
  <2>7. ToWrite' = ToWrite + delta /\ ToApply' = ToApply + delta
    BY <1>n, <2>1, <2>5, <2>6
  <2>8. CleanInv'
    BY <2>3, OutdatedFacts DEF CleanInv, Holding
  <2>9. ~slipped' => row' + store' + flushing' + ToWrite' = truth'
    BY <1>c, <1>n, <1>v, <2>1, <2>3, <2>7
  <2> QED
    BY <1>a, <1>n, <1>v, <2>1, <2>3, <2>7, <2>8, <2>9
<1>2. ASSUME NEW c \in Calls, addNewRecord(c) \/ WriteRow(c) \/ WriteRowFails(c)
      PROVE  Goal
  <2>1. /\ call[c].todo # "none" /\ SetTodo(c, "none")
        /\ UNCHANGED <<hash, thread, truth, raced>>
        /\ slipped => slipped'
    BY <1>2 DEF addNewRecord, WriteRow, WriteRowFails, history
  <2>2. ToWrite' = ToWrite - call[c].delta /\ ToApply' = ToApply
    BY <2>1, SetTodoSums
  <2>3. CleanInv'
    BY <1>i, <1>o, <2>1, CallLeavesClean
  <2>4. ~slipped' => row' + store' + flushing' + ToWrite' = truth'
    <3>1. CASE addNewRecord(c)
      BY <1>c, <1>n, <1>o, <1>v, <2>2, <3>1 DEF addNewRecord, history
    <3>2. CASE WriteRow(c)
      BY <1>c, <1>n, <1>o, <1>v, <2>2, <3>2 DEF WriteRow, history
    <3>3. CASE WriteRowFails(c)
      BY <3>3 DEF WriteRowFails
    <3> QED
      BY <1>2, <3>1, <3>2, <3>3
  <2> QED
    BY <1>a, <2>1, <2>2, <2>3, <2>4
<1>3. ASSUME NEW c \in Calls, CacheTTL(c)
      PROVE  Goal
  <2>1. /\ call[c].incr # "none"
        /\ UNCHANGED <<row, store, flushing, hash, thread, truth, slipped>>
    BY <1>3 DEF CacheTTL, db
  <2>a. PICK ttl \in TTL : /\ SetIncr(c, IF ttl > 0 THEN "exec" ELSE "none", ttl)
                           /\ raced' = (raced \/ (hash.ttl # 0 /\ ~(ttl > 0)))
    BY <1>3 DEF CacheTTL, Exists
  <2>b. ttl \in Int
    BY TTLFacts
  <2>2. CleanInv'
    BY <1>i, <1>o, <2>1, CallLeavesClean
  <2>3. CASE ttl > 0
    <3>1. ToWrite' = ToWrite /\ ToApply' = ToApply
      BY <2>1, <2>3, <2>a, <2>b, SetIncrSums
    <3> QED
      BY <1>a, <1>c, <2>1, <2>2, <2>3, <2>a, <3>1
  <2>4. CASE ~(ttl > 0)
    <3>1. ToWrite' = ToWrite
      BY <2>1, <2>4, <2>a, <2>b, SetIncrSums
    <3>2. hash.ttl # 0 => raced'
      BY <2>4, <2>a
    <3> QED
      BY <1>c, <2>1, <2>2, <3>1, <3>2
  <2> QED
    BY <2>3, <2>4
<1>4. ASSUME NEW c \in Calls, CacheIncr(c)
      PROVE  Goal
  <2>1. /\ call[c].incr # "none" /\ SetIncr(c, "none", 0)
        /\ UNCHANGED <<row, store, flushing, thread, truth, slipped, raced>>
        /\ hash' = RedisHIncrBy(call[c].delta, call[c].ttl)
    BY <1>4 DEF CacheIncr, db, history
  <2>2. CleanInv'
    BY <1>i, <1>o, <2>1, CallLeavesClean
  <2>3. ToWrite' = ToWrite /\ ToApply' = ToApply - call[c].delta
    BY <2>1, SetIncrSums
  <2>4. hash'.quota = hash.quota + call[c].delta /\ hash'.whole = hash.whole
    BY <2>1, CallFields, HashWrites
  <2>5. hash'.whole => hash.ttl # 0
    BY <1>v, <2>4
  <2>6. (hash'.ttl # 0 /\ hash'.whole /\ ~raced' /\ ~slipped')
           => hash'.quota + ToApply' = truth'
    BY <1>a, <1>n, <1>o, <1>v, <2>1, <2>3, <2>4, <2>5
  <2> QED
    BY <1>c, <2>1, <2>2, <2>3, <2>6
<1>5. ASSUME NEW c \in Calls, CacheIncrFails(c)
      PROVE  Goal
  <2>1. /\ call[c].incr # "none" /\ SetIncr(c, "none", 0) /\ raced'
        /\ UNCHANGED <<row, store, flushing, thread, truth, slipped>>
    BY <1>5 DEF CacheIncrFails, db
  <2>2. CleanInv'
    BY <1>i, <1>o, <2>1, CallLeavesClean
  <2>3. ToWrite' = ToWrite
    BY <2>1, SetIncrSums
  <2> QED
    BY <1>c, <2>1, <2>2, <2>3
<1>6. ASSUME NEW amount \in Amounts, Recharge(amount)
      PROVE  Goal
  <2>1. /\ row' = row + amount /\ truth' = truth + amount /\ raced'
        /\ thread' = Outdated /\ UNCHANGED <<store, flushing, call, slipped>>
    BY <1>6 DEF Recharge
  <2>2. CleanInv'
    BY <2>1, OutdatedFacts DEF CleanInv, Holding
  <2>3. amount \in Int
    BY AmountsAssumption
  <2>4. ~slipped' => row' + store' + flushing' + ToWrite' = truth'
    BY <1>c, <1>n, <1>s, <1>v, <2>1, <2>3
  <2> QED
    BY <2>1, <2>2, <2>4
<1>6a. ASSUME NEW value \in Amounts, OverrideQuota(value)
       PROVE  Goal
  <2>1. /\ row' = value /\ truth' = truth + (value - row) /\ raced'
        /\ thread' = Outdated /\ UNCHANGED <<store, flushing, call, slipped>>
    BY <1>6a DEF OverrideQuota
  <2>2. CleanInv'
    BY <2>1, OutdatedFacts DEF CleanInv, Holding
  <2>3. value \in Int
    BY AmountsAssumption
  <2>4. ~slipped' => row' + store' + flushing' + ToWrite' = truth'
    BY <1>c, <1>n, <1>s, <1>v, <2>1, <2>3
  <2> QED
    BY <2>1, <2>2, <2>4
<1>7. CASE batchUpdate \/ FlushRow \/ FlushRowFails
  <2>1. /\ (store # 0 \/ flushing # 0)
        /\ UNCHANGED <<hash, call, thread, truth, raced>>
        /\ slipped => slipped'
    BY <1>7 DEF batchUpdate, FlushRow, FlushRowFails, history
  <2>2. CleanInv'
    BY <1>i, <2>1, CallLeavesClean DEF Quiet
  <2>3. ~slipped' => row' + store' + flushing' + ToWrite' = truth'
    <3>1. CASE batchUpdate
      BY <1>c, <1>n, <1>s, <1>v, <2>1, <3>1 DEF batchUpdate, history
    <3>2. CASE FlushRow
      BY <1>c, <1>n, <1>s, <1>v, <2>1, <3>2 DEF FlushRow, history
    <3>3. CASE FlushRowFails
      BY <3>3 DEF FlushRowFails
    <3> QED
      BY <1>7, <3>1, <3>2, <3>3
  <2> QED
    BY <1>a, <1>s, <2>1, <2>2, <2>3
<1>8. CASE Tick \/ InvalidateUserCache
  <2>1. UNCHANGED <<row, store, flushing, call, thread, truth, slipped, raced>>
    BY <1>8 DEF Tick, InvalidateUserCache, db, history
  <2>2. CleanInv'
    BY <1>i, <2>1 DEF CleanInv, Quiet
  <2>3. hash'.whole => hash'.quota = hash.quota /\ hash.whole /\ hash.ttl # 0
    <3>1. CASE hash' = NoHash
      BY <3>1 DEF NoHash
    <3>2. CASE hash' # NoHash
      <4>1. hash' = [hash EXCEPT !.ttl = hash.ttl - 1] /\ hash.ttl > 0
        BY <1>8, <3>2 DEF Tick, InvalidateUserCache
      <4>2. hash'.quota = hash.quota /\ hash'.whole = hash.whole
        BY <1>v, <4>1 DEF Hash
      <4> QED
        BY <1>v, <4>1, <4>2
    <3> QED
      BY <3>1, <3>2
  <2> QED
    BY <1>a, <1>c, <1>s, <2>1, <2>2, <2>3
<1>9. CASE Crash
  <2>1. slipped' /\ raced' /\ thread' = [t \in Threads |-> NoThread]
    BY <1>9 DEF Crash
  <2>2. CleanInv'
    BY <2>1 DEF CleanInv, NoThread, Holding
  <2> QED
    BY <2>1, <2>2
<1>r. NoThread \in Thread /\ \A pc \in {"fill", "ttl", "save", "saveAll"} : Read(pc) \in Thread
  BY DEF TypeOK, Thread, NoThread, Read, Unsettled
<1>q. \A pc \in {"read", "again"} : /\ [NoThread EXCEPT !.pc = pc] \in Thread
                                    /\ [NoThread EXCEPT !.pc = pc].pc \notin Holding
  BY <1>r DEF Thread, Holding
<1>10. ASSUME NEW t \in Threads,
              CacheMiss(t) \/ GetUserById(t) \/ GetUserByIdFails(t)
                \/ SelectQuota(t) \/ QuotaTTL(t) \/ ReadUser(t)
       PROVE  Goal
  <2>1. UNCHANGED <<row, store, flushing, hash, call, truth, slipped, raced>>
    BY <1>10 DEF CacheMiss, GetUserById, GetUserByIdFails, SelectQuota, QuotaTTL,
                 ReadUser, db, history
  <2>2. CleanInv'
    <3>1. CASE CacheMiss(t) \/ GetUserByIdFails(t)
      <4>1. PICK pc \in {"read", "again"} : SetThread(t, [NoThread EXCEPT !.pc = pc])
        BY <3>1 DEF CacheMiss, GetUserByIdFails
      <4> QED
        BY <1>i, <1>q, <2>1, <4>1, ThreadKeepsClean
    <3>2. CASE GetUserById(t) \/ SelectQuota(t) \/ ReadUser(t)
      <4>1. PICK pc \in {"fill", "ttl", "save", "saveAll"} : SetThread(t, Read(pc))
        BY <3>2 DEF GetUserById, SelectQuota, ReadUser
      <4>2. ~Read(pc).dirty => Quiet /\ (~slipped => Read(pc).value = truth)
        BY ReadIsClean DEF Balance
      <4> HIDE DEF Read
      <4> QED
        BY <1>i, <1>r, <2>1, <4>1, <4>2, ThreadKeepsClean
    <3>3. CASE QuotaTTL(t)
      <4>a. PICK ttl \in TTL :
                SetThread(t, IF ttl > 0 THEN [thread[t] EXCEPT !.pc = "exec", !.ttl = ttl]
                             ELSE NoThread)
        BY <3>3 DEF QuotaTTL
      <4>b. ttl \in Int
        BY TTLFacts
      <4>1. CASE ttl > 0
        <5> DEFINE r == [thread[t] EXCEPT !.pc = "exec", !.ttl = ttl]
        <5>1. /\ r \in Thread /\ r.value = thread[t].value
              /\ r.dirty = thread[t].dirty /\ SetThread(t, r)
          BY <4>1, <4>a, <4>b, ThreadFields DEF Thread
        <5>2. thread[t].pc \in Holding
          BY <3>3 DEF QuotaTTL, Holding
        <5> HIDE DEF r
        <5>3. ~r.dirty => Quiet /\ (~slipped' => r.value = truth)
          BY <1>i, <2>1, <5>1, <5>2 DEF CleanInv
        <5> QED
          BY <1>i, <2>1, <5>1, <5>3, ThreadKeepsClean
      <4>2. CASE ~(ttl > 0)
        <5>1. SetThread(t, NoThread) /\ NoThread.pc \notin Holding
          BY <4>2, <4>a DEF NoThread, Holding
        <5> QED
          BY <1>i, <1>r, <2>1, <5>1, ThreadKeepsClean
      <4> QED
        BY <4>1, <4>2
    <3> QED
      BY <1>10, <3>1, <3>2, <3>3
  <2> QED
    BY <1>a, <1>c, <1>s, <2>1, <2>2
<1>11. ASSUME NEW t \in Threads, updateUserCache(t) \/ QuotaSet(t)
       PROVE  Goal
  <2>1. /\ thread[t].pc \in Holding /\ raced' = thread[t].dirty
        /\ SetThread(t, NoThread) /\ NoThread.pc \notin Holding
        /\ UNCHANGED <<row, store, flushing, call, truth, slipped>>
    BY <1>11 DEF updateUserCache, QuotaSet, Holding, NoThread, db
  <2>2. CleanInv'
    BY <1>i, <1>r, <2>1, ThreadKeepsClean
  <2>3. hash'.quota = thread[t].value
    <3>1. CASE updateUserCache(t)
      BY <3>1 DEF updateUserCache, RedisHSetObj
    <3>2. CASE QuotaSet(t)
      <4>1. hash' = RedisHSetField(thread[t].value, thread[t].ttl)
        BY <3>2 DEF QuotaSet
      <4> QED
        BY <4>1, ThreadFields, HashWrites
    <3> QED
      BY <1>11, <3>1, <3>2
  <2>4. ~raced' /\ ~slipped' => thread[t].value = truth /\ Quiet
    BY <1>i, <2>1 DEF CleanInv
  <2>5. Quiet => ToApply = 0
    BY SumsOfQuiet DEF Quiet
  <2>6. ~raced' /\ ~slipped' => hash'.quota + ToApply' = truth'
    BY <1>s, <1>v, <2>1, <2>3, <2>4, <2>5
  <2> QED
    BY <1>c, <1>s, <2>1, <2>2, <2>6
<1>12. ASSUME NEW t \in Threads, Update(t)
       PROVE  Goal
  <2> DEFINE saved == IF thread[t].value = 0 THEN row ELSE thread[t].value
             r == [thread[t] EXCEPT !.pc = "fill", !.value = saved]
  <2>1. thread[t] \in Thread /\ saved \in Int
    BY DEF TypeOK, Thread
  <2>2. r \in Thread /\ r.value = saved /\ r.dirty = thread[t].dirty
    BY <2>1 DEF Thread
  <2>3. /\ row' = saved /\ slipped' = (slipped \/ saved # row) /\ SetThread(t, r)
        /\ thread[t].pc \in Holding
        /\ UNCHANGED <<store, flushing, hash, call, truth, raced>>
    BY <1>12 DEF Update, Holding
  <2> HIDE DEF r, saved
  <2>4. ~slipped' => ~slipped /\ saved = row
    BY <2>3
  <2>5. ~r.dirty => Quiet
    BY <1>i, <2>2, <2>3 DEF CleanInv
  <2>6. Quiet /\ ~slipped' => saved = truth
    <3>1. Quiet => ToWrite = 0 /\ store = 0 /\ flushing = 0
      BY SumsOfQuiet DEF Quiet
    <3> QED
      BY <1>c, <1>v, <2>4, <3>1
  <2>7. CleanInv'
    BY <1>i, <2>2, <2>3, <2>5, <2>6, ThreadKeepsClean
  <2> QED
    BY <1>a, <1>c, <1>s, <2>3, <2>4, <2>7
<1>12a. ASSUME NEW t \in Threads, NEW amount \in Amounts \cup {0}, Save(t, amount)
        PROVE  Goal
  <2>1. thread[t].value \in Int /\ amount \in Int
    BY ThreadFields, AmountsAssumption
  <2>2. /\ row' = thread[t].value + amount /\ truth' = truth + amount
        /\ slipped' = (slipped \/ thread[t].value # row)
        /\ raced' = (raced \/ amount # 0)
        /\ UNCHANGED <<store, flushing, hash, call>>
    BY <1>12a DEF Save
  <2>3. CleanInv'
    <3>1. ASSUME NEW s \in Threads, thread'[s].pc \in Holding
          PROVE  thread'[s].dirty
      <4>1. NoThread.pc \notin Holding /\ "idle" \notin Holding
        BY DEF NoThread, Holding
      <4>2. thread'[t] = NoThread
        BY <1>12a, SaveThreads
      <4> HIDE DEF Holding, NoThread
      <4>3. s # t
        BY <3>1, <4>1, <4>2
      <4>4. thread'[s] = [thread[s] EXCEPT !.dirty = @ \/ thread[s].pc # "idle"]
        BY <1>12a, <4>3, SaveThreads
      <4>5. thread[s] \in Thread
        BY ThreadFields
      <4>6. thread'[s].pc = thread[s].pc
        BY <4>4, <4>5 DEF Thread
      <4>7. thread[s].pc # "idle"
        BY <3>1, <4>1, <4>6
      <4> QED
        BY <4>4, <4>5, <4>7 DEF Thread
    <3> QED
      BY <3>1 DEF CleanInv
  <2>4. ~slipped' => row' + store' + flushing' + ToWrite' = truth'
    <3>1. ~slipped' => ~slipped /\ thread[t].value = row
      BY <2>2
    <3>2. ToWrite' = ToWrite
      BY <1>s, <2>2
    <3>3. CASE ~slipped'
      BY <1>c, <1>n, <1>v, <2>1, <2>2, <3>1, <3>2, <3>3
    <3> QED
      BY <3>3
  <2>5. ~raced' => ~raced /\ truth' = truth
    <3>1. ~raced' => ~raced /\ amount = 0
      BY <2>2
    <3> QED
      BY <1>v, <2>2, <3>1
  <2>6. ~slipped' => ~slipped
    BY <2>2
  <2> QED
    BY <1>a, <1>s, <2>2, <2>3, <2>4, <2>5, <2>6
<1>13. CASE UNCHANGED vars
  <2>1. UNCHANGED <<row, store, flushing, hash, call, thread, truth, slipped, raced>>
    BY <1>13 DEF vars
  <2>2. CleanInv'
    BY <1>i, <2>1 DEF CleanInv, Quiet
  <2> QED
    BY <1>a, <1>c, <1>s, <2>1, <2>2
<1> QED
  BY <1>1, <1>2, <1>3, <1>4, <1>5, <1>6, <1>6a, <1>7, <1>8, <1>9, <1>10, <1>11, <1>12,
     <1>12a, <1>13
     DEF Next, CallStep, CacheStep, ThreadStep, Flush

\* The inductive invariant.
QuotaInv == TypeOK /\ ExpiryInv /\ Balance

\* The inductive invariant holds of every behaviour.
LEMMA QuotaInductive == Spec => []QuotaInv
<1>1. Init => QuotaInv
  <2> SUFFICES ASSUME Init PROVE QuotaInv
    OBVIOUS
  <2>1. TypeOK /\ ExpiryInv
    <3>1. NoHash \in Hash /\ NoCall \in Call /\ NoThread \in Thread
      BY DEF Hash, NoHash, Call, NoCall, Thread, NoThread
    <3>2. /\ call \in [Calls -> Call] /\ thread \in [Threads -> Thread]
          /\ \A c \in Calls : call[c].incr = "none"
          /\ \A t \in Threads : thread[t].pc = "idle"
      BY <3>1 DEF Init, NoCall, NoThread
    <3>3. hash \in Hash /\ hash.ttl >= -1 /\ (~Exists => hash = NoHash)
      BY <3>1 DEF Init, NoHash
    <3>4. /\ ops \in 0 .. MaxOps /\ faults \in 0 .. MaxFaults
          /\ row \in Int /\ store \in Int /\ flushing \in Int /\ truth \in Int
      BY StartAssumption, BoundsAssumption DEF Init
    <3> QED
      BY <3>2, <3>3, <3>4 DEF Init, TypeOK, ExpiryInv
  <2>2. ToWrite = 0
    BY <2>1, SumsOfQuiet DEF Init
  <2>3. Conserved
    BY <2>2, StartAssumption DEF Init, Conserved, ToWrite
  <2>4. CacheAgrees /\ CleanInv
    BY DEF Init, CacheAgrees, CleanInv, Exists, NoHash, NoThread, Holding
  <2> QED
    BY <2>1, <2>3, <2>4 DEF QuotaInv, Balance
<1>2. QuotaInv /\ [Next]_vars => QuotaInv'
  BY TypeStep, BalanceStep DEF QuotaInv
<1> QED
  BY <1>1, <1>2, PTL DEF Spec

-----------------------------------------------------------------------------
\* The row, the store, the hash, the calls and the threads keep their types in
\* every interleaving of model/user.go, model/utils.go and the cache.
THEOREM QuotaTypeCorrect == Spec => []TypeOK
<1>1. QuotaInv => TypeOK
  BY DEF QuotaInv
<1> QED
  BY <1>1, QuotaInductive, PTL

\* IncreaseUserQuota, DecreaseUserQuota, the batch updater and the credits that
\* bypass them lose and invent nothing, however many overlap: row, store,
\* flush and unwritten calls add up to the true balance until a fault or a
\* save of a whole user slips one.
THEOREM QuotaConserved == Spec => []Conserved
<1>1. QuotaInv => Conserved
  BY DEF QuotaInv, Balance
<1> QED
  BY <1>1, QuotaInductive, PTL

\* A whole hash and the increments under way show the true balance, for any
\* number of goroutines, until a change overlaps a fill, a command fails, a credit
\* or an override leaves the hash out, or a change finds the hash in the half
\* second in which RedisHIncrBy reads TTL 0 and skips it.
THEOREM QuotaCacheAgrees == Spec => []CacheAgrees
<1>1. QuotaInv => CacheAgrees
  BY DEF QuotaInv, Balance
<1> QED
  BY <1>1, QuotaInductive, PTL
===============================================================================
