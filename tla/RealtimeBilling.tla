-------------------------- MODULE RealtimeBilling --------------------------
(***************************************************************************)
(* Billing of a realtime (WebSocket) request: OpenaiRealtimeHandler        *)
(* charges every turn while the connection is open, and WssHelper settles  *)
(* the billing session when it has closed.  The request is one of module   *)
(* BillingSession whose upstream call is the connection.                   *)
(*                                                                         *)
(* Two goroutines bill: "reader", which reads the provider's messages, and *)
(* "main", which waits for the connection to close and then bills what is  *)
(* left.  A third, the client's reader, only counts tokens.  They share    *)
(* usage (reported by the provider), localUsage (counted here) and         *)
(* sumUsage without a lock, so an addition is a load and a store with the  *)
(* other goroutines in between.  A unit of usage costs one unit of quota,  *)
(* and a turn is charged the amount that was added up.                     *)
(***************************************************************************)
EXTENDS BillingSession

CONSTANTS
  Turns,      \* usage one response may report, and tokens one event may count
  MaxTurns    \* bound: responses and counted events per connection

ASSUME TurnsAssumption == Turns \subseteq Nat \ {0} /\ MaxTurns \in Nat

VARIABLES
  usage,      \* reported usage not yet billed
  localUsage, \* counted tokens not yet billed
  sumUsage,   \* usage that preConsumeUsage has added up
  reported,   \* history: usage the provider has reported
  counted,    \* history: tokens CountTokenRealtime has counted
  billed,     \* history: usage each goroutine has passed to preConsumeUsage
  turns,      \* responses and counted events so far
  worker      \* control point of each goroutine, the counter and the amount it
              \* is billing, and the total it has loaded

rtVars == <<usage, localUsage, sumUsage, reported, counted, billed, turns, worker>>
allVars == <<wallet, token, subUsed, subActive, opt, pc, sess, wCharge, sCharge, tCharge,
             usage, localUsage, sumUsage, reported, counted, billed, turns, worker>>

Goroutines == {"reader", "main"}
WorkerPoints == {"wait", "load", "store", "check", "funding", "token", "done", "stopped"}
Worker == [at: WorkerPoints, of: {"usage", "local"}, quota: Nat, sum: Nat]

RealtimeTypeOK ==
  /\ TypeOK
  /\ usage \in [Requests -> Nat]
  /\ localUsage \in [Requests -> Nat]
  /\ sumUsage \in [Requests -> Nat]
  /\ reported \in [Requests -> Nat]
  /\ counted \in [Requests -> Nat]
  /\ billed \in [Requests -> [Goroutines -> Nat]]
  /\ turns \in [Requests -> 0..MaxTurns]
  /\ worker \in [Requests -> [Goroutines -> Worker]]

RealtimeInit ==
  /\ Init
  /\ usage = [r \in Requests |-> 0]
  /\ localUsage = [r \in Requests |-> 0]
  /\ sumUsage = [r \in Requests |-> 0]
  /\ reported = [r \in Requests |-> 0]
  /\ counted = [r \in Requests |-> 0]
  /\ billed = [r \in Requests |-> [g \in Goroutines |-> 0]]
  /\ turns = [r \in Requests |-> 0]
  /\ worker = [r \in Requests |->
                 [g \in Goroutines |-> [at |-> "wait", of |-> "usage", quota |-> 0, sum |-> 0]]]

Move(r, g, w) == worker' = [worker EXCEPT ![r][g] = w]

\* Goroutine g goes on to another point of the same call.
GoOn(r, g, where, q) ==
  Move(r, g, [at |-> where, of |-> worker[r][g].of, quota |-> q, sum |-> 0])

\* Goroutine g calls preConsumeUsage with one of the two counters.
Call(r, g, counter) == Move(r, g, [at |-> "load", of |-> counter, quota |-> 0, sum |-> 0])

\* The connection is up while main waits; the readers live on until they notice.
Connected(r) == pc[r] = "open" /\ worker[r]["main"].at = "wait"

\* The reader is about to take the next message.
Reading(r) ==
  /\ pc[r] \in {"open", "settleToken", "settled", "unsettled"}
  /\ worker[r]["reader"].at = "wait" /\ turns[r] < MaxTurns

\* The counters a goroutine may pass to preConsumeUsage.
Counter(r, of) == IF of = "usage" THEN usage[r] ELSE localUsage[r]

\* What localUsage may hold after a goroutine has added t to it: two readers add
\* without a lock, so either may undo the other's addition or add to a counter
\* that has been replaced.
Added(r, t) == {localUsage[r]} \cup t..(localUsage[r] + t)

\* The client's reader counts an event, or the provider's reader one that is no
\* response.done.
CountEvent(r, t) ==
  /\ pc[r] \in {"open", "settleToken", "settled", "unsettled"} /\ turns[r] < MaxTurns
  /\ \E v \in Added(r, t) : localUsage' = [localUsage EXCEPT ![r] = v]
  /\ counted' = [counted EXCEPT ![r] = @ + t]
  /\ turns' = [turns EXCEPT ![r] = @ + 1]
  /\ UNCHANGED vars /\ UNCHANGED <<usage, sumUsage, reported, billed, worker>>

\* The reader receives response.done with its usage.
ResponseDone(r, u) ==
  /\ Reading(r)
  /\ usage' = [usage EXCEPT ![r] = @ + u]
  /\ reported' = [reported EXCEPT ![r] = @ + u]
  /\ turns' = [turns EXCEPT ![r] = @ + 1]
  /\ Call(r, "reader", "usage")
  /\ UNCHANGED vars /\ UNCHANGED <<localUsage, sumUsage, counted, billed>>

\* The reader receives response.done without usage and bills what was counted.
ResponseDoneNoUsage(r, t) ==
  /\ Reading(r)
  /\ \E v \in Added(r, t) : localUsage' = [localUsage EXCEPT ![r] = v]
  /\ counted' = [counted EXCEPT ![r] = @ + t]
  /\ turns' = [turns EXCEPT ![r] = @ + 1]
  /\ Call(r, "reader", "local")
  /\ UNCHANGED vars /\ UNCHANGED <<usage, sumUsage, reported, billed>>

\* preConsumeUsage adds the counter to the total: the total is loaded,
LoadSum(r, g) ==
  LET w == worker[r][g]
      q == Counter(r, w.of) IN
  /\ w.at = "load"
  /\ billed' = [billed EXCEPT ![r][g] = @ + q]
  /\ Move(r, g, [at |-> "store", of |-> w.of, quota |-> q, sum |-> sumUsage[r]])
  /\ UNCHANGED vars /\ UNCHANGED <<usage, localUsage, sumUsage, reported, counted, turns>>

\* and stored with the counter added, whatever was stored in between.
StoreSum(r, g) ==
  LET w == worker[r][g] IN
  /\ w.at = "store"
  /\ sumUsage' = [sumUsage EXCEPT ![r] = w.sum + w.quota]
  /\ GoOn(r, g, "check", w.quota)
  /\ UNCHANGED vars /\ UNCHANGED <<usage, localUsage, reported, counted, billed, turns>>

\* The checks of PreWssConsumeQuota: the wallet is looked at even when a
\* subscription pays.
PreWssConsumeQuota(r, g) ==
  LET q == worker[r][g].quota IN
  /\ worker[r][g].at = "check"
  /\ \/ /\ wallet >= q /\ (opt[r].unlimited \/ token >= q)
        /\ GoOn(r, g, "funding", q)
     \/ /\ wallet < q \/ (~opt[r].unlimited /\ token < q) \/ "read" \in Faults
        /\ GoOn(r, g, "stopped", 0)
  /\ UNCHANGED vars /\ UNCHANGED <<usage, localUsage, sumUsage, reported, counted, billed, turns>>

\* Mutant of PostConsumeFunding: the wallet pays, whatever the session uses.
PostConsumeWallet(r, g) ==
  /\ worker[r][g].at = "funding"
  /\ DecreaseUserQuota(r, worker[r][g].quota)
  /\ GoOn(r, g, "token", worker[r][g].quota)
  /\ NoToken /\ UNCHANGED <<subActive, opt, pc, sess>>
  /\ UNCHANGED <<usage, localUsage, sumUsage, reported, counted, billed, turns>>

\* PostConsumeQuota, first half: charge the source of the session directly.
PostConsumeFunding(r, g) ==
  LET q == worker[r][g].quota IN
  /\ worker[r][g].at = "funding"
  /\ \/ /\ \/ sess[r].funding = "wallet" /\ DecreaseUserQuota(r, q)
           \/ /\ sess[r].funding = "subscription" /\ WithinTotal(q)
              /\ PostConsumeUserSubscriptionDelta(r, q)
        /\ GoOn(r, g, "token", q)
     \/ /\ \/ sess[r].funding = "wallet" /\ "wallet" \in Faults
           \/ sess[r].funding = "subscription" /\ (~WithinTotal(q) \/ "sub" \in Faults)
        /\ NoFunding
        /\ GoOn(r, g, "stopped", 0)
  /\ NoToken /\ UNCHANGED <<subActive, opt, pc, sess>>
  /\ UNCHANGED <<usage, localUsage, sumUsage, reported, counted, billed, turns>>

\* PostConsumeQuota, second half: charge the token.
PostConsumeToken(r, g) ==
  /\ worker[r][g].at = "token"
  /\ \/ /\ IF opt[r].playground THEN NoToken ELSE DecreaseTokenQuota(r, worker[r][g].quota)
        /\ GoOn(r, g, "done", 0)
     \/ /\ ~opt[r].playground /\ "token" \in Faults
        /\ NoToken
        /\ GoOn(r, g, "stopped", 0)
  /\ NoFunding /\ UNCHANGED <<subActive, opt, pc, sess>>
  /\ UNCHANGED <<usage, localUsage, sumUsage, reported, counted, billed, turns>>

\* Mutant of ClearUsage: the total is taken off the usage.
SubtractUsage(r) ==
  /\ worker[r]["reader"].at = "done"
  /\ usage' = [usage EXCEPT ![r] = @ - sumUsage[r]]
  /\ localUsage' = [localUsage EXCEPT ![r] = 0]
  /\ GoOn(r, "reader", "wait", 0)
  /\ UNCHANGED vars /\ UNCHANGED <<sumUsage, reported, counted, billed, turns>>

\* Mutant of ClearUsage: the usage that was billed is kept, as preConsumeUsage
\* keeps it after its comment "clear usage".
KeepUsage(r) ==
  /\ worker[r]["reader"].at = "done"
  /\ localUsage' = [localUsage EXCEPT ![r] = 0]
  /\ GoOn(r, "reader", "wait", 0)
  /\ UNCHANGED vars /\ UNCHANGED <<usage, sumUsage, reported, counted, billed, turns>>

\* The reader clears the counter it has billed, and what was counted beside
\* reported usage, and reads on.
ClearUsage(r) ==
  /\ worker[r]["reader"].at = "done"
  /\ IF worker[r]["reader"].of = "usage"
     THEN usage' = [usage EXCEPT ![r] = 0]
     ELSE UNCHANGED usage
  /\ localUsage' = [localUsage EXCEPT ![r] = 0]
  /\ GoOn(r, "reader", "wait", 0)
  /\ UNCHANGED vars /\ UNCHANGED <<sumUsage, reported, counted, billed, turns>>

\* A side closed the connection, or a reader reported an error: main bills the
\* reported usage that is left, whatever the readers are doing.
Disconnect(r) ==
  /\ Connected(r)
  /\ IF usage[r] # 0 THEN Call(r, "main", "usage") ELSE GoOn(r, "main", "done", 0)
  /\ UNCHANGED vars
  /\ UNCHANGED <<usage, localUsage, sumUsage, reported, counted, billed, turns>>

\* Then, even if that failed, it bills the counted tokens that are left.
BillLocalUsage(r) ==
  LET w == worker[r]["main"] IN
  /\ w.at \in {"done", "stopped"} /\ w.of = "usage"
  /\ IF localUsage[r] # 0
     THEN Call(r, "main", "local")
     ELSE Move(r, "main", [at |-> "done", of |-> "local", quota |-> 0, sum |-> 0])
  /\ UNCHANGED vars
  /\ UNCHANGED <<usage, localUsage, sumUsage, reported, counted, billed, turns>>

\* The reader fails to read or to unmarshal the next message and returns.
ReaderStops(r) ==
  /\ worker[r]["reader"].at = "wait" /\ pc[r] # "idle"
  /\ worker[r]["main"].at # "wait"
  /\ GoOn(r, "reader", "stopped", 0)
  /\ UNCHANGED vars
  /\ UNCHANGED <<usage, localUsage, sumUsage, reported, counted, billed, turns>>

\* PostWssConsumeQuota: settle the session at the price of all the usage.
PostWssConsumeQuota(r) ==
  /\ worker[r]["main"].at \in {"done", "stopped"} /\ worker[r]["main"].of = "local"
  /\ Settle(r, sumUsage[r])
  /\ UNCHANGED rtVars

\* The connection could not be made: the session is refunded.
ConnectFailed(r) ==
  /\ worker[r]["main"].at = "wait" /\ turns[r] = 0
  /\ Refund(r)
  /\ UNCHANGED rtVars

\* The steps of the billing session around the connection.
SessionSteps(r) ==
  /\ \/ PreConsume(r) \/ SettleToken(r) \/ RefundWallet(r) \/ RefundSubscription(r)
     \/ MarkRefunded(r) \/ RefundToken(r)
  /\ UNCHANGED rtVars

\* The requests are over and their goroutines have returned.
RealtimeFinished ==
  /\ \A r \in Requests : /\ pc[r] \in Terminal
                         /\ pc[r] \in {"settled", "unsettled"} => worker[r]["reader"].at = "stopped"
  /\ UNCHANGED allVars

RealtimeNext ==
  \/ RealtimeFinished
  \/ \E r \in Requests :
    \/ SessionSteps(r) \/ ConnectFailed(r) \/ PostWssConsumeQuota(r)
    \/ \E u \in Turns : ResponseDone(r, u) \/ CountEvent(r, u)
    \/ \E t \in Turns \cup {0} : ResponseDoneNoUsage(r, t)
    \/ \E g \in Goroutines : \/ LoadSum(r, g) \/ StoreSum(r, g)
                             \/ PreWssConsumeQuota(r, g) \/ PostConsumeFunding(r, g)
                             \/ PostConsumeToken(r, g)
    \/ ClearUsage(r) \/ Disconnect(r) \/ BillLocalUsage(r) \/ ReaderStops(r)

RealtimeSpec == RealtimeInit /\ [][RealtimeNext]_allVars
-----------------------------------------------------------------------------
(* Properties                                                                 *)

\* preConsumeUsage clears nothing, so main bills again what the reader is billing
\* or has failed to bill, and the additions of the two may undo each other.
\* Whatever they interleave, the total PostWssConsumeQuota settles counts no token,
\* reported or counted, more than twice: once for each goroutine.
CountedAtMostTwice ==
  \A r \in Requests : sumUsage[r] <= 2 * (reported[r] + counted[r])

\* What one would expect of the total: every token the provider reported before
\* main began to bill is in it.  The unlocked additions do not guarantee it.
SumCoversReported ==
  \A r \in Requests : pc[r] = "open" /\ worker[r]["main"].of = "local"
    /\ worker[r]["main"].at = "done" /\ worker[r]["reader"].at \in {"wait", "stopped"}
      => sumUsage[r] >= reported[r]

\* Settle charges the actual quota: a settled connection has cost what its turns
\* cost, no matter how much of it was charged turn by turn.
ChargedForUsage ==
  \A r \in Requests :
    pc[r] = "settled" /\ worker[r]["reader"].at \in {"wait", "stopped"}
      => FundingCharge(r) <= sumUsage[r]

\* The turn-by-turn charges stay within the source the session uses, and none is
\* made before there is a session to use it.
TurnsUseSessionSource ==
  /\ OneFundingSource
  /\ \A r \in Requests, g \in Goroutines :
       worker[r][g].at \in {"funding", "token"} => sess[r].funding # "none"
=============================================================================
