# Verification of the gateway's billing and of its stateful clients

The repository is an LLM API gateway: it authenticates a request, charges an
estimate in advance, forwards the request to a provider, and settles the actual
price. Money ("quota") comes in through payment orders and redemption codes and
moves through concurrent request handlers, goroutines, polling loops of several
processes, a Redis cache and database statements that are not in one
transaction. Two pages of the web client keep state of their own under
asynchronous callbacks: the chat playground and the editor of tiered prices,
whose output the server bills by. This directory models those parts in TLA+,
checks small instances with TLC and proves the main properties with TLAPS.

Contents: [inventory](#1-inventory) · [modules](#2-modules) · [runs](#3-runs) ·
[fairness](#4-fairness) · [proofs](#5-proofs) ·
[abstractions and omissions](#6-abstractions-and-what-is-left-out) · [plan](#7-plan)

## 1. Inventory

| Component | State | Operations | What is hard | What makes it correct |
|---|---|---|---|---|
| **Billing session** (`service/billing_session.go`, `funding_source.go`, `billing.go`) | per request: source, pre-consumed amounts, the flags settled / fundingSettled / refunded | `NewBillingSession`, `preConsume`, `Settle`, `Refund` and its goroutine | three accounts changed in separate statements, each may fail; fallback between sources; retried refunds; sessions only in memory | one source per request; a settled request pays its price; nothing is given back twice |
| **Account rows** (`model/user.go`, `token.go`, `subscription.go`) | `users.quota`, `tokens.remain_quota`, `user_subscriptions.amount_used`, pre-consume records | increase, decrease, pre-consume, post-consume delta, refund by request id, reset, expiry | check and write are separate; reset between hold and refund | `amount_used` never below 0, never refunded twice |
| **Realtime billing** (`relay/channel/openai/relay-openai.go`, `relay/websocket.go`, `service/quota.go`) | two usage counters and their sum, shared by three goroutines | tokens counted, a turn charged, usage cleared, the rest charged at the end, session settled | additions without a lock; two ways of charging one connection | no token counted more often than there are billers; turns paid by the session's source |
| **Async task billing** (`controller/relay.go`, `relay/relay_task.go`, `service/task_polling.go`, `task_billing.go`, `model/task.go`) | task rows; each process's in-memory copies | submit, poll, sweep, real-time fetch, refund, re-pricing | several processes write the same row from stale copies; channel lookups that fail; crash between status and refund | one process bills a task; a failed task is refunded once; every task ends |
| **Payment orders** (`controller/topup*.go`, `controller/subscription_payment_*.go`, `model/topup.go`, `model/subscription.go`) | orders and their status; each process's map of order locks | create, report of a provider, completion by an administrator, failure, expiry | reports repeated, late, concurrent; status and credit are two writes for one provider; the row lock is an option that GORM v2 does not read | an order is credited once, stays credited, and what was paid is credited |
| **Redemption codes** (`controller/user.go`, `model/redemption.go`) | codes | redeem | the same row lock, and a lock per user only | a code pays once |
| **Quota cache and batch updater** (`model/utils.go`, `user.go`, `user_cache.go`, `token_cache.go`, `common/redis.go`) | the row, the Redis hash, deltas in memory | increase, decrease, override, flush, fill, save a user, expire | three copies written side by side by goroutines; lost increments; crash before the flush | no delta lost on the way to the row; copies agree again |
| **Chat playground** (`web/default/src/features/playground`) | message list, the copy handlers closed over, localStorage, current stream | send, regenerate, edit, delete, stop, stream events, reload, leave | handlers act on the list of the last render; several streams; tags cut between chunks; a reload at any time | a message shows what arrived for it; every generation ends |
| **Pricing editor** (`web/default/src/features/system-settings/models`, `features/pricing/lib`) | the dialog's halves of the price, the editor's tiers, rules, raw text | edit tiers and rules, raw text, presets, change of mode, open, save | four effects that overwrite each other's copies; text taken apart and put together again | an edit survives; the server charges what the table states |
| Channel selection and retry (`service/channel_select.go`, `model/channel_cache.go`, `ability.go`, `middleware/distributor.go`) | priorities, auto groups, key index | pick, retry, disable | state kept across retries | each priority tried, no disabled key used |
| Rate limiters (`middleware/rate-limit.go`, `model-rate-limit.go`, `common/limiter`) | windows, buckets | allow | window boundary, concurrent requests | never above the limit |
| Midjourney tasks (`controller/midjourney.go`, `relay/mjproxy_handler.go`) | rows of their own | submit, poll | like async tasks | like async tasks |
| Adaptors, authentication, image audit, invite campaigns, epay gateway, the other pages of the web client, desktop shell | | | I/O, forms or record keeping | not modelled |

How the modelled parts interact. A relay handler opens a *billing session*, which
changes the *account rows*. When the relay ends, `SettleBilling` or the deferred
`Refund` closes it. A *realtime* handler keeps the session open and, beside it,
charges turns on the same rows. A *task* submission settles its session when the
provider accepts the task and leaves a row with its price; from then on the
pollers, which know nothing of the session, adjust the account rows by that price.
*Payment orders* and *redemption codes* credit the same wallet row, past the
cache. The *quota cache* is what `model/user.go` really does when a billing
action says "increase" or "decrease" and Redis or batch updates are on. The
*pricing editor* writes the expressions the settlement evaluates; the *playground*
is one of the clients whose requests are billed.

The hazards are in `PROJECT.json`, each at its line, with the properties that
would catch it.

## 2. Modules

```
HoldCapture  <--refines--  BillingSession  <--extends--  RealtimeBilling
                            |        ^                      |        ^
             BillingSessionProofs  MCBillingSession         |  MCRealtimeBilling
                            |                               |
                            +----  RealtimeBillingProofs ---+

TaskBilling    <--extends--  TaskBillingProofs, MCTaskBilling
PaymentOrders  <--extends--  PaymentOrdersProofs, MCPaymentOrders
QuotaCache     <--extends--  QuotaCacheProofs, MCQuotaCache
Playground     <--extends--  PlaygroundProofs, MCPlayground
PricingEditor  <--extends--  PricingEditorProofs, MCPricingEditor

FoldLemmas     <--extends--  QuotaCacheProofs, PlaygroundProofs, PricingEditorProofs
```

**HoldCapture** is the abstract promise: a hold is placed, then captured at the
actual price or voided to zero; a fault may abandon it as it is; once it is over
its amount never changes.

**BillingSession**. `wallet`, `token`, `subUsed`, `subActive` are the rows, `sess[r]`
the Go struct of request r (with its `FundingSource`), `pc[r]` the statement it is
at. Each action is the code between two database statements:

| Code | Actions |
|---|---|
| `NewBillingSession`, closures `tryWallet` / `trySubscription` | `NewBillingSession`, `TryWallet`, `TrySubscription`, `NextSource` |
| `preConsume`, `PreConsumeTokenQuota`, `FundingSource.PreConsume` | `CheckToken`, `PreConsumeTokenQuota`, `PreConsumeWallet`, `PreConsumeUserSubscription`, `RollbackToken` |
| `Settle` | `Settle` (funding), `SettleToken` |
| `Refund`, `refundWithRetry`, `RefundSubscriptionPreConsume` | `Refund`, `RefundWallet`, `RefundSubscription`, `MarkRefunded`, `RefundToken`, `NextAttempt` |
| plan reset, expiry, process death | `ResetSubscription`, `ExpireSubscription`, `Crash` |

`wCharge`, `sCharge`, `tCharge` record what each request has taken from each
account, net; the properties are about them, since balances are shared.
`RefundSubscription` and `MarkRefunded` are two steps because
`PostConsumeUserSubscriptionDelta` opens its own transaction on `DB`: its credit
is committed before the record is saved.

**RealtimeBilling** adds the connection. `usage` (reported by the provider) and
`localUsage` (counted here) are the counters, `sumUsage` the total; `worker[r][g]` is
where goroutine g is in `preConsumeUsage`. Nothing is locked, so the addition to the
total is a load and a store, and an addition to `localUsage`, which two readers make,
may be undone by the other (`Added`).

| Code (`OpenaiRealtimeHandler`, `preConsumeUsage`, `quota.go`) | Actions |
|---|---|
| the client's reader, other events of the provider's | `CountEvent` |
| the provider's reader at response.done | `ResponseDone`, `ResponseDoneNoUsage`, `ClearUsage`, `ReaderStops` |
| `preConsumeUsage` | `LoadSum`, `StoreSum`, then `PreWssConsumeQuota`, `PostConsumeFunding`, `PostConsumeToken` |
| main after its `select` | `Disconnect` (bills `usage`), `BillLocalUsage`, `PostWssConsumeQuota` |
| the dial fails | `ConnectFailed` |

`reported`, `counted` and `billed` are histories. `CountedAtMostTwice` is what holds of
the total. Two stronger properties are stated and do not hold: `SumCoversReported` (no
turn is lost) and `ChargedForUsage` (no turn is paid twice); see the switches.

**TaskBilling**. `row[t]` is the row, `copy[p][t]` the copy process p read at its last
`SELECT`, `step[p]` what p has left to do for the task in hand, `fetch[f]` a GET
request between its read and its write. `reopened[t]` counts the times a GET has put a
finished row back in progress; the properties about money and billers are about tasks
for which it is 0. `submitTime` is a column of the row: the sweep selects by it, the
legacy cutoff reads it, and a Suno answer overwrites it. What `CacheGetChannel` says of a
channel is a choice when the fault `"lookup"` is on: it reads a per-process copy of the
table, or the database, and may miss a channel that exists.

| Code | Actions |
|---|---|
| `RelayTask`, `RelayTaskSubmit` | `PreConsumeBilling`, `SubmitFailed`, `SettleSubmission`, `InsertTask` |
| `TaskPollingLoop`, `sweepTimedOutTasks` | `SelectTimedOut`, `SweepTask`, `SelectUnfinished`, `Sleep` |
| `updateVideoTasks`, `updateVideoSingleTask` | `FailChannelTasks`, `FetchTask`, `UpdateVideoTask` |
| `updateSunoTasks` | `FailChannelTasks`, `FetchTask`, `UpdateSunoTask`, `SaveSunoTask` |
| `RefundTaskQuota`, `RecalculateTaskQuota` | `TaskAdjustFunding`, `TaskAdjustTokenQuota`, `PersistQuota` |
| `videoFetchByIDRespBodyBuilder`, `tryRealtimeFetch` | `FetchByID`, `TryRealtimeFetch` |
| provider, clock, administrator, process death | `UpstreamDone`, `Expire`, `DeleteChannel`, `Crash`, `CrashSubmission` |

The submission's hold and settlement are one step each; `HoldCapture` is what
justifies that.

**PaymentOrders**. `status[o]` is the row of an order, `req[h]` the request handler h
serves: on which process and order, how far it is, the status it has read, the
mutex it waits for or holds. Between `ReadOrder` and the write others may write,
because the transactions lock no row. The kind of an order is its provider; kinds
differ in when the report is answered, in how many writes a completion is, and in
which writes of a failure take the lock: those of waffo's reports do not, and neither
does the failed creation of a waffo or pancake order. `unresolved[o]` records that a
report of a pancake order was answered OK because its number could not be resolved.

| Code | Actions |
|---|---|
| `RequestEpay`, `RequestStripePay`, `RequestWaffoPay`, `RequestWaffoPancakePay`, ... | `CreateOrder`, `CreateFails` |
| `EpayNotify`, `fulfillOrder`, `handleCheckoutCompleted`, `handleWaffoPayment`, `WaffoPancakeWebhook`, `SubscriptionEpayNotify` | `ReportPaid`, `ReportUnresolved`, `ReportOther` |
| `sessionAsyncPaymentFailed`, `sessionExpired` | `ReportUnpaid` |
| `AdminCompleteTopUp` | `AdminCompleteTopUp` |
| `LockOrder`, `UnlockOrder` | `LockOrder`, `MutexLock`, `UnlockOrder`, `ReleaseEntry` (the two critical sections of `createLock` and the two operations on the mutex) |
| `Recharge*`, `ManualCompleteTopUp`, `CompleteSubscriptionOrder` | `ReadOrder`, `CompleteOrder`, `LeaveOrder`, `WriteFails` |
| `EpayNotify` after the lock | `ReadOrder`, `EpayUpdate`, `EpayIncreaseUserQuota` |
| `UpdatePendingTopUpStatus`, `ExpireSubscriptionOrder` | `ReadOrder`, `MarkUnpaid` |
| `TopUp`, `Redeem` | `TopUp`, `ReadCode`, `UseCode` |
| the provider, process death | `Settle`, `Crash` |

**QuotaCache**. One user's balance: `row`, `hash` (with its time to live), `store` and
`flushing` (the delta in the batch updater, and the one it is writing). `call[c]` is
an `IncreaseUserQuota` or `DecreaseUserQuota` with its two halves, the caller's
write and the goroutine's increment, which run side by side; `thread[t]` reads the
balance and fills the hash, or saves a whole user.

| Code | Actions |
|---|---|
| `IncreaseUserQuota`, `DecreaseUserQuota` | `ChangeUserQuota`, then `addNewRecord` or `WriteRow`, beside `CacheTTL` and `CacheIncr` |
| `InitBatchUpdater`, `batchUpdate` | `batchUpdate`, `FlushRow`, `FlushRowFails` |
| `GetUserQuota`, `GetUserCache` | `CacheMiss`, `GetUserById`, `SelectQuota`, `updateUserCache`, `QuotaTTL`, `QuotaSet` |
| `User.Update` in `ManageUser` | `ReadUser`, `Update`, `updateUserCache` |
| `TransferAffQuotaToQuota`, `inviteUser` | `ReadUser`, `Save` (every column, row only) |
| `Recharge`, `Redeem` | `Recharge` (row only) |
| `ManageUser` with mode `override` | `OverrideQuota` (row only) |
| Redis, process death | `Tick`, `InvalidateUserCache`, `Crash` |

`TTL` is the set of answers Redis may give: seconds, rounded up or down, so that a key in
its last half second may answer 0 and `RedisHIncrBy`, which asks for a positive one, skips
the increment of a hash that is there.

`truth` adds up what the calls asked for; `slipped` and `raced` record the events
after which the code promises nothing (a failed statement, a crash or a save of a stale
user; a change that overlapped the fill of the hash, a skipped or failed increment, a
transaction or an override that left the hash alone), and the properties say what holds
until then, and after.

**Playground**. `messages` is the list with all updates applied, `rendered` what the
handlers of the page closed over, `storage` the saved copy, `source` and `complete`
the two refs of `useStreamRequest`, `conn[r]` the connection of generation r;
`received[r]`, a history, is the text and the reasoning that it delivered. A callback is one action. A click renders before the next event; updates of network
callbacks are rendered later, by `Render`. Text is a sequence of tokens, so that
`parseThinkTags` is modelled by what it does; a chunk may end within a tag, and `Join`,
the concatenation of strings, makes the halves whole. After a think part that is empty
`processStreamingContent` keeps the half closing tag it last took for reasoning, which
`ShowsWhatArrived` excepts. A page may be reloaded, which ends its connections, or left
and opened again, which does not: `useStreamRequest` has no cleanup, so the stream goes on
(`"left"`) with refs and setters of a page that is gone.

| Code | Actions |
|---|---|
| `index.tsx`, `playground-input.tsx` | `HandleSendMessage`, `HandleSuggestionClick`, `HandleRegenerateMessage`, `HandleEditMessage`, `HandleEditCancel`, `ApplyEditSave`, `ApplyEditSubmit`, `HandleDeleteMessage` |
| `use-stream-request.ts` | `OnChunk`, `OnDone`, `OnParseError`, `OnError`, `OnTruncated` |
| `use-chat-handler.ts` | `StopGeneration`, `OnAnswer`, `OnNoChoice`, `OnRequestError`, and the updates the stream actions apply |
| `storage.ts`, `sanitizeMessagesOnLoad`, `usePlaygroundState` | `Mount` in `Reload` and `Leave`; `LeftEnds`; saving is part of `Render` and of every click |

**PricingEditor**. `dialog` holds the two halves of the price (`billing`, `rule`), `ed`
the editor's copy, `seen` and `fresh` what its effects last ran with. A click or
keystroke is an action; `Flush` is one round of the four effects with the values of
one render, and the user acts again when they have come to rest. An expression is
a chain of tiers, or something the visual editor has no form for, under layers of
request rules; `Price` is the server's evaluation of it. `meant` is what the user last
loaded or entered. Handlers that set both halves of the price (a keystroke in the raw
editor, a preset, a change to visual mode that falls back to the default table) set the
rules at once and leave the tiers to an effect; while `initRef` is clear the first effect
reads the new rules with the old tiers and restores the old tiers. Such an entry is
`Torn`, and nothing is promised of it.

Parsing a rule and writing it again is not the identity. A compound condition (`param !=
nil && ...`) does not parse; a comparison with a string that reads like a boolean or a
number, `== "true"` or `== "5"`, parses and is written without its quotes, which is
another comparison (`Test`, `parseExprLiteral`). `EditsStick` is about `Visual` prices,
whose rules read back as written. A typed model name reaches the editor when the dialog
next renders (`renamed`), since `form.getValues` is not reactive.

| Code | Actions |
|---|---|
| the effects of `TieredPricingEditor` | `Flush` (`InitEditor`), `TypeName` |
| `VisualEditor` | `HandleTierChange`, `HandleAddTier`, `HandleRemoveTier`, `HandleAddCondition`, `HandleConditionRemove` |
| rule groups | `AddRuleGroup`, `RemoveRuleGroup`, `ChangeRuleCondition`, `AddRuleCondition`, `RemoveRuleCondition`, `ChangeMultiplier` |
| raw editor, modes, presets | `HandleRawChange`, `HandleModeChangeToVisual`, `HandleModeChangeToRaw`, `ApplyPreset` |
| `ModelRatioDialog`, `ModelRatioVisualEditor` | `OpenDialog`, `SetPricingMode`, `HandleSave`, `HandleCancel` |

Definitions commented "Mutant of ..." are faulty variants of the
definition below them, used to see that each property can fail; no
specification uses them.

## 3. Runs

Run one with `tlc -config <cfg> <module>`.

| cfg | Expected | Shows |
|---|---|---|
| `MCBillingSession` | pass | two concurrent requests out of seven profiles (all preferences, playground, unlimited token, forced pre-consume, price 0) under failing statements and reads, resets, expiry and crashes: `OneFundingSource`, `SettledChargesActual`, `NoOverRefund`, `HoldMatchesSession`, and every step is a `HoldCapture` step |
| `MCBillingClean` | pass | the same without faults: `NothingLeaks` (charged in full on both accounts or not at all) and `Resolves` (fallback and retries end) |
| `MCRealtime` | pass | one connection of four profiles, up to two turns, all interleavings of reader, main and counted events: `CountedAtMostTwice`, `TurnsUseSessionSource` |
| `MCTaskBilling` | pass | two processes poll and sweep one task, legacy or new, with crashes, failing statements and failing lookups of its channel: `NoOverRefund`, `QuotaIsCharge`, `OneBiller`, `TerminalIsFinal` |
| `MCTaskLiveness` | pass | two tasks, video or Suno, one process, both limits 1, a provider that fails, never answers or reports another submit time: `EveryTaskFinishes`, `FailureRefunded` |
| `MCTaskRealtime` | pass | two GET requests beside two pollers, the sweep on, crashes, a provider that takes a failure back and a channel that disappears, one reopening: `NoOverRefund`, `QuotaIsCharge` |
| `MCPaymentOrders` | pass | one order of any of five kinds, one code, two handlers of one process, one failing write or crash: `CreditedOnce`, `OrderMutex`, `CreditedStaysSuccess`, `PaidIsCredited` |
| `MCQuotaCache` | pass | two overlapping changes, overrides, two reading or saving requests, one fault, batch updates on: `Conserved`, `CacheAgrees`, `EventuallyWritten`, `CacheRepaired` |
| `MCPlayground` | pass | two generations, the first of up to two chunks, streamed or plain, tags cut between chunks, with every control, a reload or the page left between any two events: `OneStream`, `ReloadSettles`, `ShowsWhatArrived`, `GenerationEnds` |
| `MCPricingEditor` | pass | up to five acts in dialogs opened on five kinds of stored price, with two presets: `EditsStick`, `ChargesWhatTheTableSays`, `EffectsSettle` |
| `MCPricingOpen` (module `MCPricingEditor`) | violation | `OpenKeepsPrice`: opening a hand-written expression replaces it by a price of zero |
| `MCRedeem` (module `MCPaymentOrders`) | violation | `RedeemedOnce`: two users redeem one code at once |

The findings in `PROJECT.json` quote the comments and tests the violations disagree with.

*Bounds.* Two requests are enough for a check of one to be invalidated by a write
of the other; they share nothing but the balances, so a third adds no new kind of
interference. Balances 3/3 with total 2 and prices 0, 1, 3 make each check
succeed, fail and sit on its boundary: a request may exhaust a balance, exceed the
subscription's total at settlement, or pass the trust limit. The reset may happen
between any two steps, which exercises the clamp. Two turns are needed for the
reader to be inside a turn while another has been cleared, and for an addition of main
to fall between the load and the store of the reader. Two pollers for every
race on one row; tasks interact only through the limits, so the two-task run has
limits of 1, the tightest. `MaxTurns` caps the responses and counted events of a
connection, `MaxReopens` the reopenings of a row (without a cap each could refund it once
more); a task run has infinitely many polling rounds and finitely many states.

Two handlers make every race on an order, and two mutex objects are as many as two
handlers can hold; one fault separates the completion of one report from a retry
of another. Two calls and two threads make a fill overlap a change and a change
overlap a flush; a lifetime of two half seconds lets the key expire between the
commands of one increment, and time to live be rounded to 0. In the playground the
second stream brings no chunks of its own: what matters is that its start, end or
error meets the chunks of the first; the chunk texts end within a closing tag, after a
think part with text and after an empty one, and the next chunk has the rest of it. In the editor two bounds and two tiers let
a tier shadow another, one group with two conditions covers blank, plain and
compound rules, and five acts reach every pair of a change and a change of mode
after the dialog has been saved and opened again, and the shortest torn change of
mode (mount, preset with a compound rule, raw mode, a typed name, visual mode).

*Deadlock* is checked everywhere. `Finished` and `RealtimeFinished` are the legal
ends of the request models; pollers, providers, pages and time never stop.

*Switches.* Faults, processes and profiles are constants, so an assumption is lifted
by editing a cfg. These edits make TLC show behaviour of the code that the
assumption hides:

- `Faults = {"record"}` in `MCBillingSession`: `NoOverRefund` fails. The credit of
  `RefundSubscriptionPreConsume` is committed in a transaction of its own
  (`model/subscription.go:1091`); when saving the record fails, `refundWithRetry`
  gives it again, although the comment at line 1073 calls the function idempotent.
- `INVARIANT SumCoversReported` in `MCRealtime` fails: main's addition to the total falls
  between the reader's load and store, or the other way round, and a turn is lost
  (`relay-openai.go:547`).
- `INVARIANT ChargedForUsage` in `MCRealtime` with `Profiles <- OneProfile` fails: turns
  are charged as they happen and again by the final settlement
  (`service/quota.go:150`).
- `NoOverRefund` without its exception `reopened[t] = 0` fails in `MCTaskRealtime`. A GET
  request puts a task that was swept, or failed by an error of the provider, back in
  progress (its write at `relay/relay_task.go:578` is a CAS, but against a status it read
  itself), and the next sweep or poll refunds it again.
- `Fetchers = {"f1"}`, `Attributes <- GeminiAttributes`, timeouts off, one task and
  `FailureRefunded` alone in `MCTaskLiveness`: it fails. A GET request writes FAILURE
  first and nobody refunds.
- `Faults = {"channel"}` or `{"lookup"}`, `Attributes <- VideoAttributes` in
  `MCTaskLiveness`, one task: `FailureRefunded` fails. The bulk failure of a channel's
  tasks (`service/task_polling.go:314`) refunds nothing, and the comment at
  `model/task.go:535` forbids its use there.
- `INVARIANT LegacyNotRefunded` in `MCTaskBilling` with `Attributes <- RecentAttributes`
  fails: the cutoff at `service/task_polling.go:51` is 2025-02-22, its comment says
  2026-02-22.
- `"settle"` among the faults of `MCTaskBilling`: `QuotaIsCharge` and `NoOverRefund`
  fail (a refused settlement of the submission is logged while `task.Quota` takes
  the new price).
- `INVARIANT NoOverRefund` in `MCTaskLiveness` with `"save"` among the faults, or with two
  pollers and one task: it fails. A Suno task is refunded before its row is saved, and
  no CAS elects one process.
- `Nodes = {n1, n2}` in `MCPaymentOrders`: `CreditedOnce` fails. The order locks are
  the memory of one process, and the row locks are not taken
  (`model/topup.go:121`).

## 4. Fairness

- `BillingSession!FairSpec`: weak fairness of each request's steps. Handlers and
  the refund goroutine are run by the Go scheduler, and every upstream call ends,
  if only by the relay timeout. Nothing is assumed of resets, expiry or crashes.
- `TaskBilling!FairSpec`: weak fairness of each poller's loop, each submission and
  each task's timeout. `TaskPollingLoop` sleeps 15 s and goes on for ever; time
  passes. Nothing is assumed of providers: `FetchTask` may fail every time. No
  crashes in the liveness runs, since a process that dies between the CAS and the
  refund leaves the refund undone and the code has no recovery.
- `PaymentOrders!FairSpec`: weak fairness of each handler's steps, strong fairness of
  taking a mutex (Go's mutexes do not starve a waiter), and strong fairness of the
  provider's report of a paid order as long as no report has been answered with
  success: all five providers repeat a report that was refused. Nothing is
  assumed of administrators, users or further reports.
- `QuotaCache!FairSpec`: callers and goroutines run, `InitBatchUpdater` loops for
  ever, Redis time passes. A failed step is not owed.
- `Playground!FairSpec`: a connection ends in one of its ways, and React renders
  queued updates. The user owes nothing, not even Stop or a reload.
- `PricingEditor!FairSpec`: React runs the effects of every render it commits.

## 5. Proofs

`tlapm <module>` checks each from scratch. The theorems hold for any requests,
tasks, processes, balances, prices and limits, under the named assumptions of the
modules (prices are naturals, the fault set is a set of known faults).

**BillingSessionProofs**. `TypeCorrect`, `OneFundingSourceHolds`,
`SettledChargesActualHolds` and `HoldMatchesSessionHolds` under all faults,
`NoOverRefundHolds` if the record of a refund can be saved (an assumption that the
switch `"record"` shows to be necessary). None is inductive: what a settled
session has charged depends on what the open one held, and that on nothing having
been taken before. `FundingInvAt(r)` says, per control point, what the funding
source has given; `TokenInvAt(r)` that the token has given at least what the session
remembers (a failed rollback leaves more taken, never less); `RefundInvAt(r)` what
the goroutine still owes. One `...Effect` lemma per action states what it does to
its request, `OtherRequests` that it does nothing to another; the three `...Step`
lemmas then go through the actions.

`NothingLeaksHolds` adds `FaultlessInvAt(r)`, which without faults turns the token's "at
least" into "exactly", and follows the refund goroutine's remaining statements.
`ImplementsHoldCapture`: initial states and every step map to `HoldCapture`, under the
assumption on the record. `Crash` maps to abandoning a set of holds.

**RealtimeBillingProofs**. `RealtimeTypeCorrect`, `CountedAtMostTwiceHolds` and
`TurnsUseSessionSourceHolds` under all faults. The turns charge the session's source
past the session, so the amounts of `BillingSession`'s invariants no longer hold; what
is left of them is `SourceInv`, which source may have been charged at each control
point. It needs `WorkerInv` (no goroutine bills before the session is open), and is in
turn what keeps the fallback from changing the source under a charged turn. The bound on
the total rests on `BilledInv`: the total, and what a store under way will make of it, are
within what the two goroutines have passed to `preConsumeUsage`; the reader passes no token
twice, because what is in the counters while it waits is what it has not billed; and main
bills each counter once.

**TaskBillingProofs**. `TaskTypeCorrect` for everything, with `WorkInv` (a price is
never adjusted below zero) because types alone are not inductive. Under `CasOnly` -
no Suno tasks, no refused settlement of a submission - `TaskNoOverRefund`,
`TaskQuotaIsCharge`, `TaskOneBiller` and `TaskTerminalIsFinal`, with GET requests, crashes,
failing statements and failing channel lookups allowed. The first three are about tasks
that no GET has reopened. The invariant `MoneyInv` has five parts: the price in an unfinished row is
what was taken (`RowInvAt`); a copy that may still be written was read unfinished,
and agrees on the price while the row is unfinished (`CopyInvAt`), and so does the copy of
a GET (`FetchInvAt`); a poller that
bills has a terminal row and enough left to give back (`BillInvAt`); and there is
one such poller (`OneBillerAt`). Winning the CAS from an unfinished status is what
re-establishes the last two. `TaskTerminalIsFinal` names the writers it excepts: the bulk
failure and a GET. Each exclusion of `CasOnly` is a case in which the
conclusion fails: see the switches.

**PaymentOrdersProofs**. For any orders, codes, handlers, mutex objects and faults.
`PaymentTypeCorrect` and `OrdersExcluded` (`OrderMutex`) hold for any number of
processes. Mutual exclusion is not inductive: that an entry is the mutex its users
hold depends on its not being removed under them, and that on the count.
`LockInv` has four parts: who holds a mutex holds the entry of its order
(`HeldIsEntry`), two entries are two mutexes (`Injective`), the count of an entry is
the number of its users (`Counted`), and a mutex is locked by exactly the one user
inside (`SectionAlone`). The removal of an entry is sound because a count of one
means the remover is alone, by facts on cardinalities. `OrderCreditedOnce` and
`OrderStaysSuccess` follow for one process (`OneProcess`): `CreditInv` says that an
order a handler in the section has read as pending and not yet written is
uncredited, which no other handler can change because it is outside. `OrderStaysSuccess`
excepts waffo and pancake, whose failures are saved outside the lock. Two processes
refute both (see the switches).

**FoldLemmas** is what the next three share: what a fold over a finite set or a
sequence computes. The library's induction theorems take an operator as a parameter,
which the provers cannot instantiate, so induction here is over sets: the members for
which a claim holds are collected in a set `T`, and a minimal member outside `T`, which
`WFMin` gives, leads to a contradiction (`NatSetInduction`, `SubsetInduction`). From
that follow that the recursion of `FoldFunctionOnSet` has a solution, that a sum does
not depend on the order `CHOOSE` takes the members in (`SumOverAny`), and that it changes
by what one member changes (`SumUpdate`).

**QuotaCacheProofs**. `QuotaTypeCorrect`, `QuotaConserved` and `QuotaCacheAgrees` for any
finite set of calls (`CallsAssumption`: a process runs finitely many goroutines), any
threads, amounts and lifetimes. `Conserved` and `CacheAgrees` are about sums over the
calls and not inductive. `CleanInv` adds what a reading thread may rely on: one whose value
no change has gone past holds the truth, with nothing under way, which is why the hash it
fills agrees, and a change that skips a hash which is there is one after which nothing
is claimed. `ExpiryInv` says that an increment or a write of the field under way carries
a time to live, so it never leaves behind a hash that Redis holds for gone.

**PlaygroundProofs**. `PlaygroundTypeCorrect`, `OneStreamHolds`, `ReloadSettlesHolds` and
`ShowsWhatArrivedHolds` for any number of generations, chunks and texts. What
`parseThinkTags` returns is shown by induction on the positions read, and that it
separates every text as the reference definition by positions does (`ParseIsReference`) by
induction on the length. When a chunk mends a cut tag and no reasoning is left, there was none before but half a
closing tag (`JoinReasons`). `OneStream` is inductive only with `ModeInv` (without
streaming nothing is open and the flag the guards read is FALSE). `ReloadSettles` is about
the stored list alone; `ListInv` ties it to the page: the list in storage is the rendered
one, at most the last message of a list is unsettled, and while it is there is a source,
a flag or a request that will settle it. That is why finalizing a single message is enough.
`ShowsWhatArrived` speaks of finished messages; `ShownInv` says how they get there: a live
generation owns the last message, a message that waits holds the text as it came (`InStep`), and on the list as on the page no finished message belongs to a
generation that still delivers (`Honest`), so a handler that puts the rendered list back
cannot revive one. Parsing the whole text again at each chunk is sound because the
reasoning of a text never shrinks when the text goes on (`ReasoningStays`), half a closing
tag aside. TLC checked
`ConnInv` and `ShownInv` on the instance of `MCPlayground` before they were proved.

**PricingEditorProofs**. `PricingTypeCorrect`, `EditsStickHolds` and
`ChargesWhatTheTableSaysHolds` for every set of prices, bounds, stored and typed
expressions and presets, tables and rules of any length and any number of acts. The
assumptions say what an expression is: a chain has a tier, and of several the last has
no condition (else the parser, which compares with what the generator makes, calls it
something else); a written rule has conditions and a multiplier. `EditsStick` speaks of
settled states only. `StickInv` speaks of every round: the editor stands for what was
entered (`Displays`), and when the first effect is about to read the dialog back
(`Reads`), so do the dialog's two halves (`Halves`). That a rule without compound or quoted
conditions is what its parsed groups are written as is `BuildRule`. The attempt to prove it without
`Torn` changes of mode failed for a good reason: with five acts TLC shows the change to
visual mode losing its table, which four acts did not reach, and the definition of what
was meant now says so. `ChargesWhatTheTableSays` needs the types only, and what the
writer of rules and the product of the multipliers compute: groups that are not filled
in are not written, and weigh 1 (`KeptProduct`, by induction along the groups).

**Only model-checked**: all liveness (`Resolves`, `EveryTaskFinishes`,
`FailureRefunded`, `PaidIsCredited`, `EventuallyWritten`, `CacheRepaired`,
`GenerationEnds`, `EffectsSettle`: fairness is outside the prover's reach), and of Suno
tasks everything but the types.

## 6. Abstractions and what is left out

- In the billing models Redis and batch updates are off: reads see the row. What
  they change is `QuotaCache`.
- A transaction on the subscription row (`SELECT ... FOR UPDATE`, check, `Save`) is
  one step. The lock is requested with `Set("gorm:query_option", ...)`, which GORM v2
  does not read, so on MySQL or PostgreSQL two of them may lose an update of
  `amount_used`. The properties are about what each request took, which such a loss
  does not change; the sum in the row is not modelled to that detail yet.
- A user's subscriptions are one subscription; the lookup of a repeated request
  id is left out (ids are generated per request).
- `Reserve` (no caller), `SettleBilling` without a session, notifications, log
  rows and usage statistics.
- Prices are a small set: the arithmetic of ratios, tiers and expressions is not
  modelled.
- Realtime: models with a fixed price, for which `PreWssConsumeQuota` returns at once;
  the single fields of a counter, which is one amount; the addition to `usage`, which only
  the provider's reader makes, is one step.
- Tasks: retries over channels before acceptance (the hold is taken once for all
  of them); SUBMITTED and QUEUED are IN_PROGRESS; the branch for empty upstream
  ids, which rows of this version never have; the panic on an unknown id in a
  Suno answer. The code looks a channel up once for all its tasks, the model once
  per task. A Suno item that changes the submit time may put the task on either side of
  the timeout.
- Payments: amounts, signatures, and the check that a report names the provider of
  the order (a mismatch is left alone as any order that is not pending is); what a
  completed subscription order gives. Orders and codes do not interact.
- Cache: the token's balance, kept in the same three places by the same code; the
  other fields of the hash; the counters of the updater that are not balances.
  `User.Update`'s own read before its update is part of the update.
- Playground: a message's `versions`, of which the code only makes one; the model,
  group and parameters of a request; a delta with reasoning and content is two
  chunks; a tag is cut in one place, not at every letter. `OnTruncated` is what `sse.js` does at the end of a response. What the callbacks of
  a stream do on a page that was left is taken to be lost: React drops the updates of an
  unmounted page, though it may evaluate the first one at once, which would save the list
  as it then stood; that is not modelled. An answer without choices leaves its message
  loading, and a control used after it counts as `raced`.
- Editor: a tier's several unit costs are one price, its conditions are thresholds
  `len < b` (the code's second default condition is on `c`; adding one that is already
  there is left out); a rule's condition is blank, plain (one comparison), quoted (a
  comparison with a string that parses as something else) or compound (written with `&&`). The ratio and per-request forms of the dialog are the
  state "not tiered".
- Lost money the code accepts is modelled but not asserted away: a hold abandoned
  by a crash, a refund whose statement failed, a task whose insert failed, deltas
  of the batch updater at a crash.

*Not modelled.* Most of the repository's lines are the web client's: some 820
TypeScript files with 139,000 lines of forms, tables, charts, dialogs, generated
routes, translations and vendored components. A page there shows what a query
returned and posts a form; its state is local, nobody else changes it, and a model
of it would repeat its layout. The two features with state machines of their own,
the playground and the pricing editor, are modelled, so that the share of the
client's lines that the map of `PROJECT.json` names stays small, and the models of
the server, in Go, are where most definitions are. Provider adaptors rewrite
requests and responses; authentication, audit and invite campaigns are checks and
records within one request; the embedded epay gateway is a program of its own.

## 7. Plan

Done: the request, realtime and task models, the abstract hold and its refinement;
payment orders and redemption; the cache and the batch updater; the playground and
the pricing editor; theorems for the type invariants of all modules and for every
safety property the passing runs check, and the refinement of the hold.

Next, most important first:

1. Suno tasks: what is left of the properties of refunds on one process without crashes,
   and its proof.
2. `ChannelRetry`: auto groups, priorities and multi-key channels across the
   retries of one request; each candidate tried at most once, the retry loop ends.
3. `RateLimit`: the sliding window and the token bucket.
4. The transactions on `amount_used` split at their read, as in `PaymentOrders`, and
   a sum property for the row.
5. Midjourney tasks as an instance of the same questions as `TaskBilling`.
