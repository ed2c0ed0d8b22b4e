# A verification of Mirsad

TLA+ models of Mirsad: of the parts that decide, send, cancel and protect orders on a
live Revolut X account, and of those that they go by (limits, candles, accounting, the owner's
sessions and data feeds, discovery of new pairs); the TLC runs that check them on small instances,
and TLAPS proofs of all their safety properties for instances of every size. The paths below are
relative to the repository.

The program is a Next.js application. Every handler is a short serverless invocation:
many of them run at the same time, the host may end any of them between two `await`s,
and the venue offers no fencing token, so a request that was sent stays sent. All
durable state is in one SQL database. What can go wrong is therefore *between* the
lines: between a check and the request it allows, between a request and its record,
between two invocations that each believe to be alone. That is what the models are
about. Arithmetic is modelled where a decision rests on it (budgets, stops, limits of risk, the ledger)
and in whole units; formats and wording are left out.

## 1. Inventory

### 1.1 Components

| Component | Code | State it keeps | Operations |
|---|---|---|---|
| Execution journal | `src/lib/execution/v1/journal.ts` | lease row, runtime state (owner's switch, pending signals, risk, indicators), decisions, write claims, protection records, heartbeat | `acquire`, `renew`, `release`, `save`, `begin`, `result`, `claimSourceWrite`, `settleSourceWrite`, `saveProtection`, reads |
| Connected venue | `src/lib/execution/v1/revolut-venue.ts` | none; joins journal and broker | `reconcile`, `lookup`, `submit`, `cancelRemainder`, `prepareExit`, `ensureProtection`, `account` |
| Strategy cycle | `src/lib/execution/v1/runner.ts` | locals of one pass | `cycle` every five minutes: reconcile, protect, exit or enter |
| Managed protection | `src/lib/execution/v1/managed-protection.ts`, `protection.ts` | protection records through the journal | `protectionCycle` every ten seconds: latch a trigger, sell, residual by residual |
| Entry deadline | `src/lib/execution/v1/deadline.ts` | none | `cancelDeadline`: cancel what an expired entry has not bought, protect what it has |
| Execution host | `src/lib/execution/v1/host.ts`, `src/lib/execution/service.ts` | none | `entrySwitch`, routing, report |
| Scheduler worker | `automation/execution-v1-worker.mjs`, `src/lib/execution/v1/scheduler.ts` | Durable Object storage and alarms | cron tick, deadline alarm, protection alarm |
| Manual orders | `src/lib/trading.ts` | `order_intents`, events | `previewOrder`, `confirmOrder`, `reconcileOrder`, simulated orders |
| Connection and settings | `src/lib/services.ts` | `broker_credentials`, `live_enabled`, shared feed cache | `connectRevolut`, `createTradingPort`, `toggleLive`, feed |
| Broker client | `src/lib/brokers/revolut.ts` | none | signed requests: `submitOrder`, `cancelOrder`, reads |
| Planning and risk | `planner.ts`, `risk.ts`, `costs.ts`, `model.ts` | risk latches in the runtime state | `planBuy`, `planExit`, `evaluateRisk` |
| Signals and feeds | `strategy.ts`, `feed.ts`, `historical.ts`, `metrics.ts` | indicator state in the runtime state | `processCandles` |
| Source accounting | `accounting.ts`, `account-evidence.ts`, `source-archive.ts`, `report-evidence.ts`, `reporting.ts` | ledger and archive rows | page, verify, commit by compare-and-set |
| Discovery | `src/lib/discovery/`, `automation/discovery-worker.mjs` | its own rows: lease, runtime (known pairs, turns, next sheet row), trials, events | `runDiscovery`: observe the universe, read two markets, save, export events to a sheet |
| Owner sessions | `src/lib/auth.ts`, `page-session.ts`, `src/proxy.ts` | sessions, attempt counters | login, renewal, logout, password change |
| Storage and helpers, pages, scripts | `db.ts`, `secrets.ts`, `src/components`, `scripts` | none of the above | views and maintenance |

`PROJECT.json` says of each one what is modelled and, where nothing is, why.

### 1.2 How they interact

* `cycle`, `protectionCycle`, `cancelDeadline` and `entrySwitch` exclude one another by
  the account lease. It lasts 120 s; each journal transaction checks it, **nothing else
  does**: a request to the venue leaves whether or not the lease is still held.
* They all reach the venue through `revolut-venue.ts`, which claims each mutation in the
  journal before it sends it (`submit:<key>`, `cancel:<order>`). A claim never expires.
  Only an order seen at the venue settles it, and while one is open no other write on
  the asset is claimed.
* A claim outlives its lease. This is what keeps two invocations from writing at once
  when the lease has expired under the first.
* The worker only dispatches: it keeps the alarms and calls the host.
* Manual orders share the account with the engine and not its lease. They have a database
  lock of the owner's own rows, and a row in `SUBMITTING` or `UNKNOWN` that freezes the
  account for further manual orders.
* `connectRevolut` and `toggleLive` change what both of them send with.
* Discovery shares nothing with the parts that trade. Its scheduler and the owner start runs of
  it, which a lease of 90 s keeps apart as long as none of them outlives it.

### 1.3 What is hard, and what makes each part correct

| Part | Hard behaviour | What must hold |
|---|---|---|
| Write path | lease expiry at every step, killed invocations, a POST or DELETE that is lost, late or unanswered, old reads written late | no decision POSTed twice; one write of unproven outcome per asset; one live order per asset; "absent" and "settled" are proofs; records only advance; the owner's pause binds |
| Protection | partial fills of entry and exits, fills while the cancellation is on its way, rebounds after the trigger, failures at each await | never sells more than was bought; the trigger survives; an exit of unknown end is not repeated; closed means sold; a triggered position is sold in the end |
| Manual orders | several tabs, replays, a connection or switch that changes during a confirmation | one POST per review; one order in doubt; rows tell the truth; the reviewed account; the switch binds; a frozen account can be unfrozen |
| Worker | overlapping, failed, late calls of the host; requests lost or late | no deadline and no watch is lost; a timer is dropped only when the entry is handed over; an expired entry ends |
| Discovery | runs that outlive their lease, commits and sheet writes of unknown outcome, writes that land late, replies that lack pairs, scans that fail half-way | each new pair is announced once and gets its trials; nothing learnt is forgotten; one row per event, and what counts as exported is there; every trial has its turn |
| Planning and risk | an account that moves between plan and POST, rounding at the limits, deposits and withdrawals that look like results, trades reported late | what is sent fits the budget, the exposure and the cash; a stop accepts no greater loss; a day's loss stops the day; the full share is earned |
| Signals | overlapping scans, candles read outside the lease, positions that come and go | every candle is applied once and in order; every symbol is read again and again |
| Accounting | transactions that appear late, are cancelled or reversed; compare-and-set races; moving windows; orders that fill while the account is read | the history is the account's own and is not unwritten; no record is skipped; a stated result is the cash that moved |
| Sessions and feed | logins, renewals and logouts that race a password change; concurrent attempts; cache misses of many instances | no session of an old password, none that returns; the limit of attempts; one load at a time |
| Simulated account | orders settled against one row of totals | no coin or euro is promised twice |

The hazards, each at its line and with the properties that cover it, are in
`PROJECT.json`. Three of them have no property, for the reasons given there: a decision left
`attempting` by an invocation that ended (`runner.ts:174`), a claim left open by a definite refusal
(`revolut-venue.ts:445`), and the age of the heartbeat that entries depend on (`revolut-venue.ts:421`).

## 2. Modules

| Module | Subject |
|---|---|
| `OrderOnce` | the promise about orders at the venue, with no journal, lease or invocation |
| `SourceWrites` | the write path of the engine: lease, journal, claims, requests |
| `ManagedProtection` | one bought position until it is sold |
| `ManualOrders` | live orders placed by hand, with connection and switch |
| `DeadlineWorker` | the deadline of one entry: cycle, Durable Objects, calls of the host, venue |
| `Discovery` | the discovery monitor: overlapping runs, universe, trials, journal, sheet |
| `PaperPair` | what readings of a market do to the two paper trials of a new pair |
| `RiskRules` | the daily limit and the reduced share, over valuations with transfers |
| `EntryRules` | budget, exposure and costs of an entry, and the levels of its fills |
| `ScanCycle` | how candles reach the strategy, through scans that overlap |
| `SourceLedger` | the history of the connected account, and its commit |
| `SourceArchive` | the paged archive of source transactions |
| `SourceAccount` | the reading of positions and closed trades while orders fill |
| `OwnerSessions` | sessions, password and attempt counters of the owner |
| `PublicFeed` | the shared cache of public market data |
| `SimulatedAccount` | the isolated simulated account |
| `SourceWrites_proofs`, `ManagedProtection_proofs`, `Orders_proofs`, `DeadlineWorker_proofs`, `Discovery_proofs`, `Owner_proofs`, `Strategy_proofs`, and `SumTheorems` for the lemmas on sums they share | theorems (section 4) |
| `MCSourceWrites`, `MCOrders`, `MCManualOrders`, `MCDiscovery`, `MCTurnsLive`, `MCOwner`, `MCStrategy` | instances for TLC |

`MCOrders`, `MCTurnsLive`, `MCOwner` and `MCStrategy` hold several modules that share no state. A
behaviour chooses a part at first and moves only that one, so that a run checks its modules side by side,
each as if it were alone, and the states add up instead of multiplying. `MCDiscovery` does the same with two
instances of one module. What is a parameter of a part stays a `CONSTANT` of `MCOrders`, `MCOwner` and `MCStrategy`, and
only the `.cfg` gives it a value: the theorems of section 4.6 and 4.7 are about these instances, for every value.

`SourceWrites` and `ManagedProtection` divide the engine. The first has many
invocations and no quantities, the second has one invocation at a time, quantities,
prices and triggers. They meet in the claim: the first shows that a former lease owner
cannot bring a second write on the asset beside an open claim, which is the reason why
the second may let one pass run after the other.

### 2.1 `SourceWrites`

A `Worker` is an invocation of `cycle`, `protectionCycle`, `cancelDeadline` or
`entrySwitch`. A step is one journal transaction, one request, or one reply, so that
`Expire` (120 s without `renew`), `Stop` (the host kills it, or a transaction throws
`execution_lock_lost`) and the steps of others fall between any two of them.

| Variables | Code |
|---|---|
| `lock` | the lease row; an expired row is a free one |
| `switch`, `view` | `entriesEnabled` and `executionArmed` of the runtime state, and the copy that an invocation read |
| `decision`, `source` | status and order of the decision records |
| `submitClaim`, `cancelClaim` | the write claims |
| `order`, `posts`, `deletes`, `sent` | the venue and the requests on their way |
| `pc`, `job`, `target`, `seen` | where an invocation stands and its locals |

* Deciding: `Begin` is `journal.begin` with what `planBuy` or `prepareExit` have required
  (`MayEnter`, `MayExit`).
* `submit()`: `Check` / `RejectBeforeSend` / `FailBeforeSubmit`, `ClaimSubmit`, `Post`,
  `PostAcknowledged` / `PostFails`, `RecordSubmit`, `SettleSubmit`, and `MarkUnknown`, the
  catch of the callers. A definite HTTP refusal is `PostFails` too: the code leaves the
  claim open.
* `lookup()`: `Find`, `RecordFound`, `SettleFound`. A scan that misses the order changes
  nothing; the model has no step for it.
* `cancelRemainder()`: `ReadEntry`, `AlreadyFinal`, `ClaimCancel`, `Delete`,
  `DeleteAcknowledged`, `RecordCancel`, `SettleCancel`; `GiveUp` for every failed await.
* Switch: `EnableEntries`, `PauseEntries`, `SaveCycle` all write the whole row back from
  the copy, as `save` does.

An order is only "live" or "final" here: no property of this module needs more.
The venue takes an order identity once, and a 204 of a DELETE does not mean that the
order is final yet.

### 2.2 `OrderOnce` and its three refinements

`OrderOnce` gives each decision a `phase`: new, refused, authorised, sent, live, final. It
authorises a decision only while no other decision on the same asset is authorised or sent, and a
request that the venue has definitely not taken may be refused after it was sent (`Reject`).
Three modules implement it, each under its own mapping `PhaseOf`:

| Module | Decisions | "Asset" | Authorised | Sent | Refused |
|---|---|---|---|---|---|
| `SourceWrites` | intents of the engine | the asset | an open `submit` claim, not sent yet | its POST has left | "absent" in the journal |
| `ManualOrders` | reviews of the owner | the whole account | `SUBMITTING`, no POST yet | it was POSTed, no order seen yet | `REJECTED` |
| `ManagedProtection` | exits of one position | the position | an open `submit` claim, not sent yet | the venue's `exit` says so | "absent" in the journal |

Live and final are the venue's in all three. Lease, crashes and lost requests are stutters. An order that is
lost stays "sent" for ever: the code can never rule it out, and `OrderOnce` never authorises
another one beside it.

### 2.3 `ManagedProtection`

One entry order, the exits of its position, its record. A pass of one of the three
handlers (`by`) is at `at`, and is split at each await.

| Actions | Code |
|---|---|
| `Start` (with `Reconcile`), `Idle`, `NothingHeld` | `protectionCycle`, `cycle`, `cancelDeadline` up to the positions; `reconcile()` records the orders that it can read, settles claims, closes a sold record |
| `Ensure`, `EnsureFails` | `ensureProtection`, `protectionRecord`; the cycle goes on without it |
| `NothingToDo`, `Latch` | `planExit`, and the trigger that `prepareExit` writes first |
| `ClaimCancel`, `CancelPending`, `CancelReply`, `CancelUnknown` | `cancelRemainder` for the entry's rest |
| `PrepareExit`, `Ready`, `NotReady` | the rest of `prepareExit`: reconcile again, every earlier exit proven over, the residual |
| `Begin`, `Claim`, `CheckFails`, `Post`, `Acknowledged`, `PostUnknown` | `begin`, and `submit`, which prepares the exit a second time |
| `DeadlineReconcile`, `DeadlineOver` | the end of `cancelDeadline` |
| `ReadFails`, `Stop`, `Blocked`, `Report`, `Finish` | errors, killed passes, the record's `blocked`, the heartbeat |

`Keys` keeps how `planExit` names an exit: the exits that are over (`exitRevision`) and
the signal, which for one reverse cross is either the pending signal's id or the latched
trigger. The statuses `watching`, `triggered` and `blocked` of a record are one, "open": the
code never branches on them, only on `closed`. The heartbeat's `idle` and `watching` are one
as well, "healthy": its reader, the gate of `submit` for entries (`revolut-venue.ts:421`), takes both. `Faults` names what may fail, so that each run
says which failures its answer covers.

A pass sells no less than the venue takes (`Least`): below `minimumQuantity` or `minimumNotional` both preparations of an exit fail
(`revolut-venue.ts:407`), and the pass reports `blocked`. The minimal notional makes this a higher number of coins at the stop than above it
(`Minimum`, `MinimumAtStop`). So a residual below the minimum is not sold, as `docs/execution-core.md:30` says: it needs the owner.
`TriggeredIsSold` therefore ends in "closed" or in such a `Residual`, whose entry and exits are all over.

### 2.4 `ManualOrders`

A `Request` is a call of `previewOrder`, `confirmOrder` or `reconcileOrder`. Its context is
read first (`PreviewContext`, `ConfirmContext`, `Identity`), together with the connection
that its trading port will send with (`bound`); then comes the transaction
(`PreviewInsert`, `ClaimSend` or `ClaimRefused`), the POST, and the row that records the
outcome (`RecordOutcome`, `PostFails`, `PostRefused`). `Connect`, `EnableRead`, `EnableWrite` and
`Disable` are the settings; a POST may be taken, lost, or taken after everybody has
given up. Each connection is an account of its own.

### 2.5 `DeadlineWorker`

One entry order, from `begin` to the end of its timer. The lease is a variable here, and all
handlers but the deciding cycle and the passes of `cancelDeadline` are one holder, "other".

| Actions | Code |
|---|---|
| `BeginEntry` to `MarkUnknown`, `StopCycle` | the end of `cycle` with `submit`: the timer's acknowledgment, then the watch's, then the claim and the POST |
| `ReceiveSchedule`, `LoseSchedule` | `/schedule`, `OrderDeadline.fetch`; it may arrive after the cycle has given up |
| `Fire`, `Answered`, `Unanswered` | `OrderDeadline.alarm` with `dispatch`: it waits 55 s for a pass, which may go on after that. An evicted object runs its alarm again (a promise of the platform) and is `Unanswered` too |
| `Cron`, `WatchFires`, `WatchAnswered`, `WakeWatch` | the object of the protection watch |
| `Busy`, `NotConnected`, `Acquire`, `NotDue`, `Reconcile`, `Found`, `NotFound`, `NothingToCancel`, `ClaimCancel`, `Delete`, `Deleted`, `Recheck`, `ProtectRest`, `Protect`, `Conclude` | `handleDeadline`, `cancelDeadline` and the `cancelRemainder` in it, step by step |
| `CancelFails`, `RecheckMisses`, `Fail`, `StopPass`, `Expire` | failed reads, a lost lease, the host's limit of 60 s |

A pass's answer is reduced to what `alarm()` looks at: a `retryAt`, the reason
`order_api_not_connected`, or neither. The job and its alarm are one variable, `timer`: they are
stored together, and only an answer with neither deletes the job. A key has one
`/schedule` request, because `begin` admits it once, so the code that merges a second
deadline into the job is never reached. Exits of the position are not in this model;
`kept` is how much of the entry its protection record knows of.

### 2.6 `Discovery`

A `Run` is a call of `runDiscovery`. It stops at each `await` that others may come between.

| Actions | Code |
|---|---|
| `Start`, `Begin`, `Release`, `Throws`, `Stop` | `acquire`, the throttle of 55 s, `release` in the `finally`, errors, a killed process |
| `Expire`, `MinutePasses` | the 90 s of the lease, the 55 s of the throttle |
| `Stamp`, `Close` | the first and the last `save()` of a run |
| `ScanFails`, `TrialsUnread`, `Scan`, `ScanSlow` | from the reading of the public list to the `save()` that ends the scan: the list fails or is refused, `pairs()` fails, two markets are read, fewer are read because 8 s have passed |
| `Export`, `NoExport`, `Check`, `Write`, `WriteUnheard`, `Verify`, `ExportFails`, `Acknowledge` | `pending()`, `syncSheetEvents()` request by request, `acknowledge()` |
| `WriteLate`, `TypeByHand` | a request that was given up and still carried out; somebody else in the sheet |

`heard` says whether the reply to a commit arrives: without it the run throws although the save has
been made. `stored` is the runtime row, and the `runtime` of a run is the copy that it has read and
alters; `save()` writes it whole, and the copy takes the next free row from the transaction.
An event is its place in `journal`, and the sheet has these numbers in its first column. `known` keeps
of `universe.pairs` whether a pair was in the first list ("baseline") or came later ("new"), and `seen`
the pairs of the last list, which the limit on shrinking replies counts. `turns` keeps the
order of `marketAttempts`. A trial is "on" or "over": what a reading of the market does in between is in
`PaperPair`.

The reading of the list, the trials and the markets and the save after them are one step. In between
only the lease can be lost, which makes the save fail (`Throws`); nobody else can have saved while the
lease lasts, so that what was read is what a read at the save would give.

### 2.7 What the strategy decides on

`RiskRules` (`risk.ts`). The code knows the account by its valuations alone, and rebuilds from them, the
deposits and the withdrawals what trading has won or lost. The model keeps beside each valuation what the
code cannot see: the account is a fund, trading changes the value of a share and a transfer the number of
shares. `Observe`, `Transfer`, `Close` and `Tick` are the world; `Evaluate` is `evaluateRisk` with its
latches and the entry that follows, `EvaluateIncomplete` one that lacks data. Trades are reported in any order and sorted as `uniqueTrades()` does, by closing time and name: a trade has a place among them (`Place`),
and a streak is what has no other kind of trade behind it (`Trailing`). Berlin days differ in
length.
The latch counts at evaluations: two losses and then a win between two of them reduce nothing, and the property
speaks of the trades as they are when an entry is made.

`EntryRules` (`planner.ts` `planBuy`, `costs.ts`, `protection.ts`, and `submit()` of `revolut-venue.ts`). An entry takes five steps:
`Read` (`account()`) and `Decide` in `cycle()`, then `Read` again, `Check` (the second plan, `revolut-venue.ts:429-430`) and `Post`
(`revolut-venue.ts:442`) in `submit()`, where the schedule of the watch and the claim of the write are awaited between the last two;
`Refuse` drops it at any of them. Between any two of the steps prices `Move`, orders `Fill` or are `Cancel`led, `Protect` sets stop and
target of what has been filled, `Sell` ends a position. Rounding is modelled as the code does it.
What the check knows at the POST is thus only what the account was when it was read (`checked` keeps its value), and `EntriesFit` is stated
with that value: an entry that `planBuy` found within the exposure limit of the account leaves, when it is sent, at least the rest of that value
in cash that nothing has a claim to. It says nothing of the value of the account at the POST, which prices may have changed by then.
`Read` is one step although `account()` awaits balances, orders and prices one after another. A fill between balances and orders makes the
two disagree, and this blocks the entry (`managed-protection.ts:40`, `revolut-venue.ts:252-255` and 270); a cancellation between them only makes less
available than a reading after it; prices move freely and may be those of any moment.

`ScanCycle` (`runner.ts` 35-113, `strategy.ts`, `feed.ts`). `Begin` reads the runtime and chooses the order
of the symbols under a first lease, `Fetch` reads as many as the time allows with none, `Commit` applies them
under a second one to the state that is current then, which another scan may have advanced. The averages are a function
of the candles applied, so that a sequence of candle numbers stands for the indicators. `ScanUnconnected` is
the scan of a host with no account. Symbols of positions come first: as positions open and close, the order of the
scan changes under its cursor.

`PaperPair` (`discovery/paper.ts`). `Read` is one market reading applied to both trials of a pair: it may be late,
repeated, of an older book, or have failed. The observations in hand
are a set, since the code only asks for the first, the last and the worst of them; what a side of a book yields is a sum over its levels. `log` is the history of what each reading was worth.

`SourceAccount` (`account()` of `revolut-venue.ts`, `sourceTradeResults` of `accounting.ts`). `ReadBalances`,
`ReadOrders`, `ReadDetails`, `Return` are the answers in the order in which they are collected, while orders fill and end.
An order that fills between the list and its verification makes the reading fail. One that fills after the
balances were read does not: it only moves the border between managed and own coins of one balance.

### 2.8 The records of the account

`SourceLedger` (`account-evidence.ts`, `accounting.ts`). A refresh begins with the row it has read, reads balances, the
transactions and the balances again (`Begin`, `ReadList`, `Finish`), and commits by a compare-and-set (`Commit`, or `Drop`).
The venue announces transactions late, settles, cancels and reverses them. An observation is represented by the holdings it
values, and the history is a set of them: each has its time, and the code keeps it sorted by that. Assumed of the venue: a balance response is its state at the observation time it states.
Four things that the code does are visible in the model, and are in its properties as exceptions:

* `fresh(anchor.at, ...)` demands a whole number and `anchor.at` has a fraction (`account-evidence.ts:15`), so the
  skip of refreshes within 15 s is taken only by anchors on a whole second; it is the same refresh again otherwise.
* The compare-and-set goes by `checkedAt`, whose resolution is a second: two commits within one do not see
  each other (`SameSecond`).
* A transaction from before the opening that is reversed before the first snapshot counts as never made (`Void`).
* A completed transaction from before the window that a refresh reads (a day, and a little more than the time since the last snapshot) is
  looked at again only through the balances. Reversals of such transactions between two snapshots that make up for each other in every balance pass
  that comparison, and what they took back stays in the history (`Offset`).

`SourceArchive` (`source-archive.ts`). `Sync` files one page of the venue's list and moves cursor and window in the same
transaction; `ReadFails`. Transactions appear late, a page may be answered from a reading that is behind, a cursor may come
back. A page is the set of the first `PageSize` transactions in the list's order, and the cursor names the last of them. Assumed of the venue: a listing is at most the overlap of 300 s late, and a page is complete as of the
time it names (`sourceAt`).

### 2.9 The owner's side

`OwnerSessions` (`auth.ts`). A `Request` is a login, a renewal, a logout, a change or a confirmation of the password; its steps are
the statements and transactions of the code (`ReadOwner`, `Reauthenticate`, `Attempt`, `InsertSession`, `Renew`, `Logout`,
`ChangePassword`, ...), and it may `Abandon` at each. Hash and version of the password change together and are one number.

`PublicFeed` (`cached()` of `services.ts`). `Miss` is the read outside the transaction, `Lock` the row lock and the second
look, `Load` and `Keep` the load after its pause, `RollBack` and `SessionTimeout` the ways in which a load fails. A failed
load rolls back the time that paces loads too, so that a load after a failed one is not kept apart from it: the property says "the last one that was kept".

`SimulatedAccount` (`services.ts`). The row has totals only; what is reserved follows from the partly filled orders. `Settle` is
one transaction: an order that is filled, or half of it. An id on file is answered from file.

## 3. What TLC checks

| Run | Instance | Question |
|---|---|---|
| `source_writes` | 2 invocations, an entry and 2 exits of it, one asset | one POST per decision, one open write and one live order per asset (`OneAtATime`), absent and settled are proofs (`OutcomesProven`), records never regress, switch and pause bind (`SwitchBinds`), `OrderOnce` is implemented |
| `orders` | `ManualOrders`: 2 reviews, 3 concurrent requests, 2 connections. `ManagedProtection`: 2 quantity steps, of which the venue takes 1, or 2 at the stop, at least; every fault | sent once and one in doubt, rows tell the truth, the reviewed account, `OrderOnce` for the account with the switch at each authorisation (`AuthorisedOnce`); never oversold and no blind repetition (`SoldOnce`), closed is sold and the record is behind the venue (`RecordIsTrue`), the trigger is durable and latched (`TriggerKept`) |
| `managed_protection_live` | 3 quantity steps, of which the venue takes 2 at least; passes killed or failing a read before an exit is begun | a triggered position is sold in the end, but for a residual below the minimum |
| `managed_protection_strands` | 1 quantity step; a failed read in `submit()`'s checks | the same property, **violated** |
| `manual_orders_swap` | the instance of `orders` | an unresolved order can be looked up, **violated** |
| `deadline_worker` | 2 overlapping passes, 1 quantity step | the timer outlives the entry, hands it over, the watch stays awake; an expired entry ends, and its timer after it (`DeadlineServed`) |
| `discovery` | 2 runs; 3 pairs and 2 events without an export, or 1 pair and 2 events with a sheet that others type into | pairs announced once, with trials for each new pair and no other (`NewPairsOnce`), nothing forgotten; one row each, synced is in the sheet, typed is kept |
| `turns_live` | 1 run at a time, 3 pairs, 1 market per run; 2 scans of 3 symbols | every trial has its turn, every symbol is read |
| `discovery_export_live` | 1 run at a time, 2 pairs, 2 events, exports of 1 event | every event gets into the sheet and is marked |
| `discovery_failed_scan` | 1 run, 2 pairs | a failed scan leaves the universe as it was, **violated** |
| `owner_side` | sessions: 2 requests, 2 tokens, 2 addresses, 2 passwords; feed: 2 callers, 2 keys; 3 simulated orders in 2 coins; ledger: 1 refresh with 2 transactions, or 2 with a third one; archive: 2 transactions over 6 ticks | sessions are of the present password and none returns, attempts are bounded; loads are coalesced; reservations are covered; the history is true and is not unwritten; no record is skipped |
| `strategy_side` | risk: 2 days, 3 valuations, 6 events; entries: 3 symbols, 2 positions, 3 entries; candles: 2 scans of 1 symbol, 5 candles; trials: 4 readings of 2 books; account: 3 coins, 2 exits | a day's loss stops the day, the full share is earned; entries fit, stops protect; trials are earned; candles are applied in turn; results are cash |

### 3.1 The bounds, and why they are enough

* *Two invocations.* Every guard of the journal speaks of the caller, the lease's owner
  and the claims. Two are the former and the present owner; what a third could add it adds by
  what it leaves in the journal, and each invocation may run any number of passes. The
  theorems remove this bound.
* *Three decisions on one asset.* Nothing relates assets except `Unresolved`, which only
  forbids. An entry and an exit, and two exits of one position, are the pairs that may
  collide; two entries meet the same claims. The theorems remove this bound too.
* *Two quantity steps* of `ManagedProtection`. With two, an entry fills partially, an exit fills partially, and
  a residual exit follows an exit; with one none of this happens. There can be at most
  `Ordered` exits that end with a fill, so `Keys` counts to `Ordered`. The run of liveness has three steps and a minimum of two, so that
  an exit leaves two that are sold by another, or one that is not; its minimum is the same at every bid, because a
  pass that has begun an exit and finds the bid below its minimum consumes the key (`CheckFails`), which is what
  `managed_protection_strands` is about.
* *Three requests, two reviews, two connections.* Two requests collide on one review, the
  third confirms or queries the other one; a connection has something to be replaced by.
* `posts` in `ManualOrders` stops at two, one more than is ever allowed. `sent` in `SourceWrites`
  is not bounded: it never exceeds one, which is what is checked.
* *Two overlapping passes.* An object waits for one pass; the other is one that it has given up
  on. Three would be two abandoned ones, which differ in nothing. One quantity step is enough to
  cancel an entry that has bought something unknown to its record; partial fills are in the theorems,
  which remove both bounds for the safety properties.
* *Discovery.* Two runs are one that outlives its lease and its successor. `LastRow` bounds the journal
  (a save that needs a further row fails): two events are a new pair and another, or a pair and the failure
  of its scan, or two that would collide in a row. `BatchLimit`, `MarketsPerRun` and `ShrinkFloor`
  stand for 60, 2 and 10; they are 1 or 2, so that a batch leaves events out, a trial waits for its turn and
  a reply is refused with so few pairs. Of three pairs one is in the first list, one is new and one
  makes a reply shrink. In the runs of liveness one run at a time is enough: a second one cannot start
  while the lease is held, and one that has lost it can save nothing. The theorems remove the bounds for what they state.
* *The strategy side.* Three valuations are one at midnight, a loss and a recovery or a transfer; six
  events leave three trades for the streaks. Three symbols compete for two positions. Two scans are a late one and its successor, and
  signals lie on the first candle after the first read and two later. Four readings of a trial's market are those of an entry of the
  delayed trial, which takes three, and its exit, or of one with a gap.
* *The owner's side.* Two requests are all that can meet on one password, token or counter; one attempt per address and two of all
  addresses put both counters at their limit. The feed runs for seven ticks of a gap of two: the time of a load, a second
  one, and the end of freshness. Three simulated orders are two that reserve and one that finds too little.
  Two transactions of the ledger are a transfer and one beside it that changes late, and both may be reversed (`MaxReversals`); two refreshes
  collide on one row. The excepted case `Offset` does not arise in this instance, since it takes a longer time than a window reaches back: here
  the history is true without an exception (with a window of one tick and a fifth instant the case does arise). The theorem covers both. Six ticks of the archive
  are more than one window.
* Symmetry: invocations, runs, pairs, reviews and requests, tokens and addresses, symbols of entries are
  interchangeable. It is used in no run with a liveness property.

### 3.2 Fairness

Only `managed_protection_live`, `managed_protection_strands` and the runs `deadline_worker`, `turns_live` and
`discovery_export_live` assume any.
For the first two:

* The alarms of the protection watch are persistent and set themselves again, so a pass
  starts again and again (`SF` of `Start("protect")`; strong, because passes of the other
  handlers, while they hold the lease, disable it).
* A pass may be killed or fail a read at each of its steps before an exit is begun, though
  not for ever at the same one: `SF` of the steps up to `Ready`. Weak fairness would allow
  every pass to end there, which no code can outlast.
* Once an exit is begun, neither of the two runs kills the pass, and it goes on (`WF`).
* The venue works on what it has accepted: it takes a sent exit, fills or ends a live one, and
  ends an entry whose DELETE it has.
* Nothing is assumed of the bid, of signals, of fills of the entry, of the owner.

`deadline_worker` allows any number of disturbances (`Disturbance`: unanswered calls, failed reads, killed
passes, lost requests, calls that meet a busy lease, passes that outlive their own), but not for
ever: a source that never answers cannot be cancelled at. Without a disturbance an alarm
fires (the platform runs every alarm at least once), a pass goes on, its answer arrives, the
venue acts on a DELETE (all `WF`), and a called pass gets the lease though other handlers take
it again and again (`SF` of `Acquire`). The one exception in `DeadlineServed` is real: a DELETE that was
lost, or a pass that ended between its claim and its DELETE, leaves the claim open, and no other
DELETE is ever sent (`CancelLost`). The timer keeps firing even then (`TimerOutlivesEntry`), so that the
fills are protected and the end of the order, whoever brings it about, is recorded.

`LiveSpec` of `Discovery` has the same form. A run may fail, be slow or lose its lease any number of times, not
for ever (`Disturbance`). Otherwise the worker's cron starts a run when none holds the lease, a run
goes on (`WF` of `Step`), and the lease of a run that was stopped and the throttle expire, since clocks do.

The scans of `turns_live` start and read (`WF` of `Begin` and `Fetch`), since the scheduler calls every 300 s, and commit again and
again (`SF` of `Commit`): a scan may lose the lease or its reading of the account, but not every time. Scans with and without a connected account
order the symbols differently and share the cursor; they do not alternate for ever. The same holds of
positions: each that opens or closes reorders the scan, and there are finitely many such changes (one, in the instance). The code states neither; if either
went on for ever, a symbol could be passed over again and again.

### 3.3 The three violations

`managed_protection_strands`. `submit()` prepares the exit again before it claims the write,
and when any read of that check fails, it records the decision "absent"
(`revolut-venue.ts:436`). The next pass computes the same key, since no exit has ended and the
trigger is latched (`planner.ts:83`), finds the decision (`managed-protection.ts:97`) and
goes on without an error. The position is never sold and the heartbeat says `watching` (in the model: healthy), while
`docs/execution-core.md:29` says that a latched exit continues.

`manual_orders_swap`. `confirmOrder()` compares the connection with the reviewed one before
its transaction (`trading.ts:80-82`); the transaction checks the row, the other orders, the
expiry and the switch again, but not the connection. A connection that is replaced in
between, with live orders switched on again, leaves an order on an account that is no longer
connected: `reconcileOrder()` refuses to look it up, and `connectRevolut()` refuses to connect the
old account because an order is unresolved. `tests/trading.test.ts:126` asks for the refusal, but
replaces the connection only before the call. The order still goes only to the account that
it was reviewed for (`ReviewedAccount` holds).

`discovery_failed_scan`. `runDiscovery()` alters its copy of the runtime as soon as the list has been read
(`discovery/service.ts:65`), before it reads the trials (`service.ts:70`). When that read fails, the
`catch` records `scan_failed` with `baselinePreserved: true` (`service.ts:104`), and the save stores
the new universe nevertheless, with the announcement of the new pair and without its trial. Later scans
know the pair, so it never gets one. `NewPairsOnce` excepts just the pairs announced in such a scan.

## 4. What is proved

The eight proof modules are checked by TLAPS without any assumption but those below. Each is an `ASSUME`
of the module or of its instance, and TLC evaluates it in every run that uses the module.

| Assumption | Says |
|---|---|
| `KeyAssumption` | entries are decisions, each decision has an asset, an exit sells the position of an entry of its asset |
| `NoneAssumption` | `None` is neither an invocation nor a decision |
| `ProtectionAssumption`, `OrdersAssumption` | the quantity is positive, the faults are among the named ones; the venue takes no less than some positive quantity, and at the stop no less than above it |
| `ManualAssumption` | `None` is neither a connection nor a review |
| `DeadlineAssumption` | the quantity is positive; the names of lease holders are no passes |
| `DiscoveryAssumption` | `None` is no run, the names of other events are no pairs, the limits are positive, the sheet has a row below its header, pairs are finitely many |
| `NumbersAssumption` | limits and times of the sessions are natural numbers, the limits positive; a session is renewed before it ends |
| `FeedAssumption` | the gap is a natural number; "free" is no caller |
| `SimulationAssumption` | orders are finitely many, amounts and prices natural numbers, the euro is no coin |
| `ArchiveAssumption` | sizes and times are natural numbers, a page and the overlap are positive, a listing is at most the overlap late (the assumption on the venue of section 2.8) |
| `LedgerAssumption` | transactions are finitely many, balances and amounts are integers, a day has a length; what crosses the boundary of the account moves a balance, and is what `Flow` makes of a transaction whose amounts are all known |
| `EntryAssumption` | symbols are finitely many, prices and units positive, limits natural numbers; a share of the account is at most all of it, and a fee at most all of what it is taken of |
| `RiskAssumption` | the value of a share and the number of shares are positive, the limits natural numbers |
| `CandleAssumption` | the first read asks for at least one candle |
| `PaperAssumption` | the levels of the books have prices and sizes, times and limits are natural numbers |
| `AccountAssumption` | prices and fees are integers, exits are finitely many |

Sets of invocations, decisions, assets, reviews, requests, connections, passes, runs, tokens, callers, keys of the feed,
books, prices and readings may be of any size, infinite ones included.

### 4.1 `SourceWrites_proofs`

None of the properties is inductive: "sent at most once" says nothing of an invocation that
is about to send. `IInv` adds what such an invocation knows:

* `Jobs`: locals exist where the handler uses them, and a decision has one submitter, because
  only `begin` on a fresh key makes one;
* `Sending`: a request leaves after its claim, an order follows its request, a
  settled claim follows its order, and an invocation at `claimed` has not sent yet;
* `Sights`: what an invocation has read is an order of the venue, perhaps an older sight of it;
* `Records`: what the journal says of an order is such a sight too;
* `Leased`: what an invocation between its checks and its claim relies on still holds *if*
  its lease does. Here lies the argument that the lease is only needed up to the claim;
* `OneOpenWritePerAsset` and `OneOutstanding`: claims exclude one another, and therefore so do the
  requests and the live orders of one asset.

There is one lemma per conjunct, with a step per action; `Invariance` combines them. From it
follow `PostedOnce`, `OneWriteAtATime`, `OutcomesAreProven`, the action properties `RecordsNeverRegress` and
`SwitchIsBinding`, and `Refinement`: under `PhaseOf` each step is a step of `OrderOnce` for one decision or a stutter
(`PhaseStep`, `MoveIsStep`).

### 4.2 `Orders_proofs`

Of `ManualOrders`: `IInv` joins `TypeOK`, `SentOnce`, `ReviewedAccount` and `OneOutstanding` to four parts:

* `Rows`: the row, the POSTs and the order of a review agree;
* `Wire`: a POST on its way is the only one of its review, which nothing has resolved, and
  carries the reviewed account;
* `Knowledge`: what a request has read is still true at each of its steps: its
  connection is the reviewed one, the row that it has claimed is `SUBMITTING`, the outcome that
  it has seen exists. This is why `RecordOutcome` may write without looking;
* `Alone`: one request sends a review.

The theorems are `ManualSentOnce`, `ManualOneOutstanding`, `ManualSentAlone`, `ManualReviewedAccount`,
`ManualOutcomeIsTrue`, `ManualSwitchHolds` and `ManualRefinement`.

`ManualRefinement` is the implementation of `OrderOnce`: a confirmation looks at the rows and not at the venue, and
`DoubtIsUnresolved` shows that whatever may still be about to reach the venue has a row that is
unresolved. `ManualPhases` lists what each step moves, `ManualMoveIsStep` makes it a step of `OrderOnce`.
`ManualAuthorisedOnce` joins it with the switch, as the run `orders` checks it.

`MCOrders` contains `ManagedProtection` as an instance. `SameSteps` shows that the instance takes the steps of the
module, and `PositionSoldOnce`, `PositionRecordIsTrue` and `PositionTriggerKept` carry the theorems of section 4.5 over to
the properties that `orders` checks.

### 4.3 `DeadlineWorker_proofs`

`TimerOutlivesEntry` is not inductive: it says nothing of the pass whose answer will drop the
timer. `IInv` adds `Arming` (the timer is armed once, before the claim), `Sending` (the
order follows its POST, the POST its claim), `Decided` (a decision is "absent" only if
nothing was claimed, and "final" only if the order is) and `Passing`: what a pass has seen, and what it
has answered, stays true until it is heard, which holds because the end of an order and
the refusal of an entry are final. There is one lemma for each party, with a step per
action. The theorems are `TimerKept`, `TimerHandsOver` and `WatchStays`.

### 4.4 `Discovery_proofs`

`SyncedIsInSheet` and `TypedIsKept` fail to be inductive because of batches that have been checked and not
written, or written and not acknowledged, and `NothingForgotten` because of the copies of the runtime. `IInv`
adds:

* `OneRowEach`, which makes two batches that land in the same row write the same event there;
* `BatchesAreSafe`: all of a batch is in the sheet when it is acknowledged, and nothing typed is in its
  rows when it is written, or may still be;
* `HolderIsCurrent`: a run that holds the lease has the stored runtime. So `assertOwned` in `save()` is what keeps
  a late run from writing its old copy;
* trials are made for "new" pairs only.

Everything that is stored goes through `save()`: `SaveKeeps` proves once what it preserves if its caller owes it
`Owed`, and `MarketsOwe` and `ScansOwe` show that each scan does. `MoveKeeps` has the steps that change neither what is stored
nor the sheet, `LandKeeps` the writes, early or late. The theorems are `RowsForGood`,
`ExportedIsInSheet`, `NothingIsForgotten` and `TypedSurvives`.

`NewPairsAnnounced` states `NewPairsOnce`, which says that a pair has at most one event and trials only with it. `NInv` adds
to `IInv` that a pair has an event just when the *stored* universe knows it as new (`Announced`). A save
announces a pair only when its own copy does not know it, and by `HolderIsCurrent` that copy is the stored one.

### 4.5 `ManagedProtection_proofs`

`NoBlindRepeat` says that an exit is on its way only when all exits before it are over, and `TriggerIsDurable` that an
exit was decided only with a trigger on record. Neither says what the pass that is about to decide has seen. `IInv` adds
`Armed` (from the latch to the end of a pass there is a trigger), `Recorded` (what was sent was decided) and `Checked` (when a pass decides,
and when it sends, the other exits are still over, as it has seen them). The venue can disturb none of them: what is over stays over, which
`VenueKeeps` shows. The theorems are `NoExitOnDoubt` and `TriggerSurvives`, for any quantity and any set of faults.

`OversellsNever` and `RecordTellsTruth` speak of quantities. What all exits may have sold at most (`Total`: what an exit that
is over has sold, what any other may still sell) has to stay below what the entry has bought, and `SInv` says where that is decided:
`Room`, an exit about to be sent fits what is left beside that sum; `Fresh`, its key has not been used, so that the sum does not hold
it yet; `Claims`, what is on its way has an open claim; `Bounded`, no exit fills beyond its quantity. `OneExitChanges` is the step of the sum. The record follows the venue (`RecordBehindVenue`), and is closed
when its entry is over and what exits have sold is what it has bought (`ClosedIsSold`): both are final.

`ProtectionRefinement` is the implementation of `OrderOnce` by the exits of a position. `Prepared` is what it needs beyond the two
invariants: a key that was never decided has no claim, and a pass between `begin` and its claim still finds the decision
attempting and unclaimed, though reconciliations rewrite the records (`ReconcileShows`: only those of orders that
exist). `DoubtIsUnsettled` says that an exit in doubt is one that `Checked` does not count as over. This property
is not listed with a run: on the instance of `orders` TLC finds it true, but takes as long again as for the rest of the run.

### 4.6 `Owner_proofs`

*Sessions.* `SessionsOfPassword` is kept by every statement that writes, since each looks at the version of the password in its own
transaction; the invariant adds only what requests carry (`Typed`, `HashRead`, `TokenNamed`, `RowsSound`). `ReplacedForGood` is `NeverRevived`: a renewal
is an update and never an insert, and it takes the later of two ends. `AttemptsAreBounded` counts: all attempts let through lie before the counter's next reset, which is
at most a window ahead, and those of the last `Window` ticks are no more than the counter says (`Counted`).

*Feed.* `Coalesced` needs that a caller that pauses before its load still holds the lock, for a key that is still missed, and wakes a gap
after the time in the lock (`Pausing`), and that this time is that of the last load that was kept (`LastKept`).

*Simulation.* `SimulationIsSolvent`: the totals of the row are what the orders on file have moved and what they reserve (`AccountInv`), for every coin and the
euro, and `SettleAdds` shows that an order adds to both exactly what its check has required to be free.

*Archive.* `NothingSkipped` speaks of the archive; `ArchiveInv` says why a page may be left behind. All that was made before `scanned`, less an
overlap, is filed, a window begins no later than that (`Sure`), and what a window has not filed is behind its last page in the list's order (`PageComesFirst`,
`PageEnds`). A late listing is younger than the overlap, and so not behind any window.

*Ledger.* `HistoryIsKept` is `HistoryKept` for any number of overlapping refreshes. A refresh that is about to commit carries
a row that keeps all of the row it began with (`LedgerInv`), whatever was read in between and wherever it failed (`FailedKeeps`, `ExtendedKeeps`); the
compare-and-set lets it commit only over that row, or over one of the same second. The excepted case is in the property (`SameSecond`).

`HistoryIsTrue` is `TrueHistory`, for any transactions, currencies, amounts, windows and number of refreshes. It needs that the row, the row a refresh began with and the one it is about
to commit are each true of the account (`HistoryInv`, `RowTrue`). Three facts carry it. What the account held and what crossed its boundary at a time that
has passed does not change (`PastIsFixed`, `HeldIsHolding`), so that an observation once true stays true (`TruthStays`). An extension is refused while anything it has
examined is unfinished or reversed, so that all that took effect since the last snapshot is known to it (`Settled`). And the walk back from the new
balances ends at the old snapshot only if what was reversed in between sums to zero (`WalkBack`, `ReversalsCancel`): then nothing was reversed, and each observation on
the way is the account's (`ObservationsMade`, `CrossedThen`), or it is the excepted case (`Offset`), which no later extension takes back (`OffsetStays`).

### 4.7 `Strategy_proofs`

*Entries.* `StopsHold` is `StopsProtect`: `LossAccepted` is inductive beside the shape of the state, because a stop is rounded up twice, to a whole price and
to a price step (`CeilDivIsUp`, `UpToIsUp`, `StopAccepts`); that a stop never falls is in `ProtectKeeps`. `EntriesStayWithin` is `EntriesFit`. It
needs that the budget of an open buy pays for what is left of it with fees, whatever has been filled (`SpendInv`, `BudgetOfRest`): only then does the exposure
of a reading count all that its orders may still cost (`ReadingStands`). Nothing that moves, fills, is cancelled or sold takes of what is available or
adds a position (`OthersLeave`): a fill costs at most what was set aside for it at the limit, and a sale brings at least nothing. So a reading keeps standing (`ReadInv`), what
the second plan of `submit()` checked with it fits (`CheckFits`), and still fits when it is sent (`CheckInv`, `OthersKeep`, `PostFits`).

*Risk.* The code links the returns between valuations to an index and never sees a share. `IndexTelescopes`: after any deposits and withdrawals the index of a
valuation stands to that of another as the values of a share do. `LossesStopTheDay` (`LossStopsTheDay`) and `ShareFollowsTrading` (`ShareIsEarned`) follow from
it: a fall of the index since the day's first valuation, or from its highest point (`PeakIsHighest`), is a fall of the share. For the streaks, `TrailingCounts` shows that the
places of trades count those since the last one of the other kind.

*Candles.* `CandlesAppliedInTurn` (`AppliedInTurn`): the candles applied to a symbol are consecutive, and what a commit
applies to the state it finds goes on from there, whatever state the scan had read before (`BarsAreReplayed`).

*Trials.* `PaperTrialsAreEarned` (`TrialsAreEarned`): the observations in hand are a run of the last readings with no pause in it, or a failed one
alone (`Windowed`), and a trial's result was watched from its entry to its exit (`TrialSound`).

*Results.* `ResultsAreCash` (`TradesAreCash`): what a reading under way has seen of an order that ended is final and complete (`Reading`), exits follow one another
(`InTurn`), the journal knows every order at the venue (`Journalled`), and a trade that is over stays as it was reported (`Returned`).

### 4.8 `SumTheorems`

Sold quantities, reservations, exposures, budgets and depths are sums over sets of any size. The library's induction takes an operator as a
parameter and cannot be instantiated here; `SumTheorems` replaces it by the smallest counterexample: among the finite subsets on which a claim fails there is one
with the fewest elements (`SmallestSet`), and taking an element from it gives a smaller one on which it holds. `SumsExist` and `SumsAreUnique` give the sums of
`SumFunction`, and `SumSplit`, `SumChange`, `SumMonotone`, `SumScale` what the proofs use of them. `LeastNumber` and `GreatestValue` serve the proofs about
places in sequences in the same way.

### 4.9 Only model-checked

* `TriggeredIsSold`, `DeadlineServed`, `EventuallySynced`, `TurnsComeRound`, `EverySymbolRead`: liveness, and so `ENABLED`, is out of the
  prover's reach.
* The two properties that the runs `managed_protection_strands` and `manual_orders_swap` find violated, and that of `discovery_failed_scan`.

## 5. What is not modelled

* Real time, except where a module has a clock (`OwnerSessions`, `PublicFeed`, `RiskRules`, `PaperPair`, `SourceLedger`, `SourceArchive`). Elsewhere leases,
  reviews and deadlines expire at any moment. The age of the heartbeat that entries depend on is a relation of durations and only restricts the
  models.
* `ManagedProtection` has no prices: `Sellable` takes any quantity from the minimum up to the
  residual, which covers reservations by the owner and the venue's maxima; the minimum has two values, one for bids at the stop and one for those above.
  An instrument that is inactive (`revolut-venue.ts:403`) and a reservation that leaves less than the minimum
  end a pass as a failed read does (the faults `read` and `check`); the liveness run has the first of them, not for ever at the same step, and
  leaves out the second, whose effect is the finding of `managed_protection_strands`. The module has one position, and `SourceAccount` one trade: positions meet
  in the claim of an asset (`SourceWrites`) and in the budget (`EntryRules`).
* The switch's two leases: `entrySwitch` checks the risk under one and turns entries on under another (`host.ts:82-99`). It only allows the attempt;
  every cycle evaluates the risk again before an entry.
* Averages, the ranking of candidates, slippage, increments of a manual order, parsing of market data: decimal arithmetic or formats, on
  which no step of another part rests. What they yield is an input.
* The cron tick of the strategy, and the merge of two deadlines of one key (see 2.5).
* Archived fills (`account-evidence.ts` 99-117), the blockers that `account()` takes from the ledger (`revolut-venue.ts` 246-292), valuation
  candles, the limit of ten filled orders, the readings that a report makes without a lease. Events, audit rows and the history
  of heartbeats are written and not read by a decision.
* The owner's own orders on the assets of the engine, except that they are allowed to reserve
  coins, and what the owner spends or withdraws between the reading of the account and the POST of an entry (`EntryRules`): the venue refuses what
  the cash does not cover.
* Changes by others to rows that have an event, and typing while an export is under way. Between its
  check and its write `syncSheetEvents()` cannot see a cell that is filled by hand; the sheet has no
  conditional write, and the code asks for a tab of its own (`discovery/sheets.ts:52`).
* Storage, encryption, request signing, pages, reports and the scripts that are run by hand: they have no
  state that a step of the system decides on.

## 6. Plan

In the order of their weight:

1. `ExecutionCycle`: durations of watch and cycle, so that the age of the heartbeat becomes a property; with the decisions that
   stay `attempting` and block entries. Composes with `SourceWrites` by its decisions.
2. `LossAccepted` carried from `EntryRules` into `ManagedProtection`, which would give its triggers prices.
3. Two positions in `ManagedProtection` and two trades in `SourceAccount`.
4. The archive of fills beside `SourceArchive`, and the blockers of `account()`.
5. Reference definitions for averages and crosses (`ScanCycle` takes them as given) and for the classification of the broker's
   errors.
