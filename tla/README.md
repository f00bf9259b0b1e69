# A TLA+ verification project for outbound-api

`outbound-api` is a trading bot: it listens to one-minute bars of the symbols on
a watchlist, decides on buys and exits, places market orders at Alpaca and keeps
its books in PostgreSQL. Five workers evaluate bars at the same time; the broker
answers late and over another connection; the process may die between any two
statements. These modules model the parts where that matters, TLC checks them on
small instances, and TLAPS proves the central invariants for any number of
workers, symbols, transfers and identifiers.

There are five state machines, which share no variable: the live path (`TradeLifecycle`),
the switch (`BotController`), the subscriptions (`StreamSupervisor`), the exits on prices
(`ShadowExits`), and the entries on indicators and news (`SignalService`). Where the live
path takes a decision freely (a level is met, the layers pass), one of the latter two says
how the decision is made and under which interference.

## 1. The system

| Component | State it keeps | Operations | Interacts with |
|---|---|---|---|
| Trade service (`service/trade_service.go`) | none of its own | `ExecuteBuyTrade`, `EvaluateAndExecuteExits`, `ApplyTradeUpdates` | repositories, transactor, broker |
| Repositories (`repository/*.go`, `database/transactor.go`) | rows of `trades`, `signals`, `account_transfers`, ... in PostgreSQL (READ COMMITTED) | one SQL statement each; several in a transaction through the context | PostgreSQL |
| Live coordinator (`strategy/live_coordinator.go`) | none | `EvaluateBar`: exits, buy signal, budget, buy | services |
| Signal service (`service/signal_service.go`), one for the live and one for the shadow path | none | `EvaluateBuySignal` (writes a signal), `PreviewBuySignal` | indicators, sentiment, repositories |
| Trade updates (`alpaca/alpaca.go`, `alpaca/mapper.go`, `main.go`) | channel of 64 updates | non-blocking send, one consumer | broker stream, trade service |
| Bot controller and HTTP API (`bot/controller.go`, `http/handlers.go`) | one atomic state | start, pause, stop, status | workers read it once per bar |
| Bar workers (`main.go`) | channel of 200 bars, five goroutines | take a bar, look at the switch, evaluate | coordinator |
| Stream supervisor (`alpaca/stream_supervisor.go`) and watchlist refresh (`main.go`) | desired symbols, current client, retry delay | reconnect, subscribe, unsubscribe, re-seed | Alpaca SDK, watchlist table, indicator cache |
| Shadow coordinator (`strategy/trading_coordinator.go`, `adaptive_exit.go`) | `peak_price` of trades, `shadow_exit_decisions` | adaptive exits, previewed buys | repositories |
| Indicators (`indicator/*.go`, seeded in `main.go`) | EMA, RSI, yesterday's RSI, ATR per symbol; regime flag | seed, get | watchlist refresh and daily re-seed, signal service |
| Sentiment (`sentiment/*.go`), one provider for each path | result cache with a lifetime | analyze | news, LLM |
| Configuration, pool, migrations | read once | | |

What is hard about it, and the property that makes each part correct:

* **Slots.** Every account transfer pays for `target_trades` positions.
  `remaining_trades` is decremented with the insert of a buy and incremented by
  whoever finds out that the buy came to nothing: the worker (refused order) or
  the consumer of events (rejected, cancelled). Each slot has to be given back
  exactly once, through rollbacks, replays and crashes.
* **Exits.** Several workers may see the same open buy. There must be one sell.
* **Rows and orders.** A row is written before its order is placed, and learns
  the order's id only afterwards. Rows and broker must not contradict each other.
* **Whole-row updates.** `tradeRepository.Update` writes every column from a copy
  read earlier, outside the transaction. Two such writers of a row would undo each
  other.
* **Events** arrive late, twice, or not at all; the channel drops what it cannot
  hold.
* **The switch** is two compare-and-swaps in `Start` and `Stop`, and a single read
  in the workers.
* **Subscriptions** change while the stream reconnects.
* **Two exit paths.** On every bar the shadow path moves `peak_price` and logs what an
  adaptive stop would have done, then the live path sells. Both lock the same rows, other
  workers do the same, and the consumer rewrites whole rows. What was logged must stay true,
  and nothing the shadow path does may stop the live one.
* **Levels.** The effective stop goes from the static stop over the entry to a trailing
  distance below the peak; it must not leave the range they span.
* **Caches.** Two goroutines re-seed the indicators while five workers read them; the verdict
  on the news is kept for a lifetime, calls to the analyzer take long, fail, and overtake
  each other. A signal must come out of one day's indicators, and not out of news that has
  long turned.
* **Sizing** divides by the ATR, the price and the number of slots.
* **The indicators** are recursions over a window, seeded with an average: an index that is
  off by one changes every decision and no other test notices.

## 2. Modules

| Module | Contents |
|---|---|
| `TradeLifecycle` | the core: workers, database, broker, update channel and consumer |
| `SlotLedger` | abstract specification: what the accounting of slots promises |
| `TradeLifecycleInv` | the inductive invariants of the proofs: `RowsOwned` (checked by `trades`), `Audit`, `Positions`; `SellsPlaced` |
| `TradeHistory` | `TradeLifecycle` with a bit that remembers whether two workers have evaluated one symbol at the same time |
| `TradeLifecycleClaims` | statements of comments and documents that the code does not keep |
| `BotController` | the switch, the requests, the workers' gate |
| `StreamSupervisor` | reconnects, subscriptions, watchlist refresh, re-seed, shutdown |
| `AdaptiveExit` | the price levels of a position as functions |
| `ShadowExits` | the shadow and the live exits of several workers, and the consumer, over the same rows |
| `Indicators` | EMA, RSI, true range and ATR, and what a seed computes, as exact fractions |
| `PositionSizing` | the quantity of a buy as an exact fraction |
| `SignalService` | the two signal paths of a bar, both indicator caches and their seeding, the caches of news verdicts |
| `IndicatorLaws` | laws the indicators obey, said independently of how they are computed |
| `MC...` | instances for TLC |
| `TradeLifecycleProofs`, and over it `SlotProofs`, `OrderProofs` | theorems about the live path |
| `BotControllerProofs`, `StreamSupervisorProofs`, `ShadowExitsProofs`, `SignalServiceProofs` | theorems about the other machines |
| `IndicatorProofs` | theorems about the indicators, over `SignalServiceProofs` |

A definition whose name ends in an underscore and a word (`Applicable_Terminal`)
is a variant with a plausible bug. Nothing uses it; it is there to be put in the
place of the original, to see that a property notices.

### TradeLifecycle

A signal, the row made from it and the order placed for the row share an
identifier. `trades[i]`, `signals[i]` and `orders[i]` are what the database and
the broker know about it. A row is reduced to symbol, side, status, parent,
transfer and `linked` (whether `alpaca_order_id` is stored); prices, quantities
and fees are left out because no guard of this path depends on them other than
through a decision that is made free (is the exit triggered, do the layers pass,
is the quantity positive).

One action is one statement, one transaction's visible effect, or one broker
call, so every point where another goroutine may come between is there:

| Code | Actions |
|---|---|
| `EvaluateAndExecuteExits`, transaction | `ExitSelect` (the snapshot), `ExitCommit` (row locks, inserts, commit or rollback) |
| ..., loop over the sells | `PlaceSell`, then `SellLink` or `SellClean` |
| `EvaluateBuySignal` | `EvaluateBuySignal` |
| `GetAvailableBudget` | `GetAvailableBudget` |
| `ExecuteBuyTrade` | `BuyCheck` (inner `HasOpenPosition`), `BuyCommit` (insert, decrement, commit), `PlaceBuy`, `BuyLink` |
| `cancelTradeAndRestoreSlot` | `CancelTradeAndRestoreSlot` |
| stream handler | `BrokerEvent`, `Redeliver` with `Send` |
| consumer, `ApplyTradeUpdates` | `ApplyLookup` (mapping, lookup, terminal check), `ApplyCommit` |
| process | `Crash` |

No statement of this path reads a signal, so the write that marks or deletes one is part
of the action that writes the row before it (`LinkRow`, `SellClean`); either of the two
may fail alone.

Isolation is READ COMMITTED, the default the transactor uses. `ExitSelect` takes
the statement's snapshot; `ExitCommit` sees row versions as they are when the
locks are taken, but not new sells. Rows locked by others are skipped, which is
why the set of rows hit is any subset. `BuyCheck` and `BuyCommit` are separate
because the check reads a snapshot and locks nothing; the guard of the decrement
is evaluated on the newest version of the locked transfer row.

The broker is external: it accepts or refuses a call, refuses sells of shares it
does not hold, and sends at most one event of each kind per order, none after an
end. An order is two lots, so that it can fill in part. `Faults` says what else may
go wrong: statements (`db`), replies to `PlaceOrder` (`lostReply`), the process
(`crash`), the stream (`disconnect`, `replay`).

### BotController

`Start` and `Stop` are two compare-and-swaps each, every one an action of its own.
`seen` is a history variable: the states the bot had since a call began; it allows
to say that an error was justified at some moment of the call. A worker that has
passed the gate places up to `MaxOrders` orders without looking again.

### StreamSupervisor

`desired`, `client` and the lock around them are the supervisor's; `dial` is the
local variable of `Run`; `live` and `wire` are what Alpaca sees (connections that
are up, and the symbols each is subscribed to). `held` is the pointer that
`Subscribe` copies under the lock and uses after it, so it may name a dead client.
Client objects that nothing refers to are used again. No route of this server edits
the watchlist; rows change from outside (`EditWatchlist`).

### AdaptiveExit and ShadowExits

`AdaptiveExit` counts prices in steps: the configured multiples of the ATR (1.0, 1.5, 2.0,
3.0) become 2, 3, 4, 6 steps of half an ATR, and every level is an integer.
`ShadowExits` follows buys whose order ids are stored. A row is its status, fill price,
peak, price at signal, step, and whether `entry_atr` is set (`atr`); what else it holds no
decision here reads. A row without `entry_atr` is older than the column: it has a stop and a
target of its own and takes the legacy rule. `market` is the close of the newest bar; a bar may
come at any time and bars never end, but the market moves `MaxMoves` times at most.

| Code | Actions |
|---|---|
| `TradingCoordinator.EvaluateBar`: shadow exits | `Select` and `Lock` (the query and its row locks), `ShadowCommit` or `ShadowRollback` |
| ..., live exits | `Select`, `Lock`, `LiveCommit` or `LiveRollback` |
| a refused sell deletes its row | `SellRefused` |
| consumer | `ApplyLookup` (reads the row), `ApplyCommit` (writes all of it) |

`copy[w]` is what the transaction of a worker has read and locked; locks last to the end
of the transaction, a locked row is skipped by the exit query and waited for by `Update`.
The events are any the mapper knows, acknowledgements included, in any order and repeated,
finals too; the consumer's check of the status is what keeps those out. An event replaces the
fill price of an open row by its own, which may be none (`FillsWith`).
A decision in `log` remembers the row, the action, the peak and the stop, and whether the
row was finished (`settled`): until then the consumer may undo a peak.

### SignalService, Indicators and PositionSizing

One symbol, since nothing in the caches relates symbols. The history of daily bars is a
constant and `days` says how much of it exists. `StateOn[day]` is what `Seed` computes
from the bars that `GetBars` returns on that day, `Null` where it returns an error. The two
goroutines that seed are tasks that fetch (`got` is the day of their bars) and store later
(`Seed`, `SeedRegime`).

| Code | Actions |
|---|---|
| a bar reaches a worker | `TakeBar`, then the path `"shadow"`, then `"live"` |
| regime gate of the shadow path | `RegimeOff` (a blocked signal is recorded) |
| a layer blocks, a position is open, a query fails | `Blocked` |
| `cachedProvider.Analyze` | `Hit`; or `Miss` (the call begins) and `Answer` or `NoVerdict` |
| `seedIndicators`, `seedRegime`, as the daily re-seed and the watchlist refresh call them | `DailyBars`, `DailyFails`, `Seed`, `SeedRegime`, `Added` |
| time and the outside | `NewDay`, `Tick`, `NewsTurns` |

`bad[p]` counts the ticks since the news of path p turned bad. A call settles its verdict
when it reads the articles and ends after at most `MaxCall` ticks; a verdict carries its
age and, in the cache, the ticks it has left. That verdicts are stored by whoever answers
last is kept. A step without a call takes no time.

Fractions are pairs `[n, d]`, compared by multiplying out; `decimal.Div` rounds the same
numbers after 16 digits. The loops of `CalculateEMA` and `CalculateRSI` are one recursive
function over the days (`Smoothed`): both start from a mean and blend each later value in with a
constant weight, 2 to `period - 1` in the one and 1 to `period - 1` in the other.

## 3. Runs

Bounds are in the `.cfg` files. The times are for two TLC workers.

| Run | Instance | Shows |
|---|---|---|
| `trades` | 2 workers, 1 symbol, 2 transfers with 1 slot each, 3 identifiers, failing statements, crashes | `TypeOK`, `OneSellPerBuy`, `OrderAudited`, `RowsOwned`, `OnePositionUnlessMet`, refinement of `SlotLedger` (62 k states up to symmetry, 40 s) |
| `replay` | 1 worker, 2 slots, 6 kinds of events, channel of 2, lost and repeated events, failures, crashes | `OrderAudited`, `SlotConservation`, `TerminalIsFinal` (1.4 M, 90 s) |
| `liveness` | 2 workers, lost replies and events, fair | `SlotConservation`, `SellsPlaced`, `BarsFinish`, `UpdatesApplied` (71 k, 40 s) |
| `bot` | 2 requests, 2 workers, fair | `TypeOK`, `StartErrorJustified`, `StoppedOnlyStarts`, `StopDrains` (25 k) |
| `stream` | 2 symbols, 3 clients, 2 failures, 1 edit, fair | `TypeOK`, `OneConnection`, `Reconnects`, `WatchlistFollowed`, `ActiveSeeded`, `ShutdownEnds` (0.6 M, 50 s) |
| `shadow` | 2 workers, 1 buy (with or without `entry_atr`), bars without end whose close moves once, between the static stop, the entry, the break-even and the trailing trigger, fair | `TypeOK`, `LocksProtect`, `StopBetween`, `LogBacked`, `OnlyPeakRises`, `LiveFollows`, `UpdateEnds` (0.4 M, 150 s) |
| `signals` | 2 workers, 2 bars, 5 daily bars of which 3 exist at first, a verdict kept for 2 ticks, calls of up to 1 tick, news turns once, a watchlist addition, fair | `TypeOK`, `SeedCoherent`, `FreshEntries`, `SignalsJustified`, `SizedWithinLimits`, `EmaIsWeighted`, `RsiSymmetric`, `TrueRangeSpans`, `BadNewsHeeded`, `IndicatorsCatchUp` (0.8 M, 140 s) |

Why the bounds are enough: every hazard of the list needs at most two workers, one
buy with its sell and a competitor (three identifiers), and one slot (so that two
workers race for it). A channel of one drops updates; a channel of two also keeps a
late event waiting behind another. The delay of the supervisor doubles once and stays
at its bound (`MaxDelay = 2`), and two failures are enough for a failed SDK call followed
by a failed re-seed. Where the theorems apply, the bounds do not matter. A signal without a
row (the buy lost its race) keeps its identifier for good, so every run ends when the
identifiers are used up; orders and events still go on then. Symmetry is used in safety
runs only.

Two workers break the rule of one position (`claim_one_position`), so `trades` checks that nothing
else does: three identifiers are a buy, the sell that hides it, and the second buy that would
break the rule when that sell is deleted, and a second transfer pays for that second buy.

`shadow`: a lost update needs a consumer and one worker, a lock that is in the way two.
One move lets the peak rise over a stop that was logged at the first close, or the close fall
below it. Bars go on after it, and no property is kept by their ending. `signals`: a verdict that is
overtaken needs two workers that miss together; a lifetime longer than a call, so that an entry
outlives the call that made it. The history is a new listing: too short to seed, then oversold,
then crossing up, so that both paths make signals; the window of 4 days moves once. The index
falls and is above its average on the last day, so that the regime goes on. The laws of the
indicators are evaluated for all series of up to 5 closes out of 4 and periods 2 and 3: long
enough for the average that seeds, a first smoothing and a second one.

Deadlock is checked, except in `stream`, where nothing is left to do after a shutdown, in
`signals`, which ends when its bars, days and edits are used up, and in `shadow`.

### What does not hold

Each of these runs checks one statement from the repository and TLC finds a
behaviour of the code that breaks it.

| Run | Says | The code |
|---|---|---|
| `claim_one_position` | `trade_service.go:206-210`: the second check "closes the TOCTOU window" | two transactions both see no position; both commit and both orders are placed |
| `claim_fills_recorded` | `README.md:38`: the stream reconciles fills "as events arrive" | a fill before the order id is stored is skipped, and the row stays pending |
| `claim_held_watched` | `trade_repository.go:80-82`: stops are "enforced as soon as shares are held" | a partial fill followed by a cancel leaves shares on a cancelled row |
| `claim_subscribed` | `stream_supervisor.go:15-17`: changes reach a live client or the next reconnect | a change between the snapshot and `setClient` reaches neither |
| `claim_same_preview` | `signal_service.go:25-27`: the preview "runs the same five-layer checks as EvaluateBuySignal and returns the signal that would be created" | layer 2 of the preview wants an RSI that has crossed up to 35, the live one an RSI below 35; what the preview announces is never created |

Differences met on the way that have no run:

* A sell that Alpaca accepts and rejects later, by an event, keeps its row, and the NOT EXISTS of
  the exit query and of `HasOpenPosition` hides its buy for good. The cleanup only runs when
  `PlaceOrder` itself fails. `trade_repository.go:84-86` promises a retry for a refusal of that
  kind only, and `SellsPlaced` is what holds: no sell stays without an order, as long as the
  statements of the cleanup succeed. Where they fail the code only logs it (`SellClean`).
* `trade_service.go:340-342` takes a duplicate sell for "an unexpected state". The NOT EXISTS
  of the exit query is decided on the statement's snapshot, so a sell another worker commits
  before the row lock is taken leads there (`ExitCommit`, second disjunct). The unique index is
  what keeps `OneSellPerBuy`.
* `alpaca.go:100-103` says that after a dropped update the supervisor "reconnects and replays
  events". A full channel does not disconnect, and nothing is asked for again (`Send`).
* `controller.go:16`: stopped means "no orders will fire". A bar that passed the gate goes on;
  `StopDrains` is what holds.
* `README.md:150` speaks of exits placed as limit or stop orders after the entry fill, where the
  code places market orders when a bar meets the level.
* `README.md:285` calls the bot "paused" with `BOT_AUTOSTART=false`; it is stopped
  (`main.go:181-186`).
* `controller.go:77-79`: `Stop` fails "if already stopped". On a paused bot both swaps fail when
  a `Start` comes between them.
* `main.go:206-207` says the refresh seeds newly added symbols. After a failed SDK call the
  symbol already counts as subscribed: it is subscribed at the next reconnect, and seeded only
  by the daily re-seed.
* `trade_service.go:333` sells the stored quantity, which the column rounds to 4 digits
  (`DECIMAL(19,4)`), while the buy was ordered with the unrounded one; `trade_repository.go:84-85`
  speaks of the "originally ordered amount".
* `trading_coordinator.go:66-67` lets the shadow path see the "same DB snapshot as live". They
  are two transactions; `Select` happens twice. Nor is the live path "unchanged" (23-27): a row
  that a shadow transaction of one worker has locked is skipped by the live exits of another
  (`Lockable`), on that bar.
* `adaptive_exit.go:17-18` speaks of the running peak. The consumer's write of a whole row from
  an older copy undoes a peak that rose while the row was open (`ApplyCommit`). `OnlyPeakRises`
  is what holds: from the final event on it only rises.
* The exit query is decided on a snapshot, so a decision may be logged for a buy that has just
  been sold, where the comment says "while the live position still holds".
* `adaptive_exit.go:11-13` describes break-even as a floor. With the default distance (2.0)
  above the default trigger (1.5) the stop falls half an ATR when trailing starts. The tests
  expect that; `Slack` names it, and `FallsOnce` says that the stop falls nowhere else.
* `README.md:140` says a 1-ATR adverse move equals the risk budget; the code divides by twice
  the ATR. `README.md:139` asks for a score above 0, the keyword analyzer for 0.4, the
  LLM analyzer for a label other than negative, and too few articles pass.
* `seedRegime`'s comment treats the regime as off "until a subsequent seed succeeds". A failed
  re-seed keeps the earlier value (`SeedRegime`).
* A buy without ATR would be opened with stop, price and target alike. `SizedWithinLimits` shows
  that a signal that passed the layers has an ATR above zero (an RSI below 35 implies a move);
  only the rounding of a very small one could give zero.
* The RSI of a series that never moved is 100 (`RsiSymmetric`); `rsi_test.go` expects it.
* `GetBars` up to now includes the unfinished bar of the current day. Two seeds at the same time
  may store the older fetch last; it stays until the next re-seed (`IndicatorsCatchUp`).

## 4. Fairness

* `TradeLifecycle`: weak fairness per worker, once it has a bar, and for the
  consumer: the Go scheduler runs every goroutine that can run, and every call
  returns in the end. Nothing is assumed about bars, the broker or the stream. In the run
  `liveness` statements succeed; calls are refused, replies and events lost.
* `BotController`: weak fairness for workers inside `EvaluateBar`, none for requests.
* `StreamSupervisor`: weak fairness for the three goroutines (timers fire, calls
  return). Failures and edits are bounded by `MaxFaults` and `MaxEdits`, so
  "eventually" means once they end.
* `ShadowExits`: weak fairness for every worker that has a bar, and strong fairness for the
  consumer's `UPDATE`, which is enabled only while no transaction holds the row. Bars go on for
  ever, so transactions may lock the row again and again, and weak fairness would not do.
  PostgreSQL wakes the `UPDATE` that waits for a row lock whenever it is released, the exit
  queries skip rows instead of queueing for them, and the bars of a symbol are a minute apart
  while a transaction takes milliseconds: the `UPDATE` does not lose every time. What
  `UpdateEnds` adds to that is that every transaction lets the row go, whatever fails in it.
  `LiveFollows` needs the workers' fairness only.
* `SignalService`: nothing is assumed about workers, news or days. The daily re-seed goes on
  (weak fairness of its store, strong fairness of its two fetches): not every `GetBars` fails
  from some day on. A day is a step, and days end with the history; `IndicatorsCatchUp` is about
  what the caches hold after the last.

## 5. Proofs

Every invariant that a passing run checks is also stated by a theorem, and so is every action
property. The theorems hold for any sets of workers, symbols, identifiers, transfers, any
capacity and any selection of events and faults, from the assumptions the modules
declare: transfers are numbers, identifiers are finitely many, `Null` is none of the
values it is put beside; prices, amounts and numbers of slots are positive; a bar closes between
its low and its high; the period of the ATR is above one (`main.go:55` has 14). Bounds
such as `MaxMoves` and `MaxNews` may be any number.

* `TypeCorrect`, `OwnershipHolds` (`TradeLifecycleProofs`). The inductive invariant is
  `IInv == TypeOK /\ RowsOwned`. `TypeOK` alone is not inductive: `ApplyCommit` writes
  a copy, `BuyLink` writes the status pending. `RowsOwned` says why that is harmless.
  Where a worker is determines what its identifiers stand for (`WorkerOK`), no two
  workers have one in common (`Disjoint`), and the row the consumer is about to write
  still is the row it read (`CurOK`), because workers write only rows without an order
  id and the consumer only rows with one.
* `LedgerImplemented`, `SlotsConserved` (`SlotProofs`). With `IInv`, each action maps to
  `Reserve`, `Release` or a stutter of `SlotLedger` under the mapping that sees a slot
  held by every buy that is pending, open or filled. The sum follows: a step adds one
  identifier to the set of buys that use a transfer's slots or removes one, and changes
  the counter by as much.
* `TerminalRowsStay`, `OneSell` (`OrderProofs`). The first from `IInv`; the second because
  only `InsertSells` creates sells and its guard is the unique index.
* `OrdersAudited`, `LinkedRowsTrue` (`OrderProofs`). The invariant is `IInv /\ Audit`. `OrderAudited`
  speaks of rows and orders only and is not inductive: an event in the channel, or a status the
  consumer has mapped and not yet written, will become a row. So `Audit` says as well that
  every update in the channel is an event the order really had (`UpdatesSent`), that the status in
  the consumer's hands is true of the order (`CurTrue`), that an order which filled has no other
  end (`OneEnd`), and, from where a worker is, whether its order is placed (`PlacedOK`).
  `OrdersAudited` assumes that no reply of `PlaceOrder` is lost, because then the code does leave
  an order without a row (`SellClean` deletes the row, `CancelTradeAndRestoreSlot` cancels it).
  `LinkedRowsTrue` needs no such assumption: whatever is lost, a row that has an order id is
  filled only if the order filled, and rejected or cancelled only if it ended unfilled.
* `OnePosition`, `PositionUnlessMet` (`OrderProofs`). The run `claim_one_position` refutes the rule of
  one position per symbol; `OnePosition` says that nothing else breaks it than the race the run
  shows: as long as no two workers evaluate bars of one symbol at a time, it holds for any
  number of workers and through all failures. `PositionUnlessMet` says the same of the behaviours
  TLC explores, where two workers do meet: the rule holds up to their first meeting. The
  hypothesis is not guaranteed by the code (five
  workers take bars off one channel, `main.go:299`); it is the exact price of the missing lock.
  The rule itself is not inductive. A sell hides its buy, so that another buy may be made, and a
  refused sell is deleted again. `Positions` therefore counts buys as if the sells that a
  worker may still delete were not there (`OpenBut`): that worker holds the symbol until it is
  past them.
* `SellsHaveOrders` (`OrderProofs`). With statements that succeed and a process that lives, a sell
  row has an order or a worker that will place it or delete it. The sells a worker has created and
  not yet placed are the rest of its loop (`Deletable`); every step either keeps a
  sell there, gives it its order, or deletes its row (`SellsWorker`), and no order is ever taken
  back (`OrdersLast`). Lost replies are allowed: the row is deleted all the same.
* `StartErrors`, `StoppedStays` (`BotControllerProofs`). When the first swap of `Start`
  fails, the state is running or stopped; if it is stopped then and not stopped at the
  second swap, only a `Start` can have come between, and the history has seen running.
* `AtMostOneConnection` (`StreamSupervisorProofs`). Only the client `Run` works with can be
  up, and only between its `Connect` and the end of its select.

* `BotTypes`, `SupervisorTypes`: type correctness of these two modules. The second needs a little
  more (`Shape`): a client in use is one that was dialed, and the delay is a power of two below
  its bound, which is why doubling never leaves the range.
* `LocksHold`, `FinishedRows`, `LogStaysTrue`, `ShadowTypes`, `StopsBetween` (`ShadowExitsProofs`).
  The invariant is `RowInv == TypeOK /\ LocksProtect /\ CurOpen /\ PeaksHigh`: the row the
  consumer is about to write is not finished yet (only it finishes rows), and no peak is below
  the price at signal. So the consumer never writes a finished row, and a worker's write-back
  differs from the row in the peak alone. `LogInv` adds that a row
  with a settled decision still is filled, that its peak is no lower than the logged one, and that
  its prices give the logged stop at the logged peak. `LogBacked` follows because a higher peak
  lowers the stop by no more than `Slack`.
* `FallsOnce`: for all multiples, the configured ones included, a higher peak lowers the stop only
  where it passes from break-even to trailing, and there by `Slack` at most.
* `QuantityLimited` (`SignalServiceProofs`): for every transfer, price and positive ATR the quantity
  is positive, costs no more than the slot's share and risks no more than the budget.
* `SignalTypes`, `SeedsCoherent`, `EntriesFresh`, `JustifiedSignals`, `BadNewsStops`. The invariant is
  `Inv`: types, `SeedCoherent`, what a task fetched is of a day past (`FetchedPast`),
  `FreshEntries`, a signal, or a path that has come as far as the news, justified by the
  indicators it was made from (`Explained`), a price for every path under way (`Priced`).
  `JustifiedSignals` is part of `Explained`: what a path that waits for the analyzer has read
  passed its layers at its price, and it makes its signal of that, not of what the cache holds
  then. They hold for every history, lifetime, length of calls and number of workers.
* `SignalsSized` (`IndicatorProofs`): the ATR of a live signal is positive, so the buy is sized by
  risk and its stop, price and target differ. By `Explained` and `SeedCoherent` the signal's
  indicators are those of one day with an RSI below 35; an RSI below 100 means that some close
  was below the one before; the bar of that day has a positive true range (`OversoldATR`); and a
  running average with a period above one that took in something positive never returns to zero
  (`SmoothedSign`). `QuantityLimited` does the rest.
* `EmaWeighted`, `RsiIsSymmetric`, `TrueRangeIsSpan` (`IndicatorProofs`): the three laws of
  `IndicatorLaws`, for series of every length over any integers. The first by induction over the days: after
  k values the loop holds the weighted sum of k values, and one more step multiplies every weight
  by `period - 1` (`EmaWeights`). The second because the mirrored series turns gains into losses
  (`MirrorChanges`), and because one more gain raises the gain's share of the sum
  (`RisingRatio`, `FallingRatio`); it needs a period above one, since with a period of one the
  averages forget everything but the last move.

Recursive functions and induction. The prover cannot instantiate the induction theorems of its
library, which take a predicate. `Induct` is the same principle about a set: if the set holds the
first day, and with each day the next, it holds them all. It follows from the fact that `<` is
well founded on the naturals. `Passing` gets from it that the function a LET defines
recursively over an interval exists and satisfies its equation, which is how `SumOf`, `Smoothed` and `Power` are
unfolded.

Only model-checked: what needs fairness (`BarsFinish`, `UpdatesApplied`, `StopDrains`,
`Reconnects`, `WatchlistFollowed`, `ActiveSeeded`, `ShutdownEnds`, `LiveFollows`, `UpdateEnds`,
`IndicatorsCatchUp`). Liveness is out of the prover's reach.

## 6. Not modelled

* `ExecuteSellTrade`, `CreateSellSignal`, `GetAllSignals` and the creation of transfers and
  watchlist rows: the server never calls them.
* Fees and the profit columns: written, never read by a decision.
* The rounding of `decimal` (16 digits) and of the columns (4 digits).
* Which words or which answer of the LLM make news bad: data. The exchange with the news API and the
  LLM, the prompts, and HTTP plumbing and authentication: I/O without state.
* Configuration, connection pool and migrations: read or run once, before anything here starts.
* The bar channel of 200, which drops what it cannot hold: any bar may come or not come.

## 7. Plan

Done: the live path with its refinement, switch, supervisor, both exit paths, both signal paths,
indicators, sizing, and the proofs of every safety property. Left:

1. Abstract specifications of the switch and of the supervisor's subscriptions, with refinement proofs
   like that of `SlotLedger`.
2. A composition of `BotController` and `TradeLifecycle`: the shutdown with its cancelled context
   while orders are in flight.
3. The exact rounding of quantities between the buy, its row and its sell.
