# Verification of MartinStrategy-Hedging

The program is a trading bot in Go for Binance Futures. It runs one martingale
strategy per symbol: a market order opens a position, a ladder of limit orders
("safety orders") averages a losing position, one limit order on the other side
(the take profit) closes it. Two or more strategies in opposite directions form
a hedge, which a coordinator watches.

This directory models the parts of it in which order and failure matter, checks
the models with TLC on small instances and proves the most important facts for
every instance with TLAPS.

    tlc -workers 2 -config MCStrategyFaults.cfg MCStrategy     # one run
    tlapm StrategyProofs.tla                                   # one set of proofs

## 1. The system

| Component | State | Operations | Talks to | Module |
|---|---|---|---|---|
| EventBus (`internal/core/event_bus.go`) | map of handlers, channel of 1000 events, context | Subscribe, SubscribeWithFilter, Publish, Start, Stop, process | called by the client's stream callbacks; starts one goroutine per event and handler | `EventBus`, `Delivery` |
| MartingaleStrategy (`internal/strategy/strategy.go`) | FSM state, cached position, id of the take profit, two TryLock mutexes with skip counters, time of the last error | Start, syncState, handleTick, handleOrderUpdate, enterPosition, placeGridOrders, updateTP, GetStatus | bus (callbacks), client (synchronous HTTP calls), itself (`go placeGridOrders`, `go updateTP`, `go CancelOrder`) | `Strategy`, `StrategyProperties`, `StrategyCycles`, `Ladder`, `Averaging` |
| HedgeCoordinator (`internal/strategy/coordinator.go`) | stop channel | monitorLoop, checkHedgeStatus, GetHedgeStatus, Stop | client (GetPosition of every strategy), notifier | `Hedge` |
| BinanceClient (`internal/exchange/binance.go`) | symbol filters | order and account calls, StartWS and its callbacks, CancelAllOrdersAllSymbols | Binance; publishes to the bus | inside `Strategy` (calls, order events) and `Lifecycle` (streams, symbol filters, shutdown) |
| main (`cmd/bot/main.go`) | none of its own | start sequence, signal, shutdown | everything | `Lifecycle`, with `EventBus` inside |
| Web server (`internal/web`) | status cache with a mutex and a time stamp | /api/status, /api/orders, /api/pnl | strategies (GetStatus, fetchATR), client, storage | `StatusCache` |
| Storage, notifier, configuration, logger, dashboard | | | | not modelled (section 7) |

What is hard in it:

* **Goroutines without an order.** The bus starts one goroutine per event and
  handler. Handlers of one strategy run at once and overtake each other, and
  they start further goroutines. They share the FSM state under a mutex that is
  released around every HTTP call, so that each of them acts on what it read
  some calls ago.
* **Calls that fail.** Every call of the exchange can fail, fail with its effect
  done, or be late. Most errors are logged and the next step is taken anyway.
* **Work that is dropped.** A TryLock that fails, and a channel that is full,
  drop the work and count or log it.
* **Crashes.** All state is in memory; after a restart the strategy finds its
  position and its take profit on the exchange, while events already arrive.

What makes each part correct:

* bus: accepted events are neither lost nor reordered up to the start of their
  goroutines; a handler gets each event it wants once; a cancelled bus ends;
* strategy: the FSM never stays in `PLACING_GRID`; the critical sections exclude
  themselves; the orders it cancels are its take profits; at rest the position is
  covered by one take profit of its size; the ladder is placed once and whole; a
  closed cycle leaves no order;
* sizing: no order breaks the exchange's filters by the way it was rounded, none is
  larger than needed, the ladder moves against the position, and the take profit stays
  within reach and never sells below the average;
* coordinator: what it reports was held while it looked, it alerts exactly when the
  hedge left its band, and goes on doing so;
* status cache: answers are whole and their age is bounded, and polls hardly go back
  in time;
* main: every process comes up, no fill falls between what a strategy reads at its
  start and what it is told, and every symbol's orders are asked to be cancelled at
  a graceful end.

## 2. Modules and the code

### EventBus, Delivery (abstract), MCEventBus, EventBusProofs

`queue` is the channel, `dispatcher` the position of the goroutine of `Start`,
`current` the event between the receive and `process`. `log` orders the events
by their `process`, and `spawned[h]`/`called[h]` are the goroutines that were
started for handler `h` and those that called it, as positions of `log`. One
action is one channel operation or one critical section of the mutex of the
handlers. `Take` and `Exit` are the two cases of the select: when both are ready,
either is taken. `Run` is the goroutine with the filter of `SubscribeWithFilter`; the
callback of a handler in `Slow` may take for ever, and owes its `Run` nothing.
A handler is subscribed once, as the code does. `Delivery` says what users of
the bus may rely on: at most one call per accepted event, only for wanted ones,
in any order. `ImplementsDelivery` is the refinement, with `sent <- accepted` and
`got <- called`.

### Strategy, StrategyProperties, MCStrategy, StrategyProofs

One strategy, its goroutines and the account. `Threads` is a pool: an idle thread
may become any goroutine (a handler of a tick, of an order update, a
`placeGridOrders`, an `updateTP`); `pc` says where it is. Goroutines that were
started and have not run are counted in `gridGo` and `tpGo` and listed in
`cancelGo`. An action reaches from one point where another goroutine can get in
to the next: a call of the exchange or a critical section of `mu`.

* LONG and SHORT mirror each other line by line in the code, so sides are
  "entry" and "exit" and `pos` counts units in the strategy's direction.
  Negative is a position on the wrong side.
* A call of the exchange has its answers: it works; it fails and nothing
  happened (`"GetPosition"`, `"PlaceOrder"`, `"CancelOrder"` ... in `Env`); it fails
  although it worked (`"LostResponse"`). Cancelling an order that no longer rests
  is an error for the exchange and changes nothing, in the model as in
  `TPCancel`, which goes on in both cases. A run chooses its `Env`.
* `Fill` lets the market fill a resting order, in parts with `"PartialFill"`, and
  publishes its FILLED event (`Emit`), which any later `EntryFilled` or
  `ExitFilled` takes, in any order. The 500 ms the exit handler waits before it
  reads the position are long compared with the start of a goroutine, so that
  unless `"Overtaking"` is in `Env` a handler of an earlier entry fill has begun
  by then.
* The two subscriptions of `Start` (strategy.go:126-127) follow each other without
  anything between them and are one step, so that no event falls in between.
* `phase = "syncing"` is `syncState` between its two calls, which it makes with
  `mu` held; all others take `mu` within one action (`MuFree`).
* `updateTP` reads the state under a read lock that it keeps across the fetch of
  the ATR. No writer gets in, so the test of the state and the read of the id are
  one action (`TPCheck`).
* `cooling` stands for `time.Since(lastErrorTime) < errorCooldown`; it ends at any
  moment (`CooldownOver`).
* `Crash` loses the memory and the events on their way; the orders and the
  position stay. `PanicReprice` is the nil dereference of the finding below.
* The market order of `enterLong` fills in full at once. Ticks that change
  nothing, and prices, are left out: sizes are in units, the prices of the ladder
  are the subject of `Ladder`.

`StrategyProperties` holds the properties of the state of one strategy, apart from
the model.

### StrategyCycles, MCStrategyCycles, StrategyCycleProofs

A cycle is what lies between two base orders. The code has no such notion: it has
a state that is reset, and goroutines of the old cycle that may not have ended.
`CycleSpec` is `Strategy` with three history variables that watch every step
(`Watch`): `taken` counts the exit fills since the base order, `early` notes that
one of them came while the ladder was being placed, `clean` that the cycle began
at rest (`FromRest`: one goroutine, at its market order, and an empty book) and was
left alone while the process was down (`Undisturbed`). The properties say what a
clean cycle guarantees: inside it, and on what it hands to the next one. Without
faults of the exchange, cycles that are not clean are those whose base order comes
while the previous cycle is still being cleaned up, and those that a crash
interrupts in mid-step; `strategy_unprotected` and section 6 show what goes wrong
in them.

### Ladder, Averaging, LadderProofs, SumProofs

The loop of `placeGridOrders` as a function of the entry price, the capital weight,
the direction and the eight ATRs, in integers: one `Rung` per turn of the loop,
`level` is `currentPriceLevel`. The loop sends an order for every rung and only logs a
refusal, so each turn ends in `placed` or in `refused`, as the filters of the exchange
decide (`Takes`: tick, step, least quantity, MinNotional). The code applies the least
quantity to the base order only (strategy.go:405, 440), and has no guard for a price
of zero or less, to which a long ladder can come down: both are refused. A `RungQty`
of 0 stands for the infinite or negative quantity such a price asks for. Rounding up is
`RoundUpToTickSize` (whose epsilon exists to make floats behave as the exact
division does), rounding to the nearest tick `RoundToTickSize`.

`Averaging` extends it by what comes of the ladder. The base order is sized at the
price of the tick and filled at another one (`Slips`), from which the ladder is
placed. `Fill` fills one rung after the other, at its price; `amt` and `cost` are the
position, whose average is the fraction `cost / amt`. `TPPrice` is the price
`updateTP` would ask for in that state, `FilledSafetyCount` what
`getFilledSafetyCount` would answer. They are state functions: each is evaluated in
every state.

Some properties hold only where the exchange's filters are fine for the size of the
position, and say so themselves: `WellSized` (the first rung is not rounded back across
the entry, a unit is an order of the exchange, the tick the base order was sized for was
not less than half the price it got), `FirstRungClear` (the first rung is twice as far
off as that tick) and `InRange` (the price has neither halved nor doubled).

### Hedge, HedgeProofs

`Tick`, `Check`, `Exit` are the select of `monitorLoop`, `Read`/`Skip` one turn of the
loop of `GetHedgeStatus`, `Judge` its end and the alert. `Trade` changes a position
at any time. `Deviates` is the code's comparison with the divisions multiplied
out; the special values of a missing short and of an empty hedge are kept.
`seen` and `failed` are history: what a position was since the check began.

### StatusCache, MCStatusCache, StatusCacheProofs

A member of `Requests` is a goroutine of gin that serves `/api/status`. `Hit`, `Miss`
are the two results of `statusCache.Get`, `Read` one turn of the loop of
`handleStatus`, `Store` its end with `statusCache.Set`. What is read is the time at
which it is asked for: everything the properties say is about age and order. (What is
asked for is not always current: amount and entry price come from the position that
`syncState` cached, strategy.go:141, and a call that fails counts as no orders.) `lastFetch`
is stamped at the end of a fill, as in the code; the other variables are the
goroutine's own, or history. `MaxFill` is the longest a fill takes. The code sets no
limit, so the results are to be read "if fills take at most `MaxFill`, then".

### Lifecycle, LifecycleProofs

`main` is where main() is: `config`, `symbols`, `streams`, `markets`, `launch`, `rest` are the
parts of the start in their order, `waiting` the receive from `sigChan`, `cancel`,
`stopMonitor`, `stopBus`, `return` the shutdown, with the deferred calls in reverse
order; `turn` is the strategy its present loop is at. `st[s]` is where the
goroutine `strat.Start` of strategy `s` is. The bus is an instance of `EventBus`
(`Bus`): its dispatcher and goroutines run by its own actions (`BusStep`), its
`Subscribe`, `Publish`, `Start` and `Stop` are called here. The order handlers take all
order events and return at once for a foreign symbol (strategy.go:247), so an
event is a fill `<<s, n>>`, the n-th of strategy `s`. `fills` is the exchange, which
outlives the process; `wire` is what the user stream has yet to report. A failed
call of the start is `Logger.Fatal` and with a panic, a crash and a signal before
`signal.Notify` one action, `Die`; `Launch` is docker. `StreamEnds` is the end of the
user stream, which nothing connects again. Ticks are left out: what strategies do
is the subject of `Strategy`, here they only hear.

## 3. Runs

| Run | Question | Instance |
|---|---|---|
| `event_bus` | Does the bus deliver what it accepts, exactly once per handler, does it implement `Delivery`, drain though a callback hangs, and stop? | 3 handlers (a filtered and an unfiltered, slow one of ticks, one of orders), 2 types, 2 symbols, channel of 2, 3 calls of Publish |
| `strategy_cycle` | With a faithful exchange: what does a clean cycle guarantee, and what does it leave to the next one? | 2 goroutines at work (and any number waiting), ladder of 2, 2 cycles, 2 fills, 1 close by hand, 1 restart |
| `strategy_faults` | Which guarantees survive errors of every call, lost responses, partial fills, overtaking handlers, a close by hand and a crash? | 2 goroutines, ladder of 1, 1 fill, 1 close by hand, 1 crash |
| `strategy_live` | Does every activity end, and is PLACING_GRID left? | 2 goroutines, ladder of 1, 1 fill, 1 crash, errors of three calls and lost responses |
| `hedge` | What do the sums of a report mean while positions move, and is the alert exact and repeated? | 3 strategies (2 long), 3 trades, 1 failed read, target 2, threshold 1/4 |
| `ladder` | What of the ladder does the exchange refuse, is the rest not oversized and away from the entry; does the take profit pay and stay within reach; does the count of rungs follow? | 10 rungs (one beyond the table of distances), least quantity of 2 steps, 3 entry prices, 3 weights, each of 8 ATRs failed or of 143, both directions, ticks at, above and below the execution price: 7680 ladders |
| `status_cache` | How old is an answer, and how far may a poll go back? | 3 concurrent requests, 2 strategies, fresh for 3, fills of up to 2, clock to 9 |
| `lifecycle` | Does a start leave a gap in what the strategies know, does every process come up, does the shutdown reach all orders? | 2 strategies, channel of 1, 2 fills, 2 faults (failed calls, ends of the stream, crashes), any number of signals |

The remaining runs are expected to find a violation; section 6 explains them.

**Why the bounds are enough.** The bus: a channel of 2 with 3 events can be
empty, partly full, full and overflow, events of two types wait together, and a
handler can subscribe before, between and after them. The strategy: two
goroutines are what every race in the code needs (a writer between two steps of
another), while the ones that wait to start are not limited; a ladder of two has a
safety fill while the next rung is being placed; two fills of `strategy_cycle` give the
pairs safety/safety, safety/exit and exit/safety; a second crash meets nothing the first
did not leave. `strategy_cycle` cuts a behaviour off where its cycle stops being
clean (`CONSTRAINT OnlyClean`): the properties ask nothing of such a cycle, and the
next clean one begins at rest like any other. Larger instances of it were checked
and hold: three fills (7.0 million states), three fills and two restarts (12.6
million), three goroutines with two fills (7.8 million). `strategy_faults` also
holds with two fills and no close by hand, `strategy_live` with a close by hand instead
of lost responses. The hedge: three
reads have a first, a middle and a last one with trades between all of them. The
ladder: the values give prices off and on a tick, quantities that are exactly a
step and others, units below and above the least quantity, orders below and above
MinNotional, and long ladders that reach a price of zero; with three values of the ATR (failed, 43 and 150, two entry prices
and two weights, 1.6 million states) it holds as well. The cache: three requests
can have two overlapping fills and one that reads their result, and the clock runs
for three times to live. The lifecycle: with a channel of one the second fill finds
it full; two faults are a crash and the end of the stream, or two crashes, or an
unread position and either. Its safety was also checked with three fills (2.2
million states) and with three strategies (4.6 million).

`CHECK_DEADLOCK FALSE` stands where the modelled part really ends: the ladder
when it is filled, the coordinator after its stop, the clock of the status cache
at its bound.

**Fairness.** Goroutines of a Go program are scheduled (`WF` of each thread and
of what waits to be started); calls of the exchange return: the code sets no
timeout of its own and relies on the connection to end a call, and if one never
returned `syncState` would hold `mu` for ever, so nothing could be promised;
events in the channel are handled (`AcceptedIsProcessed` of the bus); the process
is started again after a crash (`restart: unless-stopped`, docker-compose.yml).
The select of the coordinator chooses at random among the ready cases, so a
closed stop channel is not passed over for ever: `SF` of `Hedge!Exit`. In the bus
`WF` does, since a finite number of events is published. In `Lifecycle` one
weak fairness is enough, of all that is scheduled together: while main, a `Start`,
the stream or the bus can move, one of them does. The market, the user, ticks,
faults, the signal and the callbacks in `Slow` owe nothing.

**What the runs show, by property.**

* `NothingLost`, `ExactlyOnce`, `ImplementsDelivery`: the bus drops events only in
  `Publish`; between the channel and the goroutines nothing is lost, doubled or
  reordered, however subscriptions interleave.
* `AcceptedIsProcessed`: a callback that never returns holds up neither the events
  behind its own nor another handler. The events a full channel drops are outside all
  of these.
* `SectionsExclusive`, `Settles`: every path through `placeGridOrders` and
  `updateTP` gives back exactly what it locked, including the path on which one
  calls the other with its own mutex held. No handler waits for ever.
* `PlacingIsTransient`, `PlacingEnds`: `PLACING_GRID` is only held while something
  under way will write the state, through errors, lost responses, crashes and
  the overlap of `syncState` with handlers. It assumes that the FILLED event of
  the base order is not lost; with `"DropEvent"` it does not hold (section 6).
* `TPIsExit`: the strategy never cancels one of its own safety orders.
* `ExitIsKnown`, `OffersFit`, `RestIsCovered`: in a clean cycle there is at most one
  take profit, it is known to the strategy, never offers more than is held, and is
  for the whole position at rest - also when the process was restarted at rest, and
  although goroutines of the previous cycle may still be ending. Where an `updateTP` was
  skipped (`tpSkipCount`) it is still there, but may be for less than is held.
* `LadderIsWhole`: whichever order the handlers of the base order and of the first
  rungs run in, exactly one of them places the ladder, and all of it.
* `CleanClose`, `NothingRests`: when the cycle closes, by the take profit or by hand,
  nothing of it is left in the book, whichever of the reset, `CancelAllOrders` and the
  withdrawal by `updateTP` comes last; of the ladder only if it was complete (`early`).
* `FirstExitFits`: with all faults, the first exit fill does not turn the
  position around. `NeverFlips` (section 6) shows why not more can be said.
* `NothingInvented`, `VerdictIsExact`, `PersistentIsAlerted`: the sums may never
  have existed together, but each summand was held during the check; when
  nothing moved the alert is exact, for the special ratios of a missing short (999)
  and of an empty hedge (0) as well; a lasting deviation is alerted again and again.
* `AnswersAreRecent`, `BackAtMostAFill`: what an answer holds was asked for less than
  the 3 seconds and one fill ago. A slow request does overwrite the newer data of a
  fast one, but the client never sees more than one fill of it. Nothing makes a request
  wait for a fill under way, so that every request meanwhile asks the exchange too.
* `OrdersFit`, `NotOversized`, `AwayFromEntry`: the exchange refuses what lies at the
  ends of a ladder - prices of zero and below, and first rungs below the least quantity,
  if that is more than a unit - and never an order in between for the way it was rounded
  or raised to MinNotional. No order is more than one step above what is needed.
* `NeverAtALoss`, `WithinReach`: the take profit is on the paying side of the average
  in spite of its rounding (fees are not in it), and, with filters that are fine for the
  position, at most two thirds of the way back to the entry, and
  an ATR, from the rung where the price turned: this is what the Fibonacci multiples
  buy, at any distances of the rungs.
* `CountErrsOneWay`: until the price has halved or doubled, and under the conditions it
  states, the number of filled rungs in a notification is a lower bound for a long
  ladder; for a short one it is right or one too high.
* `NoGap`, `FillsAreTold`: although the streams are up before any handler is there, the
  order "subscribe, then read the position" of `Start` leaves no fill unknown, but
  for those the stream (ended) or the channel (full) did not carry.
* `ComesUp`: the order of main and of `Start` is such that no process ends itself by
  not finding its symbol, so that the restarts come to an end with the faults.
* `CancelReachesAll`: errors of one cancellation do not keep the others from being
  asked for, and the bus runs until the last one.

## 4. Proofs

The `...Proofs` modules prove for all values of the constants, with nothing assumed
but the named assumptions on the constants (`BusAssumption`, `StrategyAssumption`,
`CacheAssumption`, `LadderAssumption`, `AveragingAssumption`, `LifecycleAssumption`),
and the hypotheses in the table. Those of the cycle are about `Env`, what the exchange
may do besides working:

* `Truthful`: no `"GetPosition"`, `"GetOpenOrders"`, `"CancelOrder"`, `"LostResponse"`: what is
  read of the exchange is true, and an order that is placed or cancelled is what the
  answer says. Orders may be refused, filled in parts or not reported.
* `NothingLost`: `Truthful`, and no `"PlaceOrder"`, `"DropEvent"`: orders are accepted, and
  a filled order is reported.
* `NothingHidden`: `NothingLost`, and no `"PartialFill"`: the strategy hears of a fill in
  parts only when it is complete, so that nothing covers the parts until then.
* `NothingFails`: nothing but `"PartialFill"` and `"NoAveragePrice"`.

The theorems of the ladder have no hypotheses beyond the assumptions: the conditions on
the filters are in the properties themselves (`WellSized`, `FirstRungClear`, `InRange`,
`FineTicks`; section 2).

| Theorem | Statement | Inductive invariant |
|---|---|---|
| `EventBusProofs!TypeCorrect` | `Spec => []TypeOK` | itself |
| `EventBusProofs!Conservation` | `Spec => []NothingLost` | with `TypeOK` (one event in `current` exactly while processing) |
| `EventBusProofs!OneCallPerEvent` | `Spec => []ExactlyOnce` | with `TypeOK` and `SinceInLog`: the log never falls back behind the moment of a subscription |
| `EventBusProofs!BusImplementsDelivery` | `Spec => ImplementsDelivery` | needs `NothingLost`: a call for position i of `log` is a call for position i of `accepted`, because `log` is a prefix of it |
| `StrategyProofs!TypeCorrect` | `Spec => []TypeOK` | `Sound` |
| `StrategyProofs!MutualExclusion` | `Spec => []SectionsExclusive` | with `LockType` only |
| `StrategyProofs!CancelsOnlyExits` | `Spec => []TPIsExit` | `Sound` with `TPIsExit` |
| `StrategyProofs!FirstExitIsCovered` | `Spec => []FirstExitFits` | `Sound` with `Fits`: before the first exit fill, every exit order and every amount a thread has read is at most the position |
| `StrategyProofs!PlacingIsLeft` | `"DropEvent" \notin Env` implies `Spec => []PlacingIsTransient` | `Sound` with `AtWork`: only a running process has goroutines |
| `StrategyCycleProofs!RestingExitIsKnown`, `RestingExitIsAlone` | `Truthful` implies `CycleSpec => []ExitIsKnown`, and that there is at most one open exit order while `clean /\ taken = 0` | `Sound` with `Cycle`: a clean cycle is blank, or its position is held (`Held`) and its one exit order is where updateTP and the record say (`OnRecord`) |
| `StrategyCycleProofs!NeverOffersMore` | `Truthful` implies `CycleSpec => []OffersFit` | with `FitsInCycle`: every open exit order, and every amount updateTP has in hand, is at most the position |
| `StrategyCycleProofs!LadderIsPlacedOnce` | `NothingLost` implies `CycleSpec => []LadderIsWhole` | with `StageInCycle`: the ladder is to come (`NotYet`), at rung k with the units before k bought or resting (`Climbing`), or whole (`Complete`) |
| `StrategyCycleProofs!RestIsProtected` | `NothingHidden` implies `CycleSpec => []RestIsCovered` | with `StageInCycle` and two more. `GuardInCycle`, that an exit order stays: another updateTP is owed (`Owed`), or whoever holds tpMu has an order to place or one rests (`Busy`, `Kept`), and an amount in hand is never zero (`Working`). `CoverInCycle`, that it is the right one while none was skipped: owed, or the present updateTP, or the order on record, is for what is held (`Covered`) |
| `StrategyCycleProofs!ClosesCleanly`, `LeavesNoRung` | `NothingFails` implies `CycleSpec => []CleanClose` and `CycleSpec => []NothingRests` | with `ClosedInCycle`: the reset is to come, or done with the wipe to come, or all that rests is in the hands of someone who withdraws it |
| `LadderProofs!RungsMoveAway`, `RungsStayAway` | `Spec => []AwayFromEntry`, `AveragingSpec => []AwayFromEntry` | `Walk`: the level of the loop is beyond the entry, and rounded not before the last rung |
| `LadderProofs!LadderTypes`, `OrdersAlwaysFit`, `LadderIsNotOversized` | `Spec => []TypeOK`, `AveragingSpec => []OrdersFit`, `AveragingSpec => []NotOversized` | `Walk`, which also says of every order what `Rung` computed it from |
| `LadderProofs!TakesAProfit` | `AveragingSpec => []NeverAtALoss` (which is about ticks of at most twice the distance, `FineTicks`) | `Walk` with `Held`: there is a position, and it has cost something |
| `LadderProofs!TakeProfitIsWithinReach` | `AveragingSpec => []WithinReach` | with `Held` and, if `WellSized`, `Rungs` (the level of the loop is the entry and the sum of the distances so far) and `Drawn`: the average is at most two thirds of the way from the last rung filled to the entry, and what a long position has beside its multiples of the unit is not worth more than a unit |
| `LadderProofs!CountErrsOneWayInRange` | `AveragingSpec => []CountErrsOneWay` | with, if `WellSized` and `FirstRungClear`, `Counted`: the same in quantities, as long as the price has not halved or doubled |
| `HedgeProofs!HedgeTypes`, `SumsAreOfHeldPositions` | `Spec => []TypeOK`, `Spec => []NothingInvented` | `HInv`: there is a function that assigns to every strategy read so far a position it had since the check began, and whose sums are the ones reported |
| `HedgeProofs!VerdictOfSteadyPositions` | `Deviates(1, 0)` implies `Spec => []VerdictIsExact` | `HInv` with `Follows`: the verdict is that of the sums |
| `LifecycleProofs!TypeCorrect` | `Spec => []TypeOK` | with `Phases` (no strategy is started before its turn) and `BusInv` (types and contract of the bus) |
| `LifecycleProofs!StartLeavesNoGap` | `Spec => []NoGap` | with `AllTraced`: a fill its strategy has not read is on the stream, in the bus, in the part of the log that the bus owes the strategy, or lost for a reason |
| `LifecycleProofs!EveryCancelIsAsked` | `Spec => []CancelReachesAll` | with `Asked`: the loop has asked for the symbols before its turn |
| `StatusCacheProofs!TypeCorrect`, `Recent`, `NearlyMonotone` | `Spec => []TypeOK`, `[]AnswersAreRecent`, `[]BackAtMostAFill` | `IInv`: a request in progress holds readings since its miss, the cache those of one fill before `lastFetch`, and nothing newer than `lastFetch` was sent |

`Sound` is `TypeOK /\ SectionsExclusive /\ InHand`. Types alone are not inductive:
that `orders[oid[t]]` exists when a thread cancels or stores an order needs
`InHand` (in `tpCancel` and `tpStore` the thread has an id), and that ids stay
valid needs that the order book only grows, which `NextBook` proves action by
action. The proof of `TPIsExit` then needs that an order keeps its side
(`ReplaceKeepsSides` and its siblings), and covers the adoption of an order by
`syncState` after a restart.

`FirstExitFits` rests on the position only growing until the first exit fill: an amount
that was read some calls ago, and an order made of it, stay small enough, however
stale. After that fill nothing of the kind holds, which is what `strategy_flip` shows.
`PlacingIsLeft` allows every other fault. Its one exception is the dropped event, with
which the statement is false (section 6).

The cycle is one argument in six theorems. The base order of a clean cycle finds an
empty book and no other goroutine (`FromRest`), so nothing of an earlier cycle can
place or adopt an order in it; while the position is held nobody takes it for closed
(`Held`: no handler is on the way to the reset of the state, because every read of the
position shows it), so the record is written by updateTP alone, and `SectionsExclusive`
gives it one author (`OnRecord`, `OneExit`). With a wrong read or a failed cancellation
each of these steps fails, which `strategy_flip` and section 6 show. `HeldCases` is what
remains of `Next` then, and the other invariants are proved over it:

* `NeverOffersMore`: the position only grows, so an amount that was read is never too
  large later; and as there is one exit order, the sum of `OffersFit` is its rest
  (`SumSingle`).
* `LadderIsPlacedOnce`: the fills of a clean cycle begin with that of the base order, as
  nothing else rests before the ladder. Whoever handles it sees PLACING_GRID and writes
  IN_POSITION, and no other fill is taken for a base order afterwards. The units
  bought and the units that rest on the entry side (`Total`) grow with every rung and do
  not change with a fill (`RungAdded`, `RungFilled`). `NotYet` also says that nobody holds
  `gridMu` when the one `placeGridOrders` starts. No
  `gridSkipCount = 0` is assumed: the ladder of a clean cycle is never skipped.
* `RestIsProtected`: a fill owes an update from its event to the read of the
  position, and what updateTP has read after the last fill is what is held. Between
  `TPCancel` and `TPPlace` nothing rests, and the amount in hand covers; after a restart
  at rest `syncState` finds the one order there is. For the amount `tpSkipCount = 0` is
  needed: the TryLock of updateTP does fail in clean cycles. That an order is there does
  not depend on it: the updateTP that had the lock is the one that places it
  (`GuardInvariant`), because the position it read was not zero. `"PartialFill"` has to be excluded:
  a part of a rung that was bought is not covered until the rung is complete.
* `ClosesCleanly`, `LeavesNoRung`: when the exit fill closes the position, its event or
  its handler is on the way to the reset and to the wipe. Meanwhile updateTP may place
  another order, and the test at its end withdraws it, because it comes after the
  reset if the wipe does not come after it (`Closed`, `Withdrawn`).

The runs have no such faults (`strategy_cycle` has `Env = {}`), so the proofs say more
than the run in every respect. The invariants were checked with TLC first, also with
partial fills, missing average prices, refused orders, lost events and three fills.

`StartLeavesNoGap` is compositional. `BusMoves` shows that every step of the program is
a step of the bus or the end of its process, so that the lemmas of `EventBusProofs` hold
of the instance (`BusFacts`), and the proof of the start needs of the bus only its
contract `ExactlyOnce` and `SinceInLog`: a handler is owed every event that is processed
after it subscribed. "Subscribe, then read" is the rest: a fill is either before the
read, and in it, or after it, and then behind the subscription in every queue.

`RungsStayAway` needs that rounding to a tick is monotone (`RoundMonotone`), which comes
down to the quotient of the division with remainder, and that a distance is never
negative, whichever ATRs are missing (`DistanceIsNat`).

Sums are folds over sets in the model (`MapThenSumSet`), and a fold is a choice of an
order, so that even its value for a set with one element more takes a proof. `SumProofs`
has it: the sum of a set is that of the set without any one of its members, and the
member. The induction is over sets of natural numbers by their least counterexample
(`NatSetInduction`), which needs no theorem with an operator for a parameter. The order
book, the ladder and the hedge rest on it.

`NeverAtALoss`, `OrdersFit` and `NotOversized` are statements of integer arithmetic, about
roundings of a quotient (`RoundToTickOf`, `RoundUpToStep`) whose product with the divisor
is compared; the provers get them one product at a time. In `Hedge` the sums of a check
never existed together, and the invariant has a witness instead of a state: each
`Read` extends the function by the value it found, each `Trade` leaves what was seen seen.
`VerdictOfSteadyPositions` needs `Deviates(1, 0)`: the code writes 999 for the ratio
without a short position, and with a target and a threshold that have 999 inside the
band it would keep quiet about a hedge that has lost a whole side.

`WithinReach` is why the multiples are Fibonacci numbers. A rung d beyond the last one
draws the average enough if it is at least half as large as the position
(`LargeRungDraws`), and base order and n rungs are at most twice the units of the
next rung. A base order for another price is at most two units and fits (`BaseIsSmall`).
What does not fit are the rungs of a long ladder that were enlarged to reach
MinNotional: they make the position larger than its multiples. This `Extra` is worth at
most a unit until the price has halved, because until then only the first rung can have
been enlarged, and at most a unit per rung afterwards, when the price has come so far that
the next rung draws it anyway (`EnlargedRungDraws`, `ExtraStaysSmall`). `Drawn` states the
two bounds; the average alone is not inductive.

`CountErrsOneWayInRange` compares the unit at the average with the unit of the ladder: it
is no smaller when long, no larger but at least half as large when short (`UnitAtPrice`),
and the position with n rungs is 2f - 3 half units at least, where f is the number
after next (`UnitsAre`, `ReachesIs`). From the second rung on the multiples leave room for
the `Extra`. The first rung is the narrow case: with a base order and a rung both
rounded up by nearly a step, 7 half units of the average would count as two rungs, and
`FirstRungIsOne` shows that the same rounding then enlarges the unit at the average.

The layout follows the actions: `NextCases` splits `Next` once and for all, every
`Next...` lemma treats one group of variables.

## 5. What is only model-checked

* Liveness (all `~>`, `[]<>` and `<>[]` properties): out of reach of the prover under
  fairness.
* The larger instances of section 3.
* The four claims of section 6 that the code does not keep.

## 6. Where code and documentation disagree

Each of these is a run that TLC finds violated:

* `strategy_panic` (`NoPanic`): strategy.go:277 and 341 drop the error of
  `GetPosition` and read the nil position. One failed request after a safety fill
  ends the process; README.md:17 claims complete error handling.
* `strategy_duplicate` (`NoSecondBase`): `Start` subscribes (strategy.go:126) before
  it syncs. A tick buys the base order, `syncState` writes IDLE over
  PLACING_GRID with what it read before, the next tick buys again. README.md:16
  claims that locks prevent duplicate orders.
* `strategy_flip` (`NeverFlips`): a take profit filled between `GetPosition` and
  `CancelOrder` of `updateTP` is placed, and possibly sold, once more
  (strategy.go:685 takes the failed cancellation for harmless).
* `strategy_unprotected` (`HeldIsProtected`): the handler of the closing fill sets
  IDLE (strategy.go:301-306), posts a notification (up to 10 seconds) and only then
  calls `CancelAllOrders` (strategy.go:310). A tick in between opens the next cycle; its
  ladder and its take profit are wiped, and `currentTPOrderID` keeps an order that
  no longer exists. Only a restart repairs what strategy.go:171 reports as "Detected
  position without TP order".

Observed while modelling, without a run of their own. The strategy:

* A dropped FILLED event of the base order (full channel, or a gap of the
  stream) leaves the strategy in PLACING_GRID with a position that has neither a
  ladder nor a take profit, until a restart.
* `handleTick` sets IDLE (strategy.go:222-224) before it stamps the time of the
  error (strategy.go:226-230), so one tick can slip in before the cooldown.
* With an overtaking exit handler, an error of `GetPosition` after an exit fill, or a
  safety fill between the take profit and the read of the position, the state is
  IDLE with a position (README.md:139 ties IDLE to none), and a late handler that
  found the position still open can write IN_POSITION over PLACING_GRID of the next
  cycle.
* `placeGridOrders` never looks at the state: a ladder that is still being placed
  when the position is closed goes on into the book while the strategy is IDLE, and
  the next cycle adds its own to it (`early` in `NothingRests`).
* A fill of the base order that is handled between the subscription and the end of
  `syncState` is taken for a safety fill when `syncState` has found the position, and
  no ladder is placed in that cycle.
* `syncState` adopts any exit order it finds for the take profit, whatever its
  quantity (strategy.go:150-168).
* A skipped `updateTP` is not repeated, so the take profit can stay too small after
  a safety fill (README.md:149-151 has the fill update it). `RestIsCovered` says
  that without faults this is the only way. The `updateTP` of an old cycle that waits
  for its notification holds `tpMu`, and `gridMu` if `placeGridOrders` called it: the
  ladder of a new cycle is then skipped.
* `s.position` is only written by `syncState` (strategy.go:141): the dashboard shows
  the position of the start for ever, where handler.go:58 says current, and after a
  start without a position no ladder at all (handler.go:203-205).
* A market order whose response was lost counts as an error (strategy.go:421): the state
  is IDLE beside a position until the FILLED event is handled, and a tick after the
  cooldown may buy again before it.

The arithmetic:

* getFibonacci gives 1, 2, 3, 5, ..., the table of README.md:187-197 1, 1, 2, 3, ...
  (they agree if the base order counts as the first level).
* The base order is raised to `minQty` (strategy.go:405), the rungs are not: where a
  unit is less, the exchange refuses the first rungs, which is only logged.
* A long ladder that comes down to zero goes on with orders at prices of zero and below
  (strategy.go:578-600), which the exchange refuses.
* The ladder of the dashboard (handler.go:202-269) is not the one that was placed: its
  table has no 2h distance, its quantities ignore the capital weight and the filters, it
  fetches the ATRs of the moment, and it starts from the entry price of the start.
* With coarse filters the take profit can be farther away than `WithinReach` says (first
  rungs that are too small draw the average too little), and base order and first rung
  together can count as two. `getFilledSafetyCount` can be more than one behind for a
  long ladder that has fallen far, and several ahead for a short one whose price has
  more than doubled.
* README.md:181 names a 15m ATR where the code takes 30m.

The rest:

* An empty hedge has ratio 0 and is alerted at every check (coordinator.go:162-177) if
  the threshold is below 1 (`ShouldAlert`),
  where README.md:161 says that a deviation is.
* main logs "All orders cancelled" (main.go:114) in any case: the error of each
  call is only logged (binance.go:265-273). The strategies run on meanwhile, and what
  they place after their symbol's turn stays in the book.
* A signal before `signal.Notify` (main.go:106) ends the process without any
  cancellation.
* Nothing connects a stream again that has ended (binance.go:188-197).

## 7. Not modelled

* Prices in `Strategy`; the ATR itself (go-talib); rounding errors of floats beyond
  what the epsilon removes.
* `activeOrders` and the state `CLOSING`, which the code declares and never uses;
  the unlocked read in strategy.go:429 of a field written above it, which only
  feeds the log.
* Orders of the user that rest on the exchange beside the strategy's, other order
  types, liquidation.
* Keepalive of the listen key, the time service, position events, to which nobody
  subscribes.
* Storage: nothing in the program writes an order or takes the Redis lock. The
  pages of orders and the P&L (handler.go:272-375) are queries of that empty table:
  any property of them would be about rows that cannot exist.
* The ladder of the dashboard (`calculateGridLevels`): it is computed from other inputs
  than the orders that were placed, so nothing relates the two (section 6).
* Notifier, configuration, logger, dashboard: formatting and library set-up. The
  one thing of the notifier that matters to the others, that it blocks its caller for
  up to 10 seconds, needs no model of its own: any step of a goroutine may come late.

## 8. Plan

Done: bus and its contract; strategy with faults, its locks, its cycles and what one
leaves to the next; ladder, take profit and the other readings of a position; hedge;
status cache; start, shutdown and restarts; proofs of the bus, of the status cache, of
the start and the shutdown, of the ladder, its take profit and its count of rungs, of
the hedge, of the strategy's types, mutual exclusion, ids, first exit fill and the end of
PLACING_GRID, and of all that a clean cycle guarantees.

Next, in this order:

1. An abstract specification of the strategy (flat, opening, holding, closing)
   with the exchange's book hidden, and the refinement for clean cycles.
