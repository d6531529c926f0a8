------------------------------- MODULE Strategy -------------------------------
(***************************************************************************)
(* internal/strategy/strategy.go: one MartingaleStrategy, its goroutines   *)
(* and its exchange account.                                               *)
(*                                                                         *)
(* Every goroutine of the strategy is a thread of a pool: the handler of a *)
(* tick, the handler of an order update, placeGridOrders, updateTP.  An    *)
(* action is what a goroutine does between two points where another one    *)
(* can get in: a call of the exchange, or a critical section of mu.        *)
(*                                                                         *)
(* The LONG and SHORT branches of the code mirror each other, so sides are *)
(* "entry" (BUY when long) and "exit" (SELL when long), and pos counts     *)
(* units of the base order in the direction of the strategy: a negative    *)
(* pos is a position on the wrong side.  Prices are left out.              *)
(***************************************************************************)
EXTENDS Integers, Sequences

CONSTANTS Threads,          \* the pool of goroutines
          NoThread,         \* owner of a mutex nobody holds
          MaxSafetyOrders,  \* rungs of the ladder
          SafetyUnits,      \* SafetyUnits[i]: units of the i-th safety order
          Env,              \* what the environment may do besides working
          MaxEntries,       \* bound: market entries the strategy attempts
          MaxFills,         \* bound: fills of resting orders
          MaxManual,        \* bound: positions closed by hand
          MaxCrashes        \* bound: crashes of the process

\* Errors of exchange calls; an order that is placed although the call fails
\* (LostResponse); an order event that never arrives (DropEvent); orders
\* filled in several parts; a fill event without its average price; an exit
\* event whose handler reads the position, after its wait of 500 ms, before the
\* handler of an earlier entry event has run at all (Overtaking).
EnvKinds == {"GetPosition", "GetOpenOrders", "PlaceOrder", "LostResponse",
             "CancelOrder", "CancelAllOrders", "DropEvent", "PartialFill",
             "NoAveragePrice", "Overtaking"}

ASSUME StrategyAssumption ==
  /\ NoThread \notin Threads
  /\ MaxSafetyOrders \in Nat
  /\ SafetyUnits \in [1 .. MaxSafetyOrders -> Nat \ {0}]
  /\ Env \subseteq EnvKinds
  /\ MaxEntries \in Nat /\ MaxFills \in Nat
  /\ MaxManual \in Nat /\ MaxCrashes \in Nat

VARIABLES
  (* the exchange *)
  pos,            \* the position
  orders,         \* orders[o]: order o, with the quantity it has resting
  fills,          \* orders whose FILLED event no handler has taken yet
  (* the strategy's memory *)
  phase,          \* of the process: down, booting, syncing, up, panicked
  currentState,
  currentTPOrderID,
  positionValue,
  position,       \* the cached position, as GetStatus shows it
  cooling,        \* time.Since(lastErrorTime) < errorCooldown
  gridMu, tpMu,   \* owners of the two mutexes
  gridSkipCount, tpSkipCount,
  (* goroutines *)
  gridGo, tpGo,   \* how many "go placeGridOrders", "go updateTP" wait to run
  cancelGo,       \* orders of the "go CancelOrder" that wait to run
  pc, amt, oid, level,  \* per thread: where it is, what it has read
  (* history *)
  exits,          \* how many exit orders have been filled, in part or in whole
  (* bounds *)
  entries, filled, manual, crashes

exchange == <<pos, orders, fills>>
memory == <<currentState, currentTPOrderID, positionValue, position, cooling>>
mutexes == <<gridMu, tpMu>>
skips == <<gridSkipCount, tpSkipCount>>
pending == <<gridGo, tpGo, cancelGo>>
locals == <<amt, oid, level>>
bounds == <<exits, entries, filled, manual, crashes>>
vars == <<exchange, phase, memory, mutexes, skips, pending, pc, locals, bounds>>

States == {"IDLE", "PLACING_GRID", "IN_POSITION"}
Sides == {"entry", "exit"}
Phases == {"down", "booting", "syncing", "up", "panicked"}
TPSection == {"tpRead", "tpFlat", "tpCheck", "tpCancel", "tpPlace", "tpStore"}
GridSection == {"gridPrice", "ladder"}
Handling == {"enter", "entered", "rejected", "stamp", "reprice", "closing",
             "stillOpen", "wipe"}
PC == {"idle"} \cup Handling \cup GridSection \cup TPSection

Order == [side : Sides, rem : Nat]
Open(o) == orders[o].rem > 0

\* The orders that rest.  (A bug, for comparison, if syncState takes one of
\* either side for the take profit.)
OpenOrders == {o \in DOMAIN orders : Open(o)}

\* The limit orders on the exit side, in which syncState looks for the take
\* profit.
OpenExits == {o \in DOMAIN orders : orders[o].side = "exit" /\ Open(o)}
NextID == Len(orders) + 1

\* The process is up and has subscribed to the bus.
Running == phase \in {"booting", "syncing", "up"}
\* Start holds mu while it syncs, everybody else only within an action.
MuFree == Running /\ phase # "syncing"

Goto(t, where) == pc' = [pc EXCEPT ![t] = where]
At(t, where) == pc[t] = where

\* A FILLED event is published to the strategy, if it runs and nothing loses it.
Emit(o) == fills' \in {f \in {fills, fills \cup {o}} :
                         /\ o \in f => Running
                         /\ o \notin f => ~Running \/ "DropEvent" \in Env}

\* The exchange accepts an order; it has rem left to fill when it rests.
Place(side, rem) == orders' = Append(orders, [side |-> side, rem |-> rem])
Withdraw(o) == orders' = [orders EXCEPT ![o].rem = 0]

-------------------------------------------------------------------------------
Init ==
  /\ pos = 0 /\ orders = <<>> /\ fills = {}
  /\ phase = "down"
  /\ currentState = "IDLE" /\ currentTPOrderID = 0
  /\ positionValue = 0 /\ position = 0 /\ cooling = FALSE
  /\ gridMu = NoThread /\ tpMu = NoThread
  /\ gridSkipCount = 0 /\ tpSkipCount = 0
  /\ gridGo = 0 /\ tpGo = 0 /\ cancelGo = {}
  /\ pc = [t \in Threads |-> "idle"]
  /\ amt = [t \in Threads |-> 0]
  /\ oid = [t \in Threads |-> 0]
  /\ level = [t \in Threads |-> 0]
  /\ exits = 0
  /\ entries = 0 /\ filled = 0 /\ manual = 0 /\ crashes = 0

(* Start: it subscribes first and then syncs, so handlers may run in between.  The
   two subscriptions, of ticks and of orders, follow each other at once and are one
   step. *)

Start ==
  /\ phase \in {"down", "panicked"}
  /\ phase' = "booting"
  /\ UNCHANGED <<exchange, memory, mutexes, skips, pending, pc, locals, bounds>>

\* syncState up to the open orders; mu is kept when there is a position.
SyncPosition ==
  /\ phase = "booting"
  /\ \/ /\ "GetPosition" \in Env
        /\ phase' = "up"
        /\ UNCHANGED <<position, currentState>>
     \/ /\ position' = pos
        /\ currentState' = IF pos = 0 THEN "IDLE" ELSE "IN_POSITION"
        /\ phase' = IF pos = 0 THEN "up" ELSE "syncing"
  /\ UNCHANGED <<exchange, currentTPOrderID, positionValue, cooling, mutexes,
                 skips, pending, pc, locals, bounds>>

\* syncState with a position: adopt an exit order, or have one placed.
SyncOrders ==
  /\ phase = "syncing"
  /\ phase' = "up"
  /\ \/ /\ "GetOpenOrders" \in Env
        /\ UNCHANGED <<currentTPOrderID, tpGo>>
     \/ /\ \E o \in OpenExits : currentTPOrderID' = o
        /\ UNCHANGED tpGo
     \/ /\ OpenExits = {}
        /\ tpGo' = tpGo + 1
        /\ UNCHANGED currentTPOrderID
  /\ UNCHANGED <<exchange, currentState, positionValue, position, cooling,
                 mutexes, skips, gridGo, cancelGo, pc, locals, bounds>>

(* handleTick and enterPosition *)

\* A tick finds the strategy idle and not cooling down, and claims it.
HandleTick(t) ==
  /\ At(t, "idle") /\ MuFree
  /\ currentState = "IDLE" /\ ~cooling
  /\ entries < MaxEntries
  /\ entries' = entries + 1
  /\ currentState' = "PLACING_GRID"
  /\ Goto(t, "enter")
  /\ UNCHANGED <<exchange, phase, currentTPOrderID, positionValue, position,
                 cooling, mutexes, skips, pending, locals, exits, filled, manual,
                 crashes>>

\* The market order of enterLong or enterShort, one unit, filled at once.
EnterPosition(t) ==
  /\ At(t, "enter")
  /\ \/ /\ Place("entry", 0)
        /\ pos' = pos + 1
        /\ Emit(NextID)
        /\ \/ Goto(t, "entered")
           \/ "LostResponse" \in Env /\ Goto(t, "rejected")
     \/ /\ "PlaceOrder" \in Env
        /\ Goto(t, "rejected")
        /\ UNCHANGED exchange
  /\ UNCHANGED <<phase, memory, mutexes, skips, pending, locals, bounds>>

EnterReturn(t) ==
  /\ At(t, "entered") /\ MuFree
  /\ positionValue' = 1
  /\ Goto(t, "idle")
  /\ UNCHANGED <<exchange, phase, currentState, currentTPOrderID, position,
                 cooling, mutexes, skips, pending, locals, bounds>>

\* A bug, for comparison: after an error the state is left as it is.
EnterFailStuck(t) ==
  /\ At(t, "rejected") /\ MuFree
  /\ Goto(t, "stamp")
  /\ UNCHANGED <<exchange, phase, memory, mutexes, skips, pending, locals, bounds>>

\* handleTick after an error: the state first, ...
EnterFail(t) ==
  /\ At(t, "rejected") /\ MuFree
  /\ currentState' = "IDLE"
  /\ Goto(t, "stamp")
  /\ UNCHANGED <<exchange, phase, currentTPOrderID, positionValue, position,
                 cooling, mutexes, skips, pending, locals, bounds>>

\* ... the time of the error, under its own mutex, afterwards.
StampCooldown(t) ==
  /\ At(t, "stamp")
  /\ cooling' = TRUE
  /\ Goto(t, "idle")
  /\ UNCHANGED <<exchange, phase, currentState, currentTPOrderID, positionValue,
                 position, mutexes, skips, pending, locals, bounds>>

CooldownOver ==
  /\ cooling
  /\ cooling' = FALSE
  /\ UNCHANGED <<exchange, phase, currentState, currentTPOrderID, positionValue,
                 position, mutexes, skips, pending, pc, locals, bounds>>

(* handleOrderUpdate *)

\* A bug, for comparison: prevState is read after the state was written, so that
\* no fill is taken for the base order.
EntryFilledLate(t, o) ==
  /\ o \in fills /\ orders[o].side = "entry"
  /\ At(t, "idle") /\ MuFree
  /\ fills' = fills \ {o}
  /\ currentState' = "IN_POSITION"
  /\ Goto(t, "reprice")
  /\ UNCHANGED <<pos, orders, phase, currentTPOrderID, positionValue, position,
                 cooling, mutexes, skips, pending, locals, bounds>>

\* An entry-side order was filled: the base order when the strategy was idle or
\* placing, a safety order otherwise.
EntryFilled(t, o) ==
  /\ o \in fills /\ orders[o].side = "entry"
  /\ At(t, "idle") /\ MuFree
  /\ fills' = fills \ {o}
  /\ currentState' = "IN_POSITION"
  /\ IF currentState \in {"IDLE", "PLACING_GRID"}
     THEN gridGo' = gridGo + 1 /\ UNCHANGED pc
     ELSE Goto(t, "reprice") /\ UNCHANGED gridGo
  /\ UNCHANGED <<pos, orders, phase, currentTPOrderID, positionValue, position,
                 cooling, mutexes, skips, tpGo, cancelGo, locals, bounds>>

\* A bug, for comparison: the take profit is not updated after a safety fill.
RepriceForgets(t) ==
  /\ At(t, "reprice")
  /\ Goto(t, "idle")
  /\ UNCHANGED <<exchange, phase, memory, mutexes, skips, pending, locals, bounds>>

\* The position of a safety fill is read for the notification, then the take
\* profit is updated.
Reprice(t) ==
  /\ At(t, "reprice")
  /\ tpGo' = tpGo + 1
  /\ Goto(t, "idle")
  /\ UNCHANGED <<exchange, phase, memory, mutexes, skips, gridGo, cancelGo,
                 locals, bounds>>

\* An exit-side order was filled: what is left of the position?  An error of
\* GetPosition counts as nothing.
ExitFilled(t, o) ==
  /\ o \in fills /\ orders[o].side = "exit"
  /\ At(t, "idle") /\ Running
  /\ \/ "Overtaking" \in Env
     \/ \A f \in fills : orders[f].side = "exit"
  /\ fills' = fills \ {o}
  /\ \/ Goto(t, IF pos = 0 THEN "closing" ELSE "stillOpen")
     \/ "GetPosition" \in Env /\ Goto(t, "closing")
  /\ UNCHANGED <<pos, orders, phase, memory, mutexes, skips, pending, locals,
                 bounds>>

ExitClose(t) ==
  /\ At(t, "closing") /\ MuFree
  /\ currentState' = "IDLE"
  /\ currentTPOrderID' = 0
  /\ positionValue' = 0
  /\ Goto(t, "wipe")
  /\ UNCHANGED <<exchange, phase, position, cooling, mutexes, skips, pending,
                 locals, bounds>>

\* A bug, for comparison: only the exit orders are cancelled.
CancelExitsOnly(t) ==
  /\ At(t, "wipe")
  /\ orders' = [o \in DOMAIN orders |->
                 IF orders[o].side = "exit" THEN [orders[o] EXCEPT !.rem = 0]
                 ELSE orders[o]]
  /\ Goto(t, "idle")
  /\ UNCHANGED <<pos, fills, phase, memory, mutexes, skips, pending, locals,
                 bounds>>

CancelAllOrders(t) ==
  /\ At(t, "wipe")
  /\ \/ orders' = [o \in DOMAIN orders |-> [orders[o] EXCEPT !.rem = 0]]
     \/ "CancelAllOrders" \in Env /\ UNCHANGED orders
  /\ Goto(t, "idle")
  /\ UNCHANGED <<pos, fills, phase, memory, mutexes, skips, pending, locals,
                 bounds>>

ExitStillOpen(t) ==
  /\ At(t, "stillOpen") /\ MuFree
  /\ currentState' = "IN_POSITION"
  /\ tpGo' = tpGo + 1
  /\ Goto(t, "idle")
  /\ UNCHANGED <<exchange, phase, currentTPOrderID, positionValue, position,
                 cooling, mutexes, skips, gridGo, cancelGo, locals, bounds>>

(* placeGridOrders *)

GridStart(t) ==
  /\ gridGo > 0 /\ At(t, "idle") /\ gridMu = NoThread
  /\ gridGo' = gridGo - 1
  /\ gridMu' = t
  /\ \/ Goto(t, "ladder") /\ level' = [level EXCEPT ![t] = 1]
     \/ "NoAveragePrice" \in Env /\ Goto(t, "gridPrice") /\ UNCHANGED level
  /\ UNCHANGED <<exchange, phase, memory, tpMu, skips, tpGo, cancelGo, amt, oid,
                 bounds>>

GridSkip ==
  /\ gridGo > 0 /\ gridMu # NoThread /\ MuFree
  /\ gridGo' = gridGo - 1
  /\ gridSkipCount' = gridSkipCount + 1
  /\ UNCHANGED <<exchange, phase, memory, mutexes, tpSkipCount, tpGo, cancelGo,
                 pc, locals, bounds>>

\* The entry price comes from the position; without one there is no grid.
GridPrice(t) ==
  /\ At(t, "gridPrice")
  /\ \/ /\ pos # 0
        /\ Goto(t, "ladder")
        /\ level' = [level EXCEPT ![t] = 1]
        /\ UNCHANGED gridMu
     \/ /\ pos = 0 \/ "GetPosition" \in Env
        /\ Goto(t, "idle")
        /\ gridMu' = NoThread
        /\ UNCHANGED level
  /\ UNCHANGED <<exchange, phase, memory, tpMu, skips, pending, amt, oid, bounds>>

\* One rung.  An error of PlaceOrder is logged and the loop goes on.
GridPlace(t) ==
  /\ At(t, "ladder") /\ level[t] <= MaxSafetyOrders
  /\ \/ Place("entry", SafetyUnits[level[t]])
     \/ "PlaceOrder" \in Env /\ UNCHANGED orders
  /\ level' = [level EXCEPT ![t] = @ + 1]
  /\ UNCHANGED <<pos, fills, phase, memory, mutexes, skips, pending, pc, amt,
                 oid, bounds>>

\* The call of updateTP at the end, with gridMu still held.
GridDone(t) ==
  /\ At(t, "ladder") /\ level[t] > MaxSafetyOrders
  /\ level' = [level EXCEPT ![t] = 0]
  /\ \/ /\ tpMu = NoThread
        /\ tpMu' = t
        /\ Goto(t, "tpRead")
        /\ UNCHANGED <<gridMu, tpSkipCount>>
     \/ /\ tpMu # NoThread /\ MuFree
        /\ tpSkipCount' = tpSkipCount + 1
        /\ gridMu' = NoThread
        /\ Goto(t, "idle")
        /\ UNCHANGED tpMu
  /\ UNCHANGED <<exchange, phase, memory, gridSkipCount, pending, amt, oid, bounds>>

(* updateTP *)

\* A bug, for comparison: updateTP without the TryLock.
TPStartUnlocked(t) ==
  /\ tpGo > 0 /\ At(t, "idle")
  /\ tpGo' = tpGo - 1
  /\ tpMu' = t
  /\ Goto(t, "tpRead")
  /\ UNCHANGED <<exchange, phase, memory, gridMu, skips, gridGo, cancelGo,
                 locals, bounds>>

TPStart(t) ==
  /\ tpGo > 0 /\ At(t, "idle") /\ tpMu = NoThread
  /\ tpGo' = tpGo - 1
  /\ tpMu' = t
  /\ Goto(t, "tpRead")
  /\ UNCHANGED <<exchange, phase, memory, gridMu, skips, gridGo, cancelGo,
                 locals, bounds>>

TPSkip ==
  /\ tpGo > 0 /\ tpMu # NoThread /\ MuFree
  /\ tpGo' = tpGo - 1
  /\ tpSkipCount' = tpSkipCount + 1
  /\ UNCHANGED <<exchange, phase, memory, mutexes, gridSkipCount, gridGo,
                 cancelGo, pc, locals, bounds>>

\* A bug, for comparison: placeGridOrders forgets its deferred unlock.
ReturnTPKeepsGrid(t) ==
  /\ tpMu' = NoThread
  /\ UNCHANGED gridMu
  /\ Goto(t, "idle")
  /\ amt' = [amt EXCEPT ![t] = 0]
  /\ oid' = [oid EXCEPT ![t] = 0]

\* updateTP returns: it releases tpMu, and gridMu too when placeGridOrders
\* called it.
ReturnTP(t) ==
  /\ tpMu' = NoThread
  /\ gridMu' = IF gridMu = t THEN NoThread ELSE gridMu
  /\ Goto(t, "idle")
  /\ amt' = [amt EXCEPT ![t] = 0]
  /\ oid' = [oid EXCEPT ![t] = 0]

\* Bugs, for comparison: the amount with its sign, and rounded up a step.
SignedAmount == pos
RoundedUpAmount == IF pos < 0 THEN 1 - pos ELSE 1 + pos

\* The quantity of the take profit for the position there is.
TPAmount == IF pos < 0 THEN -pos ELSE pos

TPRead(t) ==
  /\ At(t, "tpRead")
  /\ \/ /\ amt' = [amt EXCEPT ![t] = TPAmount]
        /\ Goto(t, IF pos = 0 THEN "tpFlat" ELSE "tpCheck")
        /\ UNCHANGED <<mutexes, oid>>
     \/ "GetPosition" \in Env /\ ReturnTP(t)
  /\ UNCHANGED <<exchange, phase, memory, skips, pending, level, bounds>>

TPFlat(t) ==
  /\ At(t, "tpFlat") /\ MuFree
  /\ currentTPOrderID' = 0
  /\ ReturnTP(t)
  /\ UNCHANGED <<exchange, phase, currentState, positionValue, position, cooling,
                 skips, pending, level, bounds>>

\* The read lock is held across fetchATR, so no writer gets in between the test
\* of the state and the read of the order to replace.
TPCheck(t) ==
  /\ At(t, "tpCheck") /\ MuFree
  /\ \/ /\ currentState = "IDLE"
        /\ ReturnTP(t)
     \/ /\ currentState # "IDLE"
        /\ oid' = [oid EXCEPT ![t] = currentTPOrderID]
        /\ Goto(t, IF currentTPOrderID # 0 THEN "tpCancel" ELSE "tpPlace")
        /\ UNCHANGED <<mutexes, amt>>
  /\ UNCHANGED <<exchange, phase, memory, skips, pending, level, bounds>>

\* A bug, for comparison: the old order stays beside the new one.
TPCancelForgets(t) ==
  /\ At(t, "tpCancel")
  /\ oid' = [oid EXCEPT ![t] = 0]
  /\ Goto(t, "tpPlace")
  /\ UNCHANGED <<exchange, phase, memory, mutexes, skips, pending, amt, level,
                 bounds>>

\* Whether the old order could be cancelled or not, a new one follows.
TPCancel(t) ==
  /\ At(t, "tpCancel")
  /\ \/ Withdraw(oid[t])
     \/ "CancelOrder" \in Env /\ UNCHANGED orders
  /\ oid' = [oid EXCEPT ![t] = 0]
  /\ Goto(t, "tpPlace")
  /\ UNCHANGED <<pos, fills, phase, memory, mutexes, skips, pending, amt, level,
                 bounds>>

TPPlace(t) ==
  /\ At(t, "tpPlace")
  /\ \/ /\ Place("exit", amt[t])
        /\ oid' = [oid EXCEPT ![t] = NextID]
        /\ Goto(t, "tpStore")
        /\ UNCHANGED <<mutexes, amt>>
     \/ "LostResponse" \in Env /\ Place("exit", amt[t]) /\ ReturnTP(t)
     \/ "PlaceOrder" \in Env /\ UNCHANGED orders /\ ReturnTP(t)
  /\ UNCHANGED <<pos, fills, phase, memory, skips, pending, level, bounds>>

\* A bug, for comparison: the new take profit is stored in any state.
TPStoreAlways(t) ==
  /\ At(t, "tpStore") /\ MuFree
  /\ currentTPOrderID' = oid[t]
  /\ ReturnTP(t)
  /\ UNCHANGED <<exchange, phase, currentState, positionValue, position, cooling,
                 skips, pending, level, bounds>>

TPStore(t) ==
  /\ At(t, "tpStore") /\ MuFree
  /\ IF currentState = "IDLE"
     THEN /\ cancelGo' = cancelGo \cup {oid[t]}
          /\ UNCHANGED currentTPOrderID
     ELSE /\ currentTPOrderID' = oid[t]
          /\ UNCHANGED cancelGo
  /\ ReturnTP(t)
  /\ UNCHANGED <<exchange, phase, currentState, positionValue, position, cooling,
                 skips, gridGo, tpGo, level, bounds>>

\* The goroutine that withdraws a take profit stored too late.
CancelNewTP(o) ==
  /\ o \in cancelGo
  /\ cancelGo' = cancelGo \ {o}
  /\ \/ Withdraw(o)
     \/ "CancelOrder" \in Env /\ UNCHANGED orders
  /\ UNCHANGED <<pos, fills, phase, memory, mutexes, skips, gridGo, tpGo, pc,
                 locals, bounds>>

(* The market, the user and the process *)

\* A resting order is filled, in whole or in part.  Only the last part is
\* reported with status FILLED.
Fill(o) ==
  /\ o \in DOMAIN orders /\ Open(o)
  /\ filled < MaxFills
  /\ filled' = filled + 1
  /\ \E n \in 1 .. orders[o].rem :
       /\ n = orders[o].rem \/ "PartialFill" \in Env
       /\ orders' = [orders EXCEPT ![o].rem = @ - n]
       /\ IF orders[o].side = "entry"
          THEN pos' = pos + n /\ UNCHANGED exits
          ELSE pos' = pos - n /\ exits' = exits + 1
       /\ IF n = orders[o].rem THEN Emit(o) ELSE UNCHANGED fills
  /\ UNCHANGED <<phase, memory, mutexes, skips, pending, pc, locals, entries,
                 manual, crashes>>

\* The user closes the position at the market.
ManualExit ==
  /\ pos > 0 /\ manual < MaxManual
  /\ manual' = manual + 1
  /\ Place("exit", 0)
  /\ pos' = 0
  /\ exits' = exits + 1
  /\ Emit(NextID)
  /\ UNCHANGED <<phase, memory, mutexes, skips, pending, pc, locals, entries,
                 filled, crashes>>

\* Everything in memory is lost, and with it the events on their way.
LoseMemory ==
  /\ fills' = {}
  /\ currentState' = "IDLE" /\ currentTPOrderID' = 0
  /\ positionValue' = 0 /\ position' = 0 /\ cooling' = FALSE
  /\ gridMu' = NoThread /\ tpMu' = NoThread
  /\ gridSkipCount' = 0 /\ tpSkipCount' = 0
  /\ gridGo' = 0 /\ tpGo' = 0 /\ cancelGo' = {}
  /\ pc' = [t \in Threads |-> "idle"]
  /\ amt' = [t \in Threads |-> 0]
  /\ oid' = [t \in Threads |-> 0]
  /\ level' = [t \in Threads |-> 0]
  /\ UNCHANGED <<pos, orders>>

\* handleOrderUpdate drops the error of GetPosition and reads pos.EntryPrice.
PanicReprice(t) ==
  /\ At(t, "reprice")
  /\ "GetPosition" \in Env
  /\ phase' = "panicked"
  /\ LoseMemory
  /\ UNCHANGED bounds

Crash ==
  /\ Running /\ crashes < MaxCrashes
  /\ crashes' = crashes + 1
  /\ phase' = "down"
  /\ LoseMemory
  /\ UNCHANGED <<exits, entries, filled, manual>>

\* Nothing of the strategy is under way.
Quiescent ==
  /\ phase = "up"
  /\ \A t \in Threads : At(t, "idle")
  /\ fills = {} /\ gridGo = 0 /\ tpGo = 0 /\ cancelGo = {}

\* The strategy waits for the market: the only state it may stop in.
Wait == Quiescent /\ UNCHANGED vars

-------------------------------------------------------------------------------
HandleOrderUpdate(t) == \E o \in fills : EntryFilled(t, o) \/ ExitFilled(t, o)

EnterStep(t) ==
  EnterPosition(t) \/ EnterReturn(t) \/ EnterFail(t) \/ StampCooldown(t)

HandlerStep(t) ==
  Reprice(t) \/ ExitClose(t) \/ CancelAllOrders(t) \/ ExitStillOpen(t)

GridStep(t) == GridPrice(t) \/ GridPlace(t) \/ GridDone(t)

TPStep(t) ==
  TPRead(t) \/ TPFlat(t) \/ TPCheck(t) \/ TPCancel(t) \/ TPPlace(t) \/ TPStore(t)

Sync == SyncPosition \/ SyncOrders
Spawned == (\E t \in Threads : GridStart(t) \/ TPStart(t)) \/ GridSkip \/ TPSkip

Next ==
  \/ Start \/ Sync
  \/ \E t \in Threads :
       \/ HandleTick(t) \/ HandleOrderUpdate(t)
       \/ EnterStep(t) \/ HandlerStep(t) \/ GridStep(t) \/ TPStep(t)
       \/ PanicReprice(t)
  \/ Spawned
  \/ \E o \in cancelGo : CancelNewTP(o)
  \/ CooldownOver
  \/ \E o \in DOMAIN orders : Fill(o)
  \/ ManualExit \/ Crash
  \/ Wait

\* Goroutines are scheduled, exchange calls return (the code sets no timeout: it
\* relies on the connection to end a call), events that were published are
\* handled, and docker restarts the process (restart: unless-stopped).  The
\* market, the user and the ticks owe nothing.
Fairness ==
  /\ WF_vars(Start) /\ WF_vars(Sync)
  /\ WF_vars(Spawned)
  /\ WF_vars(\E t \in Threads : HandleOrderUpdate(t))
  /\ WF_vars(\E o \in cancelGo : CancelNewTP(o))
  /\ \A t \in Threads :
       WF_vars(EnterStep(t) \/ HandlerStep(t) \/ GridStep(t) \/ TPStep(t)
               \/ PanicReprice(t))

Spec == Init /\ [][Next]_vars /\ Fairness
===============================================================================
