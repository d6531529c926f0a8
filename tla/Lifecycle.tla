------------------------------- MODULE Lifecycle -------------------------------
(***************************************************************************)
(* cmd/bot/main.go: the start of the bot, its shutdown and its restarts,   *)
(* with the user stream of internal/exchange/binance.go, the bus of        *)
(* EventBus and the start of each strategy.                                *)
(*                                                                         *)
(* The question is what a strategy gets to know of the fills at the        *)
(* exchange, which go on before, during and after all of this.  What it    *)
(* does about them is the subject of Strategy.  Ticks are left out.        *)
(***************************************************************************)
EXTENDS Naturals, Sequences, FiniteSetsExt

CONSTANTS N,            \* the enabled strategies are numbered 1 .. N
          HedgeEnabled, \* hedge.enabled of the configuration
          QueueCap,     \* capacity of the bus
          MaxFills,     \* bound: fills at the exchange
          MaxFaults     \* bound: failed calls of the start, ends of the user
                        \* stream, crashes and signals before signal.Notify

ASSUME LifecycleAssumption ==
  /\ N \in Nat \ {0}
  /\ HedgeEnabled \in BOOLEAN
  /\ QueueCap \in Nat \ {0}
  /\ MaxFills \in Nat /\ MaxFaults \in Nat

Strategies == 1 .. N

VARIABLES
  (* the exchange *)
  fills,       \* fills[s]: how often an order of strategy s has been filled
  wire,        \* the fills the user stream has yet to report, <<s, n>> each
  (* the process *)
  main,        \* where main() is
  turn,        \* the strategy its present loop is at
  known,       \* the symbols whose SymbolInfo has been fetched
  userStream,  \* off, on, or ended: nothing connects it again
  monitor,     \* of the coordinator: off, on, stopped
  signalled,   \* sigChan holds a signal
  st,          \* st[s]: where Start of strategy s is
  (* the bus, see EventBus *)
  subscribed, since, queue, dispatcher, current, cancelled, log, spawned,
  called, accepted, dropped,
  (* history *)
  snapshot,    \* snapshot[s]: the fills in the position that syncState read
  unheard,     \* fills no event was made of, since that
  shed,        \* fills whose event met a full channel
  asked,       \* the symbols whose orders main asked to be cancelled
  (* bounds *)
  faults

busVars == <<subscribed, since, queue, dispatcher, current, cancelled, log,
             spawned, called, accepted, dropped>>
startVars == <<main, turn, known, userStream, monitor, signalled>>
histVars == <<snapshot, unheard, shed, asked>>
vars == <<fills, wire, startVars, st, busVars, histVars, faults>>

\* The order handler of each strategy, which takes all order events and returns
\* at once when the symbol is not its own.  An event carries its fill.
Bus == INSTANCE EventBus WITH
  Handlers <- Strategies,
  Types <- {"TICK", "ORDER_UPDATE"},
  Tick <- "TICK",
  Symbols <- Strategies \X Nat,
  AnySymbol <- <<0, 0>>,
  TypeOf <- [s \in Strategies |-> "ORDER_UPDATE"],
  FilterOf <- [s \in Strategies |-> <<0, 0>>],
  Slow <- {},
  MaxEvents <- MaxFills

OrderUpdate(f) == [type |-> "ORDER_UPDATE", symbol |-> f]

Alive == main \notin {"down", "finished"}
Starting == {"config", "symbols", "streams", "markets", "launch", "rest"}
\* Start has returned; blind when it could not read the position.
Started == {"synced", "blind"}
Stopping == {"cancel", "stopMonitor", "stopBus", "return"}

-------------------------------------------------------------------------------
Init ==
  /\ fills = [s \in Strategies |-> 0] /\ wire = <<>>
  /\ main = "down" /\ turn = 1
  /\ known = {} /\ userStream = "off" /\ monitor = "off" /\ signalled = FALSE
  /\ st = [s \in Strategies |-> "none"]
  /\ Bus!Init
  /\ snapshot = [s \in Strategies |-> 0]
  /\ unheard = {} /\ shed = {} /\ asked = {}
  /\ faults = 0

\* The process ends and leaves nothing behind but the account.
End(where) ==
  /\ main' = where /\ turn' = 1
  /\ known' = {} /\ userStream' = "off" /\ monitor' = "off" /\ signalled' = FALSE
  /\ st' = [s \in Strategies |-> "none"]
  /\ wire' = <<>>
  /\ subscribed' = {} /\ since' = [s \in Strategies |-> 0]
  /\ queue' = <<>> /\ dispatcher' = "new" /\ current' = <<>> /\ cancelled' = FALSE
  /\ log' = <<>> /\ accepted' = <<>> /\ dropped' = 0
  /\ spawned' = [s \in Strategies |-> {}] /\ called' = [s \in Strategies |-> {}]
  /\ UNCHANGED fills

\* A panic, Logger.Fatal, a signal with its default action, or a crash.
Die ==
  /\ Alive
  /\ faults < MaxFaults
  /\ faults' = faults + 1
  /\ End("down")
  /\ UNCHANGED histVars

\* docker starts the process.
Launch ==
  /\ main = "down"
  /\ main' = "config"
  /\ snapshot' = [s \in Strategies |-> 0]
  /\ unheard' = {} /\ shed' = {} /\ asked' = {}
  /\ UNCHANGED <<fills, wire, turn, known, userStream, monitor, signalled, st,
                 busVars, faults>>

\* The loops of main over the strategies: on to the next one, or to what follows.
Advance(here, after) ==
  /\ main = here
  /\ turn' = IF turn < N THEN turn + 1 ELSE 1
  /\ main' = IF turn < N THEN here ELSE after

(* main, up to its wait for a signal.  Each of these calls may fail instead, *)
(* which is Die.                                                             *)

\* A bug, for comparison: bus.Start is forgotten.
BootWithoutBus ==
  /\ main = "config"
  /\ main' = "symbols"
  /\ UNCHANGED <<fills, wire, turn, known, userStream, monitor, signalled, st,
                 busVars, histVars, faults>>

\* Configuration, logger, notifier and storage; then the bus is started.
Boot ==
  /\ main = "config"
  /\ main' = "symbols"
  /\ Bus!Start
  /\ UNCHANGED <<fills, wire, turn, known, userStream, monitor, signalled, st,
                 histVars, faults>>

\* A bug, for comparison: the SymbolInfo is fetched but not kept.
FetchSymbolInfo ==
  /\ Advance("symbols", "streams")
  /\ UNCHANGED <<fills, wire, known, userStream, monitor, signalled, st, busVars,
                 histVars, faults>>

InitSymbolInfo ==
  /\ Advance("symbols", "streams")
  /\ known' = known \cup {turn}
  /\ UNCHANGED <<fills, wire, userStream, monitor, signalled, st, busVars,
                 histVars, faults>>

\* StartWS, the user stream: from here on fills are reported.
StartUserStream ==
  /\ main = "streams"
  /\ main' = "markets"
  /\ userStream' = "on"
  /\ UNCHANGED <<fills, wire, turn, known, monitor, signalled, st, busVars,
                 histVars, faults>>

\* StartWS, the market streams.
ServeMarket ==
  /\ Advance("markets", "launch")
  /\ UNCHANGED <<fills, wire, known, userStream, monitor, signalled, st, busVars,
                 histVars, faults>>

\* go strat.Start()
GoStrategy ==
  /\ Advance("launch", "rest")
  /\ st' = [st EXCEPT ![turn] = "info"]
  /\ UNCHANGED <<fills, wire, known, userStream, monitor, signalled, busVars,
                 histVars, faults>>

\* The coordinator, the web server and signal.Notify.
StartRest ==
  /\ main = "rest"
  /\ main' = "waiting"
  /\ monitor' = IF HedgeEnabled /\ N > 1 THEN "on" ELSE "off"
  /\ UNCHANGED <<fills, wire, turn, known, userStream, signalled, st, busVars,
                 histVars, faults>>

(* Start of a strategy *)

\* GetSymbolInfo.  A symbol that is not known ends the process.
GetSymbolInfo(s) ==
  /\ st[s] = "info"
  /\ IF s \in known
     THEN /\ st' = [st EXCEPT ![s] = "subscribe"]
          /\ UNCHANGED <<fills, wire, startVars, busVars>>
     ELSE End("down")
  /\ UNCHANGED <<histVars, faults>>

\* A bug, for comparison: the position is read before there is a handler.
SubscribeAfterSync(s) ==
  /\ \/ /\ st[s] = "subscribe"
        /\ st' = [st EXCEPT ![s] = "sync"]
        /\ UNCHANGED busVars
     \/ /\ st[s] \in Started
        /\ Bus!Subscribe(s)
        /\ UNCHANGED st
  /\ UNCHANGED <<fills, wire, startVars, histVars, faults>>

\* Subscribe for order updates; the filtered one for ticks came before.
Subscribe(s) ==
  /\ st[s] = "subscribe"
  /\ st' = [st EXCEPT ![s] = "sync"]
  /\ Bus!Subscribe(s)
  /\ UNCHANGED <<fills, wire, startVars, histVars, faults>>

\* GetPosition of syncState: it shows the fills so far, or fails, and the
\* strategy goes on without.
SyncState(s) ==
  /\ st[s] = "sync"
  /\ \/ /\ st' = [st EXCEPT ![s] = "synced"]
        /\ snapshot' = [snapshot EXCEPT ![s] = fills[s]]
        /\ unheard' = {f \in unheard : f[1] # s}
        /\ UNCHANGED faults
     \/ /\ faults < MaxFaults
        /\ faults' = faults + 1
        /\ st' = [st EXCEPT ![s] = "blind"]
        /\ UNCHANGED <<snapshot, unheard>>
  /\ UNCHANGED <<fills, wire, startVars, busVars, shed, asked>>

(* The exchange and its user stream *)

Fill(s) ==
  /\ MapThenSumSet(LAMBDA x : fills[x], Strategies) < MaxFills
  /\ fills' = [fills EXCEPT ![s] = @ + 1]
  /\ IF userStream = "on"
     THEN wire' = Append(wire, <<s, fills'[s]>>) /\ UNCHANGED unheard
     ELSE unheard' = unheard \cup {<<s, fills'[s]>>} /\ UNCHANGED wire
  /\ UNCHANGED <<startVars, st, busVars, snapshot, shed, asked, faults>>

\* wsUserHandler is called in the order of the stream, and publishes.
Report ==
  /\ wire # <<>>
  /\ wire' = Tail(wire)
  /\ Bus!Publish(OrderUpdate(Head(wire)))
  /\ shed' = IF dropped' > dropped THEN shed \cup {Head(wire)} ELSE shed
  /\ UNCHANGED <<fills, startVars, st, snapshot, unheard, asked, faults>>

\* The stream ends: an error is logged, nothing connects it again.
StreamEnds ==
  /\ userStream = "on"
  /\ faults < MaxFaults
  /\ faults' = faults + 1
  /\ userStream' = "ended"
  /\ wire' = <<>>
  /\ unheard' = unheard \cup {wire[i] : i \in DOMAIN wire}
  /\ UNCHANGED <<fills, main, turn, known, monitor, signalled, st, busVars,
                 snapshot, shed, asked>>

\* The bus, each of whose steps leaves the rest alone.
BusStep ==
  /\ \/ Bus!Take \/ Bus!Process \/ Bus!Exit
     \/ \E s \in Strategies : Bus!RunSome(s)
  /\ UNCHANGED <<fills, wire, startVars, st, histVars, faults>>

(* The shutdown *)

\* Once signal.Notify is called a signal waits in sigChan; before that it kills
\* (Die), and after the first was taken it is not looked at.
Signal ==
  /\ main = "waiting" /\ ~signalled
  /\ signalled' = TRUE
  /\ UNCHANGED <<fills, wire, main, turn, known, userStream, monitor, st, busVars,
                 histVars, faults>>

TakeSignal ==
  /\ main = "waiting" /\ signalled
  /\ main' = "cancel"
  /\ UNCHANGED <<fills, wire, turn, known, userStream, monitor, signalled, st,
                 busVars, histVars, faults>>

\* A bug, for comparison: the first error ends the loop.
CancelUntilError ==
  /\ main = "cancel"
  /\ asked' = asked \cup {turn}
  /\ \/ Advance("cancel", "stopMonitor")
     \/ main' = "stopMonitor" /\ turn' = 1
  /\ UNCHANGED <<fills, wire, known, userStream, monitor, signalled, st, busVars,
                 snapshot, unheard, shed, faults>>

\* CancelAllOrdersAllSymbols: an error is logged, the next symbol follows.
CancelOrders ==
  /\ Advance("cancel", "stopMonitor")
  /\ asked' = asked \cup {turn}
  /\ UNCHANGED <<fills, wire, known, userStream, monitor, signalled, st, busVars,
                 snapshot, unheard, shed, faults>>

\* The deferred coordinator.Stop, which does not wait for its loop ...
StopMonitor ==
  /\ main = "stopMonitor"
  /\ main' = "stopBus"
  /\ monitor' = IF monitor = "on" THEN "stopped" ELSE monitor
  /\ UNCHANGED <<fills, wire, turn, known, userStream, signalled, st, busVars,
                 histVars, faults>>

\* ... and bus.Stop, deferred first and called last.
StopBus ==
  /\ main = "stopBus"
  /\ main' = "return"
  /\ Bus!Stop
  /\ UNCHANGED <<fills, wire, turn, known, userStream, monitor, signalled, st,
                 histVars, faults>>

\* main returns and takes all goroutines with it.
Return ==
  /\ main = "return"
  /\ End("finished")
  /\ UNCHANGED <<histVars, faults>>

\* Nothing is left to happen by itself.
Rest ==
  /\ \/ main = "finished"
     \/ main = "waiting" /\ ~signalled /\ \A s \in Strategies : st[s] \in Started
  /\ wire = <<>> /\ queue = <<>> /\ current = <<>>
  /\ \A s \in Strategies : spawned[s] = {}
  /\ UNCHANGED vars

-------------------------------------------------------------------------------
MainStep ==
  \/ Launch \/ Boot \/ InitSymbolInfo \/ StartUserStream \/ ServeMarket
  \/ GoStrategy \/ StartRest
  \/ TakeSignal \/ CancelOrders \/ StopMonitor \/ StopBus \/ Return

StartStep(s) == GetSymbolInfo(s) \/ Subscribe(s) \/ SyncState(s)

Next ==
  \/ MainStep
  \/ \E s \in Strategies : StartStep(s) \/ Fill(s)
  \/ Report \/ StreamEnds
  \/ BusStep
  \/ Signal \/ Die
  \/ Rest

Scheduled ==
  \/ MainStep
  \/ \E s \in Strategies : StartStep(s)
  \/ Report \/ BusStep

\* The goroutines run, the stream reports what it has, calls return, and docker
\* starts the process again (restart: unless-stopped): as long as one of these
\* can take a step, one of them does.  Fills, signals and faults owe nothing.
Fairness == WF_vars(Scheduled)

Spec == Init /\ [][Next]_vars /\ Fairness

-------------------------------------------------------------------------------
(* Properties *)

\* The variables have their shapes, and the bus is as EventBus leaves it, in
\* every process: running but for the time before main starts it, and without a
\* handler that did not subscribe in this one.
TypeOK ==
  /\ fills \in [Strategies -> Nat]
  /\ wire \in Seq(Strategies \X Nat)
  /\ main \in {"down", "finished", "waiting"} \cup Starting \cup Stopping
  /\ turn \in Strategies
  /\ known \subseteq Strategies
  /\ userStream \in {"off", "on", "ended"}
  /\ monitor \in {"off", "on", "stopped"}
  /\ signalled \in BOOLEAN
  /\ st \in [Strategies -> {"none", "info", "subscribe", "sync"} \cup Started]
  /\ snapshot \in [Strategies -> Nat]
  /\ unheard \cup shed \subseteq Strategies \X Nat
  /\ asked \subseteq Strategies
  /\ faults \in 0 .. MaxFaults
  /\ Bus!TypeOK
  /\ subscribed = {s \in Strategies : st[s] \in {"sync"} \cup Started}
  /\ dispatcher = "new" <=> main \in {"down", "config", "finished"}

Told(s) == {log[i].symbol : i \in called[s]}

\* The fills a strategy has neither read nor been told of.
Untold ==
  UNION {{<<s, n>> : n \in snapshot[s] + 1 .. fills[s]} \ Told(s) :
           s \in {x \in Strategies : st[x] = "synced"}}

\* The event of the fill is on the stream, in the bus, or in a goroutine of its
\* strategy.
UnderWay(f) ==
  \/ \E i \in DOMAIN wire : wire[i] = f
  \/ \E i \in DOMAIN queue : queue[i].symbol = f
  \/ \E i \in DOMAIN current : current[i].symbol = f
  \/ \E i \in spawned[f[1]] : log[i].symbol = f

\* What no design of the start could tell the strategy: the stream was not there
\* or the channel was full.
Excused(f) == f \in unheard \cup shed

\* The start leaves no gap: from the moment a strategy has read its position,
\* each of its fills is in what it read, or it is told of it, or its event is
\* under way - although the stream is up before there is a handler, the handlers
\* subscribe one after the other, and all of it starts anew with every process
\* (StartWS before Start, and Subscribe before syncState).
NoGap == \A f \in Untold : UnderWay(f) \/ Excused(f)

\* A graceful end has asked for the cancellation of every symbol's orders, also
\* after one of these calls has failed, and the bus carries fills until the last
\* of them (the order of the deferred calls).
CancelReachesAll ==
  main = "finished" \/ dispatcher = "exited" => asked = Strategies

\* While the bot runs, its strategies are told of every fill they have not read
\* themselves.
FillsAreTold ==
  (main = "waiting") ~> (main # "waiting" \/ \A f \in Untold : Excused(f))

\* After finitely many faults the bot runs with all its strategies, unless it was
\* told to end: no step of the start waits for another one for ever, and no
\* order of them makes the process end itself again and again (Logger.Fatal in
\* Start).
ComesUp ==
  <>[](main \in Stopping \cup {"finished"} \/ \A s \in Strategies : st[s] \in Started)
===============================================================================
