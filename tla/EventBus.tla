------------------------------- MODULE EventBus -------------------------------
(***************************************************************************)
(* internal/core/event_bus.go: a bounded channel of events, a dispatcher   *)
(* goroutine and one goroutine per event and handler.                      *)
(***************************************************************************)
EXTENDS Naturals, Sequences

CONSTANTS Handlers,     \* the callbacks that Subscribe may be given
          Types,        \* event types
          Symbols,      \* trading symbols an event is about
          Tick,         \* the type whose data carries the symbol to filter on
          AnySymbol,    \* symbol of a handler subscribed without a filter
          TypeOf,       \* TypeOf[h]: the type handler h is subscribed to
          FilterOf,     \* FilterOf[h]: the symbol it filters on, or AnySymbol
          Slow,         \* the callbacks that may take for ever
          QueueCap,     \* capacity of the channel (1000 in the code)
          MaxEvents     \* bound: how many times Publish is called

ASSUME BusAssumption ==
  /\ Tick \in Types
  /\ AnySymbol \notin Symbols
  /\ TypeOf \in [Handlers -> Types]
  /\ FilterOf \in [Handlers -> Symbols \cup {AnySymbol}]
  /\ Slow \subseteq Handlers
  /\ QueueCap \in Nat \ {0}
  /\ MaxEvents \in Nat

Event == [type : Types, symbol : Symbols]

VARIABLES
  subscribed,  \* the handlers in the map of the bus
  since,       \* history: Len(log) when h was subscribed
  queue,       \* the channel
  dispatcher,  \* where the dispatcher goroutine is
  current,     \* the event it has taken from the channel and not yet processed
  cancelled,   \* the context was cancelled
  log,         \* the events process() has run for, in that order
  spawned,     \* spawned[h]: positions of log whose goroutine has not run h yet
  called,      \* called[h]: positions of log the handler h was called for
  accepted,    \* history: the events that entered the channel
  dropped      \* history: how many events Publish dropped

busVars == <<queue, dispatcher, current, cancelled>>
vars == <<subscribed, since, busVars, log, spawned, called, accepted, dropped>>

\* The filter of SubscribeWithFilter lets h see event e: only ticks are filtered.
Passes(h, e) == \/ e.type # Tick
                \/ FilterOf[h] \in {AnySymbol, e.symbol}

\* Handler h asked for e.
Wants(h, e) == TypeOf[h] = e.type /\ Passes(h, e)

-------------------------------------------------------------------------------
Init ==
  /\ subscribed = {}
  /\ since = [h \in Handlers |-> 0]
  /\ queue = <<>>
  /\ dispatcher = "new"
  /\ current = <<>>
  /\ cancelled = FALSE
  /\ log = <<>>
  /\ spawned = [h \in Handlers |-> {}]
  /\ called = [h \in Handlers |-> {}]
  /\ accepted = <<>>
  /\ dropped = 0

\* Subscribe, SubscribeWithFilter: append to the handlers of the type.
Subscribe(h) ==
  /\ h \notin subscribed
  /\ subscribed' = subscribed \cup {h}
  /\ since' = [since EXCEPT ![h] = Len(log)]
  /\ UNCHANGED <<busVars, log, spawned, called, accepted, dropped>>

\* A bug, for comparison: the channel grows without a bound.
PublishUnbounded(e) ==
  /\ Len(accepted) + dropped < MaxEvents
  /\ queue' = Append(queue, e)
  /\ accepted' = Append(accepted, e)
  /\ UNCHANGED <<subscribed, since, dispatcher, current, cancelled, log, spawned,
                 called, dropped>>

\* A bug, for comparison: a full channel makes room by dropping its oldest event.
PublishDropsOldest(e) ==
  /\ Len(accepted) + dropped < MaxEvents
  /\ queue' = Append(IF Len(queue) < QueueCap THEN queue ELSE Tail(queue), e)
  /\ accepted' = Append(accepted, e)
  /\ UNCHANGED <<subscribed, since, dispatcher, current, cancelled, log, spawned,
                 called, dropped>>

\* Publish never blocks: a full channel drops the event.
Publish(e) ==
  /\ Len(accepted) + dropped < MaxEvents
  /\ IF Len(queue) < QueueCap
     THEN /\ queue' = Append(queue, e)
          /\ accepted' = Append(accepted, e)
          /\ UNCHANGED dropped
     ELSE /\ dropped' = dropped + 1
          /\ UNCHANGED <<queue, accepted>>
  /\ UNCHANGED <<subscribed, since, dispatcher, current, cancelled, log, spawned,
                 called>>

\* Start launches the dispatcher goroutine.
Start ==
  /\ dispatcher = "new"
  /\ dispatcher' = "select"
  /\ UNCHANGED <<subscribed, since, queue, current, cancelled, log, spawned,
                 called, accepted, dropped>>

\* Stop cancels the context; the dispatcher is told at its next select.
Stop ==
  /\ ~cancelled
  /\ cancelled' = TRUE
  /\ UNCHANGED <<subscribed, since, queue, dispatcher, current, log, spawned,
                 called, accepted, dropped>>

\* select, case event := <-queue.  When the context is cancelled too, either
\* case may be chosen.
Take ==
  /\ dispatcher = "select"
  /\ queue # <<>>
  /\ current' = <<Head(queue)>>
  /\ queue' = Tail(queue)
  /\ dispatcher' = "process"
  /\ UNCHANGED <<subscribed, since, cancelled, log, spawned, called, accepted,
                 dropped>>

\* A bug, for comparison: the handlers of every type are started.
ProcessAllTypes ==
  /\ dispatcher = "process"
  /\ log' = log \o current
  /\ spawned' = [h \in Handlers |->
                   spawned[h] \cup (IF h \in subscribed THEN {Len(log) + 1} ELSE {})]
  /\ current' = <<>>
  /\ dispatcher' = "select"
  /\ UNCHANGED <<subscribed, since, queue, cancelled, called, accepted, dropped>>

\* A bug, for comparison: the handlers are called one after the other, so that
\* the next event waits for all of them.
ProcessWaits ==
  /\ dispatcher = "process"
  /\ \A h \in Handlers : spawned[h] = {}
  /\ log' = log \o current
  /\ spawned' = [h \in Handlers |->
                   IF h \in subscribed /\ TypeOf[h] = current[1].type
                   THEN {Len(log) + 1} ELSE {}]
  /\ current' = <<>>
  /\ dispatcher' = "select"
  /\ UNCHANGED <<subscribed, since, queue, cancelled, called, accepted, dropped>>

\* process: read the handlers of the type under the lock, then one goroutine
\* for each of them.
Process ==
  /\ dispatcher = "process"
  /\ log' = log \o current
  /\ spawned' = [h \in Handlers |->
                   IF h \in subscribed /\ TypeOf[h] = current[1].type
                   THEN spawned[h] \cup {Len(log) + 1}
                   ELSE spawned[h]]
  /\ current' = <<>>
  /\ dispatcher' = "select"
  /\ UNCHANGED <<subscribed, since, queue, cancelled, called, accepted, dropped>>

\* A bug, for comparison: a break that leaves the select, not the loop.
ExitBreaksSelect == dispatcher = "select" /\ cancelled /\ UNCHANGED vars

\* select, case <-ctx.Done().
Exit ==
  /\ dispatcher = "select"
  /\ cancelled
  /\ dispatcher' = "exited"
  /\ UNCHANGED <<subscribed, since, queue, current, cancelled, log, spawned,
                 called, accepted, dropped>>

\* A bug, for comparison: the filter wrapper forgets to return.
RunUnfiltered(h, i) ==
  /\ i \in spawned[h]
  /\ spawned' = [spawned EXCEPT ![h] = @ \ {i}]
  /\ called' = [called EXCEPT ![h] = @ \cup {i}]
  /\ UNCHANGED <<subscribed, since, busVars, log, accepted, dropped>>

\* A goroutine runs: any of those that were started, in any order.  The filter
\* wrapper calls the handler or returns at once.
Run(h, i) ==
  /\ i \in spawned[h]
  /\ spawned' = [spawned EXCEPT ![h] = @ \ {i}]
  /\ called' = IF Passes(h, log[i])
               THEN [called EXCEPT ![h] = @ \cup {i}]
               ELSE called
  /\ UNCHANGED <<subscribed, since, busVars, log, accepted, dropped>>

\* The bus is at rest: nothing is waiting for it to take a step.
Rest ==
  /\ Len(accepted) + dropped = MaxEvents
  /\ subscribed = Handlers
  /\ \A h \in Handlers : spawned[h] = {}
  /\ dispatcher = "exited"
  /\ UNCHANGED vars

RunSome(h) == \E i \in 1 .. MaxEvents : Run(h, i)

Next ==
  \/ \E h \in Handlers : Subscribe(h) \/ RunSome(h)
  \/ \E e \in Event : Publish(e)
  \/ Start \/ Stop \/ Take \/ Process \/ Exit
  \/ Rest

\* The dispatcher and the goroutines are scheduled.  Users owe the bus nothing,
\* and a slow callback need not return.
Fairness ==
  /\ WF_vars(Take) /\ WF_vars(Process) /\ WF_vars(Exit)
  /\ \A h \in Handlers \ Slow : WF_vars(RunSome(h))

Spec == Init /\ [][Next]_vars /\ Fairness

-------------------------------------------------------------------------------
(* Properties *)

\* The variables have the shapes the code gives them; the channel never holds
\* more than its capacity.
TypeOK ==
  /\ subscribed \subseteq Handlers
  /\ since \in [Handlers -> Nat]
  /\ queue \in Seq(Event) /\ Len(queue) <= QueueCap
  /\ dispatcher \in {"new", "select", "process", "exited"}
  /\ current \in Seq(Event)
  /\ Len(current) = (IF dispatcher = "process" THEN 1 ELSE 0)
  /\ cancelled \in BOOLEAN
  /\ log \in Seq(Event)
  /\ spawned \in [Handlers -> SUBSET Nat]
  /\ called \in [Handlers -> SUBSET Nat]
  /\ accepted \in Seq(Event)
  /\ dropped \in Nat

\* Nothing accepted is lost or reordered on its way to the handlers: what
\* entered the channel is what was processed, what is being processed and what
\* still waits, in that order (Publish, the select of Start and process).
NothingLost == accepted = log \o current \o queue

\* The positions of log that process() had to start a goroutine of h for.
Owed(h) == {i \in 1 .. Len(log) : /\ h \in subscribed
                                  /\ since[h] < i
                                  /\ log[i].type = TypeOf[h]}

\* Each handler gets exactly one goroutine for each event of its type processed
\* after it subscribed: a goroutine that has not run is still there, one that
\* has run called the handler unless the filter told it not to, and no handler
\* is called twice for an event or for one from before its subscription.
ExactlyOnce ==
  \A h \in Handlers :
    /\ spawned[h] \cap called[h] = {}
    /\ spawned[h] \cup called[h] \subseteq Owed(h)
    /\ {i \in Owed(h) : Passes(h, log[i])} \subseteq spawned[h] \cup called[h]
    /\ \A i \in called[h] : Wants(h, log[i])

\* The bus implements the promise of Delivery: the accepted events are the ones
\* sent, and a handler is called at most once for an event it wants.
Promise == INSTANCE Delivery WITH Events <- Event, sent <- accepted, got <- called
ImplementsDelivery == Promise!Init /\ [][Promise!Next]_(Promise!vars)

\* As long as nobody stops the bus, every event the started bus accepted is
\* processed, and each of its goroutines runs but the slow ones: a callback that
\* hangs holds up no event and no other handler (the goroutines of process).
AcceptedIsProcessed ==
  \A n \in 1 .. MaxEvents :
    (Len(accepted) >= n /\ dispatcher # "new") ~>
      (cancelled \/ (Len(log) >= n /\ \A h \in Handlers \ Slow : n \notin spawned[h]))

\* A cancelled bus leaves its loop.
StopEnds == (cancelled /\ dispatcher # "new") ~> (dispatcher = "exited")
===============================================================================
