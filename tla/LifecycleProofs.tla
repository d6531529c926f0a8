---------------------------- MODULE LifecycleProofs ----------------------------
(***************************************************************************)
(* For every number of strategies, every capacity of the bus and every     *)
(* number of fills and faults: the start leaves no gap and a graceful end  *)
(* has asked for every symbol.  What the bus does in between is taken from *)
(* the theorems of EventBusProofs.                                         *)
(***************************************************************************)
EXTENDS Lifecycle, SequenceTheorems, TLAPS

BusFacts == INSTANCE EventBusProofs WITH
  Handlers <- Strategies,
  Types <- {"TICK", "ORDER_UPDATE"},
  Tick <- "TICK",
  Symbols <- Strategies \X Nat,
  AnySymbol <- <<0, 0>>,
  TypeOf <- [s \in Strategies |-> "ORDER_UPDATE"],
  FilterOf <- [s \in Strategies |-> <<0, 0>>],
  Slow <- {},
  MaxEvents <- MaxFills

-------------------------------------------------------------------------------
(* The bus *)

\* What EventBus assumes of its constants holds of this bus.
LEMMA BusAssumed == Bus!BusAssumption
  BY LifecycleAssumption DEF Bus!BusAssumption, Strategies

\* The types and the contract of the bus, with what the contract rests on.
BusInv == BusFacts!TypeOK /\ BusFacts!SinceInLog /\ BusFacts!ExactlyOnce

\* The two instances of EventBus are the same bus.
LEMMA SameBus ==
  /\ Bus!TypeOK <=> BusFacts!TypeOK
  /\ Bus!Init <=> BusFacts!Init
PROOF
  <1> USE DEF Bus!Event, BusFacts!Event
  <1>1. Bus!TypeOK <=> BusFacts!TypeOK
    BY DEF Bus!TypeOK, BusFacts!TypeOK
  <1>2. Bus!Init <=> BusFacts!Init
    BY DEF Bus!Init, BusFacts!Init
  <1> QED BY <1>1, <1>2

LEMMA FreshBus == Bus!Init => BusInv
PROOF
  <1> SUFFICES ASSUME Bus!Init PROVE BusInv
    OBVIOUS
  <1>1. BusFacts!TypeOK
    BY BusFacts!InitType, BusAssumed, SameBus
  <1>2. BusFacts!SinceInLog
    BY DEF Bus!Init, BusFacts!SinceInLog
  <1>3. BusFacts!ExactlyOnce
    <2>1. \A h \in Strategies : spawned[h] = {} /\ called[h] = {}
      BY DEF Bus!Init
    <2>2. \A h \in Strategies : BusFacts!Owed(h) = {}
      BY DEF Bus!Init, BusFacts!Owed
    <2> QED BY <2>1, <2>2 DEF BusFacts!ExactlyOnce
  <1> QED BY <1>1, <1>2, <1>3 DEF BusInv

LEMMA BusKeeps == BusInv /\ [BusFacts!Next]_(BusFacts!vars) => BusInv'
PROOF
  <1> SUFFICES ASSUME BusInv, [BusFacts!Next]_(BusFacts!vars) PROVE BusInv'
    OBVIOUS
  <1>1. BusFacts!TypeOK'
    BY BusAssumed, BusFacts!NextType DEF BusInv
  <1>2. BusFacts!SinceInLog'
    BY BusAssumed, BusFacts!NextSinceInLog DEF BusInv
  <1>3. BusFacts!ExactlyOnce'
    BY BusAssumed, BusFacts!NextExactlyOnce DEF BusInv
  <1> QED BY <1>1, <1>2, <1>3 DEF BusInv

-------------------------------------------------------------------------------
(* What a step of the program is to the bus. *)

\* It is a step of the bus, or the end of the process, which leaves a new one.
LEMMA BusMoves ==
  ASSUME TypeOK, [Next]_vars
  PROVE  [BusFacts!Next]_(BusFacts!vars) \/ Bus!Init'
PROOF
  <1> DEFINE Goal == [BusFacts!Next]_(BusFacts!vars) \/ Bus!Init'
  <1>1. ASSUME UNCHANGED busVars PROVE Goal
    BY <1>1 DEF busVars, BusFacts!vars, BusFacts!busVars
  <1>2. ASSUME NEW where, End(where) PROVE Goal
    BY <1>2 DEF End, Bus!Init
  <1>3. ASSUME Boot PROVE Goal
    BY <1>3 DEF Boot, Bus!Start, BusFacts!Next, BusFacts!Start
  <1>4. ASSUME NEW s \in Strategies, StartStep(s) PROVE Goal
    <2>1. CASE GetSymbolInfo(s)
      BY <2>1, <1>1, <1>2 DEF GetSymbolInfo
    <2>2. CASE Subscribe(s)
      BY <2>2 DEF Subscribe, Bus!Subscribe, BusFacts!Next, BusFacts!Subscribe,
                  Bus!busVars, BusFacts!busVars
    <2>3. CASE SyncState(s)
      BY <2>3, <1>1 DEF SyncState
    <2> QED BY <1>4, <2>1, <2>2, <2>3 DEF StartStep
  <1>5. ASSUME Report PROVE Goal
    <2>1. Head(wire) \in Strategies \X Nat
      BY <1>5, HeadTailProperties DEF Report, TypeOK
    <2>2. OrderUpdate(Head(wire)) \in BusFacts!Event
      BY <2>1 DEF OrderUpdate, BusFacts!Event
    <2>3. BusFacts!Publish(OrderUpdate(Head(wire)))
      BY <1>5 DEF Report, Bus!Publish, BusFacts!Publish
    <2> QED BY <2>2, <2>3 DEF BusFacts!Next
  <1>6. ASSUME BusStep PROVE Goal
    <2>1. CASE Bus!Take
      BY <2>1 DEF Bus!Take, BusFacts!Take, BusFacts!Next
    <2>2. CASE Bus!Process
      BY <2>2 DEF Bus!Process, BusFacts!Process, BusFacts!Next
    <2>3. CASE Bus!Exit
      BY <2>3 DEF Bus!Exit, BusFacts!Exit, BusFacts!Next
    <2>4. ASSUME NEW s \in Strategies, Bus!RunSome(s) PROVE Goal
      <3>1. BusFacts!RunSome(s)
        BY <2>4 DEF Bus!RunSome, Bus!Run, Bus!Passes, Bus!busVars,
                    BusFacts!RunSome, BusFacts!Run, BusFacts!Passes, BusFacts!busVars
      <3> QED BY <3>1 DEF BusFacts!Next
    <2> QED BY <1>6, <2>1, <2>2, <2>3, <2>4 DEF BusStep
  <1>7. ASSUME StopBus PROVE Goal
    BY <1>7 DEF StopBus, Bus!Stop, BusFacts!Next, BusFacts!Stop
  <1>8. ASSUME MainStep PROVE Goal
    BY <1>1, <1>2, <1>3, <1>7, <1>8
    DEF MainStep, Launch, InitSymbolInfo, StartUserStream, ServeMarket, GoStrategy,
        StartRest, TakeSignal, CancelOrders, StopMonitor, Return
  <1>9. ASSUME NEW s \in Strategies, Fill(s) PROVE Goal
    BY <1>9, <1>1 DEF Fill
  <1>10. CASE StreamEnds \/ Signal \/ Die \/ Rest \/ UNCHANGED vars
    BY <1>10, <1>1, <1>2 DEF StreamEnds, Signal, Die, Rest, vars
  <1> QED BY <1>4, <1>5, <1>6, <1>8, <1>9, <1>10 DEF Next

LEMMA NextBus == TypeOK /\ BusInv /\ [Next]_vars => BusInv'
PROOF
  <1> SUFFICES ASSUME TypeOK, BusInv, [Next]_vars PROVE BusInv'
    OBVIOUS
  <1>1. CASE [BusFacts!Next]_(BusFacts!vars)
    BY <1>1, BusKeeps
  <1>2. CASE Bus!Init'
    BY <1>2, FreshBus, PTL
  <1> QED BY <1>1, <1>2, BusMoves

-------------------------------------------------------------------------------
(* Types *)

\* Where main() is with the strategies: none of them has been started before its
\* turn, and the loops over them begin with the first.
Phases ==
  /\ main \in {"down", "config", "symbols", "streams", "markets", "finished"} =>
       \A s \in Strategies : st[s] = "none"
  /\ main = "launch" => \A s \in turn .. N : st[s] = "none"
  /\ main \notin {"symbols", "markets", "launch", "cancel"} => turn = 1

\* TypeOK without the part that the bus answers for.
OwnTypes ==
  /\ fills \in [Strategies -> Nat]
  /\ wire \in Seq(Strategies \X Nat)
  /\ main \in {"down", "finished", "waiting"} \cup Starting \cup Stopping
  /\ turn \in Strategies
  /\ known \subseteq Strategies
  /\ userStream \in {"off", "on", "ended"}
  /\ monitor \in {"off", "on", "stopped"}
  /\ signalled \in BOOLEAN
  /\ st \in [Strategies -> {"none", "info", "subscribe", "sync"} \cup Started]
  /\ snapshot \in [Strategies -> Nat]
  /\ unheard \cup shed \subseteq Strategies \X Nat
  /\ asked \subseteq Strategies
  /\ faults \in 0 .. MaxFaults

Synchronous ==
  /\ subscribed = {s \in Strategies : st[s] \in {"sync"} \cup Started}
  /\ dispatcher = "new" <=> main \in {"down", "config", "finished"}

LEMMA TypeParts == TypeOK <=> OwnTypes /\ Bus!TypeOK /\ Synchronous
  BY DEF TypeOK, OwnTypes, Synchronous

LEMMA OneIsStrategy == 1 \in Strategies /\ Strategies \subseteq Nat /\ N \in Nat
  BY LifecycleAssumption DEF Strategies

LEMMA InitTypes == Init => TypeOK /\ Phases /\ BusInv
PROOF
  <1> SUFFICES ASSUME Init PROVE TypeOK /\ Phases /\ BusInv
    OBVIOUS
  <1>1. <<>> \in Seq(Strategies \X Nat)
    BY EmptySeq
  <1>2. OwnTypes
    <2>1. 0 \in 0 .. MaxFaults
      BY LifecycleAssumption
    <2>2. /\ fills \in [Strategies -> Nat] /\ snapshot \in [Strategies -> Nat]
          /\ st \in [Strategies -> {"none", "info", "subscribe", "sync"} \cup Started]
      BY DEF Init
    <2> QED BY <1>1, <2>1, <2>2, OneIsStrategy DEF Init, OwnTypes
  <1>3. BusInv /\ Bus!TypeOK
    BY FreshBus, SameBus DEF Init, BusInv
  <1>4. Synchronous
    BY DEF Init, Bus!Init, Synchronous, Started
  <1>5. Phases
    BY OneIsStrategy DEF Init, Phases, Strategies
  <1> QED BY <1>2, <1>3, <1>4, <1>5, TypeParts

\* The end of a process, whichever way, leaves everything as it began.
LEMMA EndTypes ==
  ASSUME OwnTypes, NEW where \in {"down", "finished"}, End(where),
         snapshot' = snapshot, unheard' = unheard, shed' = shed, asked' = asked,
         faults' \in 0 .. MaxFaults
  PROVE  OwnTypes' /\ Synchronous' /\ Phases'
PROOF
  <1>1. <<>> \in Seq(Strategies \X Nat)
    BY EmptySeq
  <1>2. OwnTypes'
    BY <1>1, OneIsStrategy DEF End, OwnTypes, Started
  <1>3. Synchronous'
    BY DEF End, Synchronous, Started
  <1>4. Phases'
    BY OneIsStrategy DEF End, Phases, Strategies
  <1> QED BY <1>2, <1>3, <1>4

\* A loop of main stays within the strategies and ends at the first again.
LEMMA AdvanceTurns ==
  ASSUME turn \in Strategies, NEW here, NEW after, Advance(here, after)
  PROVE  /\ main = here
         /\ turn' \in Strategies
         /\ \/ turn < N /\ turn' = turn + 1 /\ main' = here
            \/ turn = N /\ turn' = 1 /\ main' = after
  BY OneIsStrategy DEF Advance, Strategies

LEMMA MainTypes ==
  ASSUME OwnTypes, Synchronous, Phases, MainStep
  PROVE  OwnTypes' /\ Synchronous' /\ Phases'
PROOF
  <1> DEFINE Goal == OwnTypes' /\ Synchronous' /\ Phases'
  <1> USE OneIsStrategy DEF histVars, busVars
  <1>1. CASE Launch
    <2>1. OwnTypes'
      BY <1>1 DEF Launch, OwnTypes, Starting
    <2> QED BY <1>1, <2>1 DEF Launch, Synchronous, Phases, Started
  <1>2. CASE Boot
    <2>1. OwnTypes'
      BY <1>2 DEF Boot, Bus!Start, OwnTypes, Starting
    <2> QED BY <1>2, <2>1 DEF Boot, Bus!Start, Synchronous, Phases, Started
  <1>3. ASSUME NEW here, NEW after, Advance(here, after),
               here \in {"symbols", "markets"},
               after = (IF here = "symbols" THEN "streams" ELSE "launch"),
               known' \subseteq Strategies,
               UNCHANGED <<fills, wire, userStream, monitor, signalled, st, busVars,
                           histVars, faults>>
        PROVE Goal
    <2>1. turn \in Strategies
      BY DEF OwnTypes
    <2>2. /\ main = here /\ turn' \in Strategies
          /\ \/ turn < N /\ turn' = turn + 1 /\ main' = here
             \/ turn = N /\ turn' = 1 /\ main' = after
      BY <1>3, <2>1, AdvanceTurns
    <2>3. OwnTypes'
      BY <1>3, <2>2 DEF OwnTypes, Starting
    <2>4. Synchronous'
      BY <1>3, <2>2 DEF Synchronous, Started
    <2>5. Phases'
      BY <1>3, <2>2 DEF Phases, Strategies
    <2> QED BY <2>3, <2>4, <2>5
  <1>4. CASE InitSymbolInfo
    BY <1>3, <1>4 DEF InitSymbolInfo, OwnTypes
  <1>5. CASE ServeMarket
    BY <1>3, <1>5 DEF ServeMarket, OwnTypes
  <1>6. CASE StartUserStream
    <2>1. OwnTypes'
      BY <1>6 DEF StartUserStream, OwnTypes, Starting
    <2> QED BY <1>6, <2>1 DEF StartUserStream, Synchronous, Phases, Started
  <1>7. CASE GoStrategy
    <2>1. turn \in Strategies
      BY DEF OwnTypes
    <2>2. /\ main = "launch" /\ turn' \in Strategies
          /\ \/ turn < N /\ turn' = turn + 1 /\ main' = "launch"
             \/ turn = N /\ turn' = 1 /\ main' = "rest"
      BY <1>7, <2>1, AdvanceTurns DEF GoStrategy
    <2>3. OwnTypes'
      BY <1>7, <2>2 DEF GoStrategy, OwnTypes, Starting
    <2>4. st[turn] = "none"
      BY <2>1, <2>2 DEF Phases, Strategies
    <2>5. Synchronous'
      BY <1>7, <2>1, <2>2, <2>4 DEF GoStrategy, Synchronous, Started, OwnTypes
    <2>6. Phases'
      BY <1>7, <2>1, <2>2 DEF GoStrategy, Phases, Strategies, OwnTypes
    <2> QED BY <2>3, <2>5, <2>6
  <1>8. CASE StartRest
    <2>1. OwnTypes'
      BY <1>8 DEF StartRest, OwnTypes
    <2> QED BY <1>8, <2>1 DEF StartRest, Synchronous, Phases, Started
  <1>9. CASE TakeSignal
    <2>1. OwnTypes'
      BY <1>9 DEF TakeSignal, OwnTypes, Stopping
    <2> QED BY <1>9, <2>1 DEF TakeSignal, Synchronous, Phases, Started
  <1>10. CASE CancelOrders
    <2>1. turn \in Strategies
      BY DEF OwnTypes
    <2>2. /\ main = "cancel" /\ turn' \in Strategies
          /\ \/ turn < N /\ turn' = turn + 1 /\ main' = "cancel"
             \/ turn = N /\ turn' = 1 /\ main' = "stopMonitor"
      BY <1>10, <2>1, AdvanceTurns DEF CancelOrders
    <2>3. OwnTypes'
      BY <1>10, <2>2 DEF CancelOrders, OwnTypes, Stopping
    <2> QED BY <1>10, <2>2, <2>3 DEF CancelOrders, Synchronous, Phases, Started
  <1>11. CASE StopMonitor
    <2>1. OwnTypes'
      BY <1>11 DEF StopMonitor, OwnTypes, Stopping
    <2> QED BY <1>11, <2>1 DEF StopMonitor, Synchronous, Phases, Started
  <1>12. CASE StopBus
    <2>1. OwnTypes'
      BY <1>12 DEF StopBus, Bus!Stop, OwnTypes, Stopping
    <2> QED BY <1>12, <2>1 DEF StopBus, Bus!Stop, Synchronous, Phases, Started
  <1>13. CASE Return
    <2>1. faults' \in 0 .. MaxFaults
      BY <1>13 DEF Return, OwnTypes
    <2> QED BY <1>13, <2>1, EndTypes DEF Return
  <1> QED
    BY <1>1, <1>2, <1>4, <1>5, <1>6, <1>7, <1>8, <1>9, <1>10, <1>11, <1>12, <1>13
    DEF MainStep

LEMMA StartTypes ==
  ASSUME OwnTypes, Synchronous, Phases, NEW s \in Strategies, StartStep(s)
  PROVE  OwnTypes' /\ Synchronous' /\ Phases'
PROOF
  <1> DEFINE Goal == OwnTypes' /\ Synchronous' /\ Phases'
  <1> USE OneIsStrategy DEF startVars, busVars, histVars
  <1>1. ASSUME NEW to \in {"subscribe", "sync"} \cup Started,
               st[s] # "none", st' = [st EXCEPT ![s] = to],
               subscribed' = {x \in Strategies : st'[x] \in {"sync"} \cup Started},
               dispatcher' = dispatcher,
               snapshot' \in [Strategies -> Nat], unheard' \subseteq unheard,
               faults' \in 0 .. MaxFaults,
               UNCHANGED <<fills, wire, startVars, shed, asked>>
        PROVE Goal
    <2>1. OwnTypes'
      BY <1>1 DEF OwnTypes
    <2>2. Synchronous'
      BY <1>1 DEF Synchronous
    <2>3. Phases'
      <3>1. /\ main' = main /\ turn' = turn
            /\ \A x \in Strategies : st[x] = "none" => st'[x] = "none"
        BY <1>1 DEF OwnTypes
      <3> QED BY <3>1 DEF Phases, Strategies, OwnTypes
    <2> QED BY <2>1, <2>2, <2>3
  <1>2. CASE GetSymbolInfo(s)
    <2>1. faults' \in 0 .. MaxFaults
      BY <1>2 DEF GetSymbolInfo, OwnTypes
    <2>2. CASE s \in known
      <3>1. subscribed' = {x \in Strategies : st'[x] \in {"sync"} \cup Started}
        BY <1>2, <2>2 DEF GetSymbolInfo, Synchronous, Started, OwnTypes
      <3> QED BY <1>1, <1>2, <2>1, <2>2, <3>1 DEF GetSymbolInfo, OwnTypes
    <2>3. CASE s \notin known
      BY <1>2, <2>1, <2>3, EndTypes DEF GetSymbolInfo
    <2> QED BY <2>2, <2>3
  <1>3. CASE Subscribe(s)
    <2>1. subscribed' = {x \in Strategies : st'[x] \in {"sync"} \cup Started}
      BY <1>3 DEF Subscribe, Bus!Subscribe, Synchronous, Started, OwnTypes
    <2> QED BY <1>1, <1>3, <2>1
            DEF Subscribe, Bus!Subscribe, Bus!busVars, OwnTypes
  <1>4. CASE SyncState(s)
    <2>1. PICK to \in Started : st' = [st EXCEPT ![s] = to]
      BY <1>4 DEF SyncState, Started
    <2>2. subscribed' = {x \in Strategies : st'[x] \in {"sync"} \cup Started}
      BY <1>4, <2>1 DEF SyncState, Synchronous, Started, OwnTypes
    <2>3. snapshot' \in [Strategies -> Nat] /\ unheard' \subseteq unheard
      BY <1>4 DEF SyncState, OwnTypes
    <2>4. faults' \in 0 .. MaxFaults
      BY <1>4, LifecycleAssumption DEF SyncState, OwnTypes
    <2> QED BY <1>1, <1>4, <2>1, <2>2, <2>3, <2>4 DEF SyncState
  <1> QED BY <1>2, <1>3, <1>4 DEF StartStep

LEMMA NextTypes ==
  TypeOK /\ Phases /\ BusInv /\ [Next]_vars => TypeOK' /\ Phases' /\ BusInv'
PROOF
  <1> SUFFICES ASSUME TypeOK, Phases, BusInv, [Next]_vars
               PROVE  TypeOK' /\ Phases' /\ BusInv'
    OBVIOUS
  <1> DEFINE Goal == OwnTypes' /\ Synchronous' /\ Phases'
  <1> USE OneIsStrategy DEF startVars, histVars
  <1>0. OwnTypes /\ Synchronous
    BY TypeParts
  <1>1. ASSUME MainStep PROVE Goal
    BY <1>0, <1>1, MainTypes
  <1>2. ASSUME NEW s \in Strategies, StartStep(s) PROVE Goal
    BY <1>0, <1>2, StartTypes
  <1>3. ASSUME NEW s \in Strategies, Fill(s) PROVE Goal
    <2>1. fills' \in [Strategies -> Nat] /\ <<s, fills'[s]>> \in Strategies \X Nat
      BY <1>0, <1>3 DEF Fill, OwnTypes
    <2>2. wire' \in Seq(Strategies \X Nat) /\ unheard' \subseteq Strategies \X Nat
      <3>1. CASE userStream = "on"
        <4>1. wire' = Append(wire, <<s, fills'[s]>>) /\ unheard' = unheard
          BY <1>3, <3>1 DEF Fill
        <4> QED BY <1>0, <2>1, <4>1, AppendProperties DEF OwnTypes
      <3>2. CASE userStream # "on"
        <4>1. unheard' = unheard \cup {<<s, fills'[s]>>} /\ wire' = wire
          BY <1>3, <3>2 DEF Fill
        <4> QED BY <1>0, <2>1, <4>1 DEF OwnTypes
      <3> QED BY <3>1, <3>2
    <2>3. OwnTypes'
      BY <1>0, <1>3, <2>1, <2>2 DEF Fill, OwnTypes
    <2> QED BY <1>0, <1>3, <2>3 DEF Fill, Synchronous, Phases, busVars
  <1>4. ASSUME Report PROVE Goal
    <2>1. /\ Head(wire) \in Strategies \X Nat
          /\ wire' \in Seq(Strategies \X Nat)
      BY <1>0, <1>4, HeadTailProperties DEF Report, OwnTypes
    <2>2. OwnTypes'
      BY <1>0, <1>4, <2>1 DEF Report, OwnTypes
    <2> QED BY <1>0, <1>4, <2>2 DEF Report, Bus!Publish, Synchronous, Phases
  <1>5. ASSUME StreamEnds PROVE Goal
    <2>1. <<>> \in Seq(Strategies \X Nat)
      BY EmptySeq
    <2>2. \A i \in DOMAIN wire : wire[i] \in Strategies \X Nat
      BY <1>0, ElementOfSeq, LenProperties DEF OwnTypes
    <2>3. OwnTypes'
      BY <1>0, <1>5, <2>1, <2>2, LifecycleAssumption DEF StreamEnds, OwnTypes
    <2> QED BY <1>0, <1>5, <2>3 DEF StreamEnds, Synchronous, Phases, busVars
  <1>6. ASSUME BusStep PROVE Goal
    <2>1. /\ UNCHANGED <<fills, wire, startVars, st, histVars, faults, subscribed>>
          /\ (dispatcher' = "new") <=> (dispatcher = "new")
      BY <1>6 DEF BusStep, Bus!Take, Bus!Process, Bus!Exit, Bus!RunSome, Bus!Run,
                  Bus!busVars
    <2> QED BY <1>0, <2>1 DEF OwnTypes, Synchronous, Phases
  <1>7. ASSUME Signal PROVE Goal
    BY <1>0, <1>7 DEF Signal, OwnTypes, Synchronous, Phases, busVars
  <1>8. ASSUME Die PROVE Goal
    <2>1. faults' \in 0 .. MaxFaults
      BY <1>0, <1>8, LifecycleAssumption DEF Die, OwnTypes
    <2> QED BY <1>0, <1>8, <2>1, EndTypes DEF Die
  <1>9. ASSUME Rest \/ UNCHANGED vars PROVE Goal
    BY <1>0, <1>9 DEF Rest, vars, busVars, OwnTypes, Synchronous, Phases
  <1>10. Goal
    BY <1>1, <1>2, <1>3, <1>4, <1>5, <1>6, <1>7, <1>8, <1>9 DEF Next
  <1>11. BusInv'
    BY NextBus
  <1>12. Bus!TypeOK'
    BY <1>11, SameBus, PTL DEF BusInv
  <1>13. TypeOK'
    BY <1>10, <1>12, TypeParts, PTL
  <1> QED BY <1>10, <1>11, <1>13

\* The variables keep their shapes and every process has a bus of its own, with
\* the handlers that subscribed in it.
THEOREM TypeCorrect == Spec => []TypeOK
  <1> QED BY InitTypes, NextTypes, PTL DEF Spec

-------------------------------------------------------------------------------
(* No gap *)

\* Only order updates are on the bus.
OrdersOnly ==
  /\ \A i \in DOMAIN queue : queue[i].type = "ORDER_UPDATE"
  /\ \A i \in DOMAIN current : current[i].type = "ORDER_UPDATE"

LEMMA NextOrders == TypeOK /\ OrdersOnly /\ [Next]_vars => OrdersOnly'
PROOF
  <1> SUFFICES ASSUME TypeOK, OrdersOnly, [Next]_vars PROVE OrdersOnly'
    OBVIOUS
  <1>0. queue \in Seq(Bus!Event) /\ current \in Seq(Bus!Event)
    BY DEF TypeOK, Bus!TypeOK
  <1>1. ASSUME UNCHANGED <<queue, current>> PROVE OrdersOnly'
    BY <1>1 DEF OrdersOnly
  <1>2. ASSUME queue' = <<>>, current' = <<>> PROVE OrdersOnly'
    BY <1>2 DEF OrdersOnly
  <1>3. ASSUME Report PROVE OrdersOnly'
    <2> DEFINE e == OrderUpdate(Head(wire))
    <2>1. Head(wire) \in Strategies \X Nat
      BY <1>3, HeadTailProperties DEF Report, TypeOK
    <2>2. e \in Bus!Event /\ e.type = "ORDER_UPDATE"
      BY <2>1 DEF OrderUpdate, Bus!Event
    <2>3. /\ current' = current
          /\ queue' = queue \/ queue' = Append(queue, e)
      BY <1>3 DEF Report, Bus!Publish
    <2> HIDE DEF e
    <2>4. CASE queue' = Append(queue, e)
      <3>1. /\ Len(queue) \in Nat /\ DOMAIN queue = 1 .. Len(queue)
            /\ DOMAIN queue' = 1 .. Len(queue) + 1
            /\ \A i \in 1 .. Len(queue) : queue'[i] = queue[i]
            /\ queue'[Len(queue) + 1] = e
        BY <1>0, <2>2, <2>4, AppendProperties, LenProperties
      <3> QED BY <2>2, <2>3, <3>1 DEF OrdersOnly
    <2> QED BY <1>1, <2>3, <2>4
  <1>4. ASSUME Bus!Take PROVE OrdersOnly'
    <2>1. /\ Len(queue) \in Nat \ {0} /\ DOMAIN queue = 1 .. Len(queue)
          /\ Head(queue) = queue[1]
          /\ DOMAIN Tail(queue) = 1 .. Len(queue) - 1
          /\ \A i \in 1 .. Len(queue) - 1 : Tail(queue)[i] = queue[i + 1]
      BY <1>0, <1>4, EmptySeq, HeadTailProperties, LenProperties DEF Bus!Take
    <2>2. current' = <<queue[1]>> /\ queue' = Tail(queue)
      BY <1>4, <2>1 DEF Bus!Take
    <2> QED BY <2>1, <2>2 DEF OrdersOnly
  <1>5. ASSUME Bus!Process PROVE OrdersOnly'
    BY <1>5 DEF Bus!Process, OrdersOnly
  <1>6. ASSUME BusStep PROVE OrdersOnly'
    BY <1>1, <1>4, <1>5, <1>6
    DEF BusStep, Bus!Exit, Bus!RunSome, Bus!Run, Bus!busVars
  <1>7. ASSUME MainStep PROVE OrdersOnly'
    BY <1>1, <1>2, <1>7
    DEF MainStep, Launch, Boot, Bus!Start, InitSymbolInfo, StartUserStream,
        ServeMarket, GoStrategy, StartRest, TakeSignal, CancelOrders, StopMonitor,
        StopBus, Bus!Stop, Return, End, busVars
  <1>8. ASSUME NEW s \in Strategies, StartStep(s) \/ Fill(s) PROVE OrdersOnly'
    BY <1>1, <1>2, <1>8
    DEF StartStep, GetSymbolInfo, End, Subscribe, Bus!Subscribe, Bus!busVars,
        SyncState, Fill, busVars
  <1>9. ASSUME StreamEnds \/ Signal \/ Die \/ Rest \/ UNCHANGED vars PROVE OrdersOnly'
    BY <1>1, <1>2, <1>9 DEF StreamEnds, Signal, Die, Rest, vars, End, busVars
  <1> QED BY <1>3, <1>6, <1>7, <1>8, <1>9 DEF Next

\* Where a fill can be that its strategy has not read: on the stream, in the
\* channel, with the dispatcher, in the part of the log that the bus owes the
\* strategy a goroutine for, or nowhere for a reason.
Traced(f) ==
  \/ \E i \in DOMAIN wire : wire[i] = f
  \/ \E i \in DOMAIN queue : queue[i].symbol = f
  \/ \E i \in DOMAIN current : current[i].symbol = f
  \/ \E i \in BusFacts!Owed(f[1]) : log[i].symbol = f
  \/ f \in unheard \cup shed

\* The inductive form of NoGap.
AllTraced ==
  \A s \in Strategies :
    st[s] = "synced" => \A n \in snapshot[s] + 1 .. fills[s] : Traced(<<s, n>>)

\* What the bus owes a goroutine for has one, or had it and was told.
LEMMA TracedIsNoGap == TypeOK /\ BusInv /\ AllTraced => NoGap
PROOF
  <1> SUFFICES ASSUME TypeOK, BusInv, AllTraced,
                      NEW f \in Untold, ~Excused(f)
               PROVE  UnderWay(f)
    BY DEF NoGap
  <1>1. PICK s \in Strategies :
          /\ st[s] = "synced"
          /\ f \in {<<s, n>> : n \in snapshot[s] + 1 .. fills[s]}
          /\ f \notin Told(s)
    BY DEF Untold
  <1>2. PICK n \in snapshot[s] + 1 .. fills[s] : f = <<s, n>>
    BY <1>1
  <1>3. Traced(f) /\ f[1] = s
    BY <1>1, <1>2 DEF AllTraced
  <1>4. ASSUME NEW i \in BusFacts!Owed(s), log[i].symbol = f
        PROVE  UnderWay(f)
    <2>1. BusFacts!Passes(s, log[i])
      BY DEF BusFacts!Owed, BusFacts!Passes
    <2>2. i \in spawned[s] \cup called[s]
      BY <2>1 DEF BusInv, BusFacts!ExactlyOnce
    <2>3. i \notin called[s]
      BY <1>1, <1>4 DEF Told
    <2> QED BY <1>3, <1>4, <2>2, <2>3 DEF UnderWay
  <1> QED BY <1>3, <1>4 DEF Traced, UnderWay, Excused

\* The bus hands a fill on from the channel to the dispatcher and from there to
\* the strategy, which has subscribed by then.
LEMMA BusTraces ==
  ASSUME TypeOK, BusInv, OrdersOnly, BusStep,
         NEW f, f[1] \in subscribed, Traced(f)
  PROVE  Traced(f)'
PROOF
  <1>0. /\ queue \in Seq(Bus!Event) /\ current \in Seq(Bus!Event)
        /\ log \in Seq(Bus!Event)
        /\ Len(current) = (IF dispatcher = "process" THEN 1 ELSE 0)
        /\ subscribed \subseteq Strategies
    BY DEF TypeOK, Bus!TypeOK
  <1>1. UNCHANGED <<wire, unheard, shed>>
    BY DEF BusStep, histVars
  <1>2. CASE Bus!Take
    <2>1. /\ Len(queue) \in Nat \ {0} /\ DOMAIN queue = 1 .. Len(queue)
          /\ Head(queue) = queue[1]
          /\ DOMAIN Tail(queue) = 1 .. Len(queue) - 1
          /\ \A i \in 1 .. Len(queue) - 1 : Tail(queue)[i] = queue[i + 1]
      BY <1>0, <1>2, EmptySeq, HeadTailProperties, LenProperties DEF Bus!Take
    <2>2. /\ current' = <<queue[1]>> /\ queue' = Tail(queue)
          /\ UNCHANGED <<log, subscribed, since>>
      BY <1>2, <2>1 DEF Bus!Take
    <2>3. DOMAIN current = {}
      BY <1>0, <1>2, LenProperties DEF Bus!Take
    <2>4. BusFacts!Owed(f[1])' = BusFacts!Owed(f[1])
      BY <2>2 DEF BusFacts!Owed
    <2>5. ASSUME NEW i \in DOMAIN queue, queue[i].symbol = f PROVE Traced(f)'
      <3>1. CASE i = 1
        BY <2>2, <2>5, <3>1 DEF Traced
      <3>2. CASE i # 1
        <4>1. i - 1 \in DOMAIN queue' /\ queue'[i - 1] = queue[i]
          BY <2>1, <2>2, <3>2
        <4> QED BY <2>5, <4>1 DEF Traced
      <3> QED BY <3>1, <3>2
    <2> QED BY <1>1, <2>2, <2>3, <2>4, <2>5 DEF Traced
  <1>3. CASE Bus!Process
    <2>1. /\ Len(log) \in Nat /\ DOMAIN current = {1}
          /\ current[1] \in Bus!Event
      BY <1>0, <1>3, LenProperties, ElementOfSeq DEF Bus!Process
    <2>2. BusFacts!Process /\ BusFacts!TypeOK
      BY <1>3 DEF Bus!Process, BusFacts!Process, BusInv
    <2>3. /\ BusFacts!Owed(f[1])' = BusFacts!Owed(f[1]) \cup
               (IF f[1] \in subscribed
                   /\ [s \in Strategies |-> "ORDER_UPDATE"][f[1]] = current[1].type
                   /\ since[f[1]] < Len(log) + 1
                THEN {Len(log) + 1} ELSE {})
          /\ \A i \in 1 .. Len(log) : log'[i] = log[i]
          /\ log'[Len(log) + 1] = current[1]
      BY <1>0, <2>2, BusAssumed, BusFacts!ProcessOwes
    <2>4. current[1].type = "ORDER_UPDATE" /\ since[f[1]] < Len(log) + 1
      <3>1. since[f[1]] <= Len(log) /\ since[f[1]] \in Nat
        BY <1>0 DEF BusInv, BusFacts!SinceInLog, BusFacts!TypeOK
      <3> QED BY <2>1, <3>1 DEF OrdersOnly
    <2>5. BusFacts!Owed(f[1])' = BusFacts!Owed(f[1]) \cup {Len(log) + 1}
      BY <1>0, <2>3, <2>4
    <2>6. BusFacts!Owed(f[1]) \subseteq 1 .. Len(log) /\ queue' = queue
      BY <1>3 DEF BusFacts!Owed, Bus!Process
    <2>7. \A i \in BusFacts!Owed(f[1]) : log'[i] = log[i]
      BY <2>3, <2>6
    <2> QED BY <1>1, <2>1, <2>3, <2>5, <2>6, <2>7 DEF Traced
  <1>4. CASE Bus!Exit \/ \E s \in Strategies : Bus!RunSome(s)
    <2>1. UNCHANGED <<queue, current, log, subscribed, since>>
      BY <1>4 DEF Bus!Exit, Bus!RunSome, Bus!Run, Bus!busVars
    <2>2. BusFacts!Owed(f[1])' = BusFacts!Owed(f[1])
      BY <2>1 DEF BusFacts!Owed
    <2> QED BY <1>1, <2>1, <2>2 DEF Traced
  <1> QED BY <1>2, <1>3, <1>4 DEF BusStep

\* The stream hands a fill to the channel, or the channel is full and it is shed.
LEMMA ReportTraces ==
  ASSUME TypeOK, Report, NEW f, Traced(f)
  PROVE  Traced(f)'
PROOF
  <1> DEFINE e == OrderUpdate(Head(wire))
  <1>0. /\ queue \in Seq(Bus!Event) /\ dropped \in Nat
        /\ wire \in Seq(Strategies \X Nat) /\ wire # <<>>
    BY DEF TypeOK, Bus!TypeOK, Report
  <1>1. /\ Len(wire) \in Nat \ {0} /\ DOMAIN wire = 1 .. Len(wire)
        /\ Head(wire) = wire[1] /\ Head(wire) \in Strategies \X Nat
        /\ DOMAIN Tail(wire) = 1 .. Len(wire) - 1
        /\ \A i \in 1 .. Len(wire) - 1 : Tail(wire)[i] = wire[i + 1]
    BY <1>0, EmptySeq, HeadTailProperties, LenProperties
  <1>2. e \in Bus!Event /\ e.symbol = wire[1]
    BY <1>1 DEF OrderUpdate, Bus!Event
  <1>3. /\ wire' = Tail(wire)
        /\ UNCHANGED <<unheard, current, log, subscribed, since>>
        /\ \/ queue' = Append(queue, e) /\ shed \subseteq shed'
           \/ queue' = queue /\ shed' = shed \cup {wire[1]}
    <2>1. CASE Len(queue) < QueueCap
      BY <1>0, <1>1, <2>1 DEF Report, Bus!Publish
    <2>2. CASE ~(Len(queue) < QueueCap)
      BY <1>0, <1>1, <2>2 DEF Report, Bus!Publish
    <2> QED BY <2>1, <2>2
  <1>4. BusFacts!Owed(f[1])' = BusFacts!Owed(f[1])
    BY <1>3 DEF BusFacts!Owed
  <1> HIDE DEF e
  <1>5. \/ /\ DOMAIN queue \subseteq DOMAIN queue'
           /\ \A i \in DOMAIN queue : queue'[i] = queue[i]
           /\ Len(queue) + 1 \in DOMAIN queue' /\ queue'[Len(queue) + 1] = e
        \/ queue' = queue /\ wire[1] \in shed'
    <2>1. CASE queue' = Append(queue, e)
      <3>1. /\ queue' \in Seq(Bus!Event) /\ Len(queue') = Len(queue) + 1
            /\ \A i \in 1 .. Len(queue) : queue'[i] = queue[i]
            /\ queue'[Len(queue) + 1] = e
        BY <1>0, <1>2, <2>1, AppendProperties
      <3>2. /\ Len(queue) \in Nat /\ DOMAIN queue = 1 .. Len(queue)
            /\ DOMAIN queue' = 1 .. Len(queue')
        BY <1>0, <3>1, LenProperties
      <3> QED BY <3>1, <3>2
    <2>2. CASE queue' = queue /\ shed' = shed \cup {wire[1]}
      BY <2>2
    <2> QED BY <1>3, <2>1, <2>2
  <1>6. ASSUME NEW i \in DOMAIN wire, wire[i] = f PROVE Traced(f)'
    <2>1. CASE i = 1
      BY <1>2, <1>5, <1>6, <2>1 DEF Traced
    <2>2. CASE i # 1
      <3>1. i - 1 \in DOMAIN wire' /\ wire'[i - 1] = wire[i]
        BY <1>1, <1>3, <2>2
      <3> QED BY <1>6, <3>1 DEF Traced
    <2> QED BY <2>1, <2>2
  <1>7. ASSUME NEW i \in DOMAIN queue, queue[i].symbol = f PROVE Traced(f)'
    BY <1>5, <1>7 DEF Traced
  <1> QED BY <1>3, <1>4, <1>6, <1>7 DEF Traced

LEMMA NextTraced ==
  TypeOK /\ Phases /\ BusInv /\ OrdersOnly /\ AllTraced /\ [Next]_vars => AllTraced'
PROOF
  <1> SUFFICES ASSUME TypeOK, Phases, BusInv, OrdersOnly, AllTraced, [Next]_vars,
                      NEW s \in Strategies, st'[s] = "synced",
                      NEW n \in snapshot'[s] + 1 .. fills'[s]
               PROVE  Traced(<<s, n>>)'
    BY DEF AllTraced
  <1> DEFINE f == <<s, n>>
  <1>0. /\ fills \in [Strategies -> Nat] /\ snapshot \in [Strategies -> Nat]
        /\ wire \in Seq(Strategies \X Nat)
        /\ st \in [Strategies -> {"none", "info", "subscribe", "sync"} \cup Started]
        /\ since \in [Strategies -> Nat] /\ turn \in Strategies
        /\ subscribed \subseteq Strategies
        /\ f[1] = s
    BY DEF TypeOK, Bus!TypeOK
  <1>1. ASSUME st[s] = "synced", snapshot'[s] = snapshot[s], fills'[s] = fills[s]
        PROVE  Traced(f) /\ s \in subscribed
    <2>1. s \in subscribed
      BY <1>1 DEF TypeOK, Started
    <2> QED BY <1>1, <2>1 DEF AllTraced
  <1>2. ASSUME Traced(f), UNCHANGED <<wire, queue, current, log, unheard, shed>>,
               BusFacts!Owed(s)' = BusFacts!Owed(s)
        PROVE  Traced(f)'
    BY <1>0, <1>2 DEF Traced
  <1>3. ASSUME st[s] = "synced", snapshot' = snapshot, fills' = fills,
               UNCHANGED <<wire, queue, current, log, subscribed, since, unheard, shed>>
        PROVE  Traced(f)'
    <2>1. BusFacts!Owed(s)' = BusFacts!Owed(s)
      BY <1>3 DEF BusFacts!Owed
    <2> QED BY <1>1, <1>2, <1>3, <2>1
  <1>4. ASSUME NEW where, End(where) PROVE FALSE
    BY <1>4 DEF End
  <1>5. ASSUME MainStep PROVE Traced(f)'
    <2>1. ~Launch
      BY DEF Launch, Phases
    <2>2. ~Return
      BY <1>4 DEF Return
    <2>3. CASE GoStrategy
      <3>1. st[s] = "synced"
        BY <1>0, <2>3 DEF GoStrategy
      <3> QED BY <1>3, <2>3, <3>1 DEF GoStrategy, busVars, histVars
    <2>4. CASE Boot \/ StopBus
      BY <1>3, <2>4 DEF Boot, Bus!Start, StopBus, Bus!Stop, histVars
    <2> QED
      BY <1>3, <1>5, <2>1, <2>2, <2>3, <2>4
      DEF MainStep, InitSymbolInfo, StartUserStream, ServeMarket, StartRest,
          TakeSignal, CancelOrders, StopMonitor, busVars, histVars
  <1>6. ASSUME NEW x \in Strategies, GetSymbolInfo(x) PROVE Traced(f)'
    <2>1. x \in known
      BY <1>4, <1>6 DEF GetSymbolInfo
    <2>2. st[s] = "synced"
      BY <1>0, <1>6, <2>1 DEF GetSymbolInfo
    <2> QED BY <1>3, <1>6, <2>1, <2>2 DEF GetSymbolInfo, busVars, histVars
  <1>7. ASSUME NEW x \in Strategies, Subscribe(x) PROVE Traced(f)'
    <2>1. /\ st[s] = "synced" /\ s # x
          /\ UNCHANGED <<fills, snapshot, wire, queue, current, log, unheard, shed>>
          /\ subscribed' = subscribed \cup {x}
          /\ since' = [since EXCEPT ![x] = Len(log)]
      BY <1>0, <1>7 DEF Subscribe, Bus!Subscribe, Bus!busVars, histVars
    <2>2. since'[s] = since[s] /\ (s \in subscribed') <=> (s \in subscribed)
      BY <1>0, <2>1
    <2>3. BusFacts!Owed(s)' = BusFacts!Owed(s)
      BY <2>1, <2>2 DEF BusFacts!Owed
    <2> QED BY <1>1, <1>2, <2>1, <2>3
  <1>8. ASSUME NEW x \in Strategies, SyncState(x) PROVE Traced(f)'
    <2>1. UNCHANGED <<fills, wire, queue, current, log, subscribed, since, shed>>
      BY <1>8 DEF SyncState, busVars
    <2>2. CASE s = x
      <3>1. snapshot'[s] = fills[s] /\ fills'[s] = fills[s]
        BY <1>0, <1>8, <2>2 DEF SyncState
      <3> QED BY <1>0, <3>1
    <2>3. CASE s # x
      <3>1. /\ st[s] = "synced" /\ snapshot'[s] = snapshot[s]
            /\ \A g \in unheard : g[1] # x => g \in unheard'
        BY <1>0, <1>8, <2>3 DEF SyncState
      <3>2. BusFacts!Owed(s)' = BusFacts!Owed(s)
        BY <2>1 DEF BusFacts!Owed
      <3>3. Traced(f)
        BY <1>1, <2>1, <3>1
      <3> QED BY <1>0, <2>1, <2>3, <3>1, <3>2, <3>3 DEF Traced
    <2> QED BY <2>2, <2>3
  <1>9. ASSUME NEW x \in Strategies, Fill(x) PROVE Traced(f)'
    <2> DEFINE g == <<x, fills'[x]>>
    <2>1. /\ fills' = [fills EXCEPT ![x] = @ + 1]
          /\ \/ wire' = Append(wire, g) /\ unheard' = unheard
             \/ unheard' = unheard \cup {g} /\ wire' = wire
          /\ UNCHANGED <<st, snapshot, queue, current, log, subscribed, since, shed>>
      BY <1>9 DEF Fill, busVars
    <2>2. BusFacts!Owed(s)' = BusFacts!Owed(s)
      BY <2>1 DEF BusFacts!Owed
    <2>3. g \in Strategies \X Nat
      BY <1>0, <2>1
    <2> HIDE DEF g
    <2>4. \/ /\ DOMAIN wire \subseteq DOMAIN wire'
             /\ \A i \in DOMAIN wire : wire'[i] = wire[i]
             /\ \E i \in DOMAIN wire' : wire'[i] = g
             /\ unheard' = unheard
          \/ wire' = wire /\ unheard' = unheard \cup {g}
      <3>1. CASE wire' = Append(wire, g) /\ unheard' = unheard
        <4>1. /\ wire' \in Seq(Strategies \X Nat) /\ Len(wire') = Len(wire) + 1
              /\ \A i \in 1 .. Len(wire) : wire'[i] = wire[i]
              /\ wire'[Len(wire) + 1] = g
          BY <1>0, <2>3, <3>1, AppendProperties
        <4>2. /\ Len(wire) \in Nat /\ DOMAIN wire = 1 .. Len(wire)
              /\ DOMAIN wire' = 1 .. Len(wire')
          BY <1>0, <4>1, LenProperties
        <4>3. /\ DOMAIN wire \subseteq DOMAIN wire'
              /\ Len(wire) + 1 \in DOMAIN wire'
          BY <4>1, <4>2
        <4>4. \A i \in DOMAIN wire : wire'[i] = wire[i]
          BY <4>1, <4>2
        <4>5. \E i \in DOMAIN wire' : wire'[i] = g
          BY <4>1, <4>3
        <4> QED BY <3>1, <4>3, <4>4, <4>5
      <3> QED BY <2>1, <3>1
    <2>5. CASE f = g
      BY <2>4, <2>5 DEF Traced
    <2>6. CASE f # g
      <3>1. n \in snapshot[s] + 1 .. fills[s]
        BY <1>0, <2>1, <2>6 DEF g
      <3>2. Traced(f)
        BY <2>1, <3>1 DEF AllTraced
      <3> QED BY <1>0, <2>1, <2>2, <2>4, <3>2 DEF Traced
    <2> QED BY <2>5, <2>6
  <1>10. ASSUME Report PROVE Traced(f)'
    BY <1>1, <1>10, ReportTraces DEF Report
  <1>11. ASSUME StreamEnds PROVE Traced(f)'
    <2>1. /\ unheard' = unheard \cup {wire[i] : i \in DOMAIN wire}
          /\ UNCHANGED <<st, snapshot, fills, queue, current, log, subscribed, since,
                         shed>>
      BY <1>11 DEF StreamEnds, busVars
    <2>2. BusFacts!Owed(s)' = BusFacts!Owed(s)
      BY <2>1 DEF BusFacts!Owed
    <2> QED BY <1>0, <1>1, <2>1, <2>2 DEF Traced
  <1>12. ASSUME BusStep PROVE Traced(f)'
    BY <1>0, <1>1, <1>12, BusTraces DEF BusStep, histVars
  <1>13. ASSUME Signal \/ Rest \/ UNCHANGED vars PROVE Traced(f)'
    BY <1>3, <1>13 DEF Signal, Rest, vars, busVars, histVars
  <1>14. ~Die
    BY <1>4 DEF Die
  <1> QED
    BY <1>5, <1>6, <1>7, <1>8, <1>9, <1>10, <1>11, <1>12, <1>13, <1>14
    DEF Next, StartStep

LEMMA InitTraced == Init => OrdersOnly /\ AllTraced
  BY DEF Init, Bus!Init, OrdersOnly, AllTraced

\* Whatever the order of the handlers' subscriptions, of the fills and of the
\* restarts, a strategy that has read its position misses no fill but those the
\* stream or the full channel never passed on.
THEOREM StartLeavesNoGap == Spec => []NoGap
PROOF
  <1> DEFINE Inv == TypeOK /\ Phases /\ BusInv /\ OrdersOnly /\ AllTraced
  <1>1. Init => Inv
    BY InitTypes, InitTraced
  <1>2. Inv /\ [Next]_vars => Inv'
    BY NextTypes, NextOrders, NextTraced
  <1>3. Inv => NoGap
    BY TracedIsNoGap
  <1> QED BY <1>1, <1>2, <1>3, PTL DEF Spec

-------------------------------------------------------------------------------
(* The shutdown *)

\* The loop of the shutdown has asked for the symbols before its turn, and the
\* bus is not told to stop before main is past everything else.
Asked ==
  /\ main \in Starting \cup {"waiting"} => asked = {}
  /\ main = "cancel" => asked = 1 .. turn - 1
  /\ main \in {"stopMonitor", "stopBus", "return", "finished"} => asked = Strategies
  /\ dispatcher = "exited" => cancelled
  /\ cancelled => main = "return"

LEMMA NextAsked == TypeOK /\ Phases /\ Asked /\ [Next]_vars => Asked'
PROOF
  <1> SUFFICES ASSUME TypeOK, Phases, Asked, [Next]_vars PROVE Asked'
    OBVIOUS
  <1> USE OneIsStrategy DEF histVars, busVars, startVars
  <1>0. turn \in Strategies
    BY DEF TypeOK
  <1>1. ASSUME UNCHANGED <<main, turn, asked, dispatcher, cancelled>> PROVE Asked'
    BY <1>1 DEF Asked
  <1>2. ASSUME main \in Starting, main' \in Starting \cup {"waiting"}, asked' = asked,
               cancelled' = cancelled,
               dispatcher' = dispatcher \/ dispatcher' = "select"
        PROVE  Asked'
    BY <1>2 DEF Asked, Starting
  <1>3. ASSUME End("down"), asked' = asked PROVE Asked'
    BY <1>3 DEF End, Asked, Starting
  <1>4. ASSUME MainStep PROVE Asked'
    <2>1. CASE Launch
      BY <2>1 DEF Launch, Asked, Starting
    <2>2. CASE Boot
      BY <1>2, <2>2 DEF Boot, Bus!Start, Starting
    <2>3. CASE InitSymbolInfo \/ ServeMarket \/ GoStrategy
      BY <1>2, <2>3 DEF InitSymbolInfo, ServeMarket, GoStrategy, Advance, Starting
    <2>4. CASE StartUserStream \/ StartRest
      BY <1>2, <2>4 DEF StartUserStream, StartRest, Starting
    <2>5. CASE TakeSignal
      <3>1. turn = 1
        BY <2>5 DEF TakeSignal, Phases
      <3>2. asked = {} /\ 1 .. turn - 1 = {}
        BY <2>5, <3>1 DEF TakeSignal, Asked
      <3> QED BY <2>5, <3>1, <3>2 DEF TakeSignal, Asked, Starting
    <2>6. CASE CancelOrders
      <3>1. /\ main = "cancel" /\ asked = 1 .. turn - 1
            /\ asked' = asked \cup {turn}
            /\ UNCHANGED <<dispatcher, cancelled>>
        BY <2>6 DEF CancelOrders, Advance, Asked
      <3>2. asked' = 1 .. turn
        BY <1>0, <3>1 DEF Strategies
      <3>3. \/ turn < N /\ turn' = turn + 1 /\ main' = "cancel"
            \/ turn = N /\ turn' = 1 /\ main' = "stopMonitor"
        BY <1>0, <2>6, AdvanceTurns DEF CancelOrders
      <3> QED BY <1>0, <3>1, <3>2, <3>3 DEF Asked, Starting, Strategies
    <2>7. CASE StopMonitor
      BY <2>7 DEF StopMonitor, Asked, Starting
    <2>8. CASE StopBus
      BY <2>8 DEF StopBus, Bus!Stop, Asked, Starting
    <2>9. CASE Return
      BY <2>9 DEF Return, End, Asked, Starting
    <2> QED BY <1>4, <2>1, <2>2, <2>3, <2>4, <2>5, <2>6, <2>7, <2>8, <2>9 DEF MainStep
  <1>5. ASSUME NEW s \in Strategies, StartStep(s) \/ Fill(s) PROVE Asked'
    BY <1>1, <1>3, <1>5
    DEF StartStep, GetSymbolInfo, Subscribe, Bus!Subscribe, Bus!busVars, SyncState, Fill
  <1>6. ASSUME BusStep PROVE Asked'
    <2>1. /\ UNCHANGED <<main, turn, asked, cancelled>>
          /\ dispatcher' = "exited" => dispatcher = "exited" \/ cancelled
      BY <1>6 DEF BusStep, Bus!Take, Bus!Process, Bus!Exit, Bus!RunSome, Bus!Run,
                  Bus!busVars
    <2> QED BY <2>1 DEF Asked
  <1>7. ASSUME Report \/ StreamEnds \/ Signal \/ Die \/ Rest \/ UNCHANGED vars
        PROVE  Asked'
    BY <1>1, <1>3, <1>7
    DEF Report, Bus!Publish, StreamEnds, Signal, Die, Rest, vars
  <1> QED BY <1>4, <1>5, <1>6, <1>7 DEF Next

\* However many symbols there are and whichever of the calls fail, main has asked
\* for each of them before the bus ends and before it returns.
THEOREM EveryCancelIsAsked == Spec => []CancelReachesAll
PROOF
  <1> DEFINE Inv == TypeOK /\ Phases /\ BusInv /\ Asked
  <1>1. Init => Asked
    BY DEF Init, Bus!Init, Asked, Starting
  <1>2. Init => Inv
    BY <1>1, InitTypes
  <1>3. Inv /\ [Next]_vars => Inv'
    BY NextTypes, NextAsked
  <1>4. Inv => CancelReachesAll
    BY DEF Asked, CancelReachesAll
  <1> QED BY <1>2, <1>3, <1>4, PTL DEF Spec
================================================================================
