-------------------------- MODULE StrategyProperties --------------------------
(* What Strategy must, and must not, do. *)
EXTENDS Strategy

BookType ==
  /\ pos \in Int
  /\ orders \in Seq(Order)
  /\ fills \subseteq 1 .. Len(orders)

MemoryType ==
  /\ phase \in Phases
  /\ currentState \in States
  /\ positionValue \in {0, 1} /\ position \in Int
  /\ gridSkipCount \in Nat /\ tpSkipCount \in Nat
  /\ gridGo \in Nat /\ tpGo \in Nat

FlagType == cooling \in BOOLEAN

LockType ==
  /\ pc \in [Threads -> PC]
  /\ gridMu \in Threads \cup {NoThread}
  /\ tpMu \in Threads \cup {NoThread}

LocalType ==
  /\ amt \in [Threads -> Nat]
  /\ level \in [Threads -> 0 .. MaxSafetyOrders + 1]

IdType ==
  /\ currentTPOrderID \in 0 .. Len(orders)
  /\ cancelGo \subseteq 1 .. Len(orders)
  /\ oid \in [Threads -> 0 .. Len(orders)]

CountType ==
  exits \in Nat /\ entries \in Nat /\ filled \in Nat /\ manual \in Nat /\ crashes \in Nat

\* The variables keep the shapes the code gives them; an order is only
\* referred to after the exchange has given it an id.
TypeOK ==
  /\ BookType /\ MemoryType /\ FlagType /\ LockType
  /\ LocalType /\ IdType /\ CountType

\* At most one goroutine is inside updateTP and at most one inside
\* placeGridOrders, the latter through its final updateTP, whatever
\* handlers, restarts and early returns come together: each return path
\* releases exactly the mutexes the goroutine holds (the TryLocks and defers
\* of placeGridOrders and updateTP).
SectionsExclusive ==
  \A t \in Threads :
    /\ pc[t] \in TPSection <=> tpMu = t
    /\ pc[t] \in GridSection => gridMu = t
    /\ gridMu = t => pc[t] \in GridSection \cup TPSection

\* PLACING_GRID is always about to be left: some goroutine is still placing the
\* base order or about to reset the state, or the event of a filled entry order
\* is on its way (handleTick, syncState and handleOrderUpdate all write the
\* state).  It takes that no event is lost.
PlacingIsTransient ==
  currentState = "PLACING_GRID" =>
    \/ \E t \in Threads : pc[t] \in {"enter", "rejected"}
    \/ \E o \in fills : orders[o].side = "entry"

\* The take profit on record, the one updateTP holds in its hand and the ones
\* waiting to be withdrawn are exit-side orders: no race of updateTP, the fill
\* handlers and a restart makes the strategy cancel one of its safety orders.
TPIsExit ==
  \A o \in {currentTPOrderID} \cup cancelGo \cup {oid[t] : t \in Threads} :
    o # 0 => orders[o].side = "exit"

\* The first exit order cannot turn the position around: updateTP never asks
\* for more than the position it read, and the position does not shrink before.
FirstExitFits == exits <= 1 => pos >= 0

-------------------------------------------------------------------------------
(* Liveness *)

\* PLACING_GRID is left again: a strategy that claimed a tick is not stuck
\* ignoring all ticks (handleTick, handleOrderUpdate, syncState).
PlacingEnds == (currentState = "PLACING_GRID") ~> (currentState # "PLACING_GRID")

\* Whatever the market and the user do, the activity they set off ends: every
\* handler returns, no mutex stays locked, no goroutine is left over and the
\* answers of the strategy set off no endless chain.
Settles == []<>(Quiescent /\ gridMu = NoThread /\ tpMu = NoThread)

-------------------------------------------------------------------------------
(* Claims of the documentation that the code does not keep *)

\* README.md: the locks prevent duplicate orders.  A base order is only placed
\* without a position (handleTick, syncState).
NoSecondBase ==
  [][\A t \in Threads : EnterPosition(t) /\ pos' # pos => pos = 0]_vars

\* README.md: errors are handled; one of them must not end the process.
NoPanic == phase # "panicked"

\* strategy.go takes a failed cancellation for a take profit that "might be
\* filled or already canceled" and goes on; the position then is not sold twice.
NeverFlips == pos >= 0
===============================================================================
