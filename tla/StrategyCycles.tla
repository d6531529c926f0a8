---------------------------- MODULE StrategyCycles ----------------------------
(***************************************************************************)
(* What Strategy owes from one cycle to the next.                          *)
(*                                                                         *)
(* A cycle begins with a base order and ends with the next one.  The code  *)
(* has no such notion, so three history variables keep it: how the cycle   *)
(* began, and what was sold in it.  They only watch; no action of Strategy *)
(* depends on them.                                                        *)
(***************************************************************************)
EXTENDS StrategyProperties, FiniteSetsExt

VARIABLES taken,   \* exit fills since the base order
          early,   \* one of them came while the ladder was being placed
          clean    \* the cycle began at rest, and was left alone while down

cvars == <<vars, taken, early, clean>>

BaseBought ==
  Len(orders') > Len(orders) /\ orders'[NextID] = [side |-> "entry", rem |-> 0]

\* The strategy is up, flat and has just claimed a tick; nothing else of it is
\* under way.
FromRest ==
  /\ phase = "up" /\ currentState = "PLACING_GRID"
  /\ pos = 0 /\ OpenOrders = {}
  /\ fills = {} /\ gridGo = 0 /\ tpGo = 0 /\ cancelGo = {}
  /\ \E t \in Threads :
       At(t, "enter") /\ \A u \in Threads \ {t} : At(u, "idle")

\* The ladder is being placed or about to be.
Building ==
  \/ gridGo > 0
  \/ \E t \in Threads : pc[t] \in GridSection
  \/ \E o \in fills : orders[o].side = "entry"

\* A process that ends does so at rest with no work dropped before, nothing is
\* filled while it is down, and with a position no handler runs between its
\* subscription and its syncState.
Undisturbed ==
  /\ Running /\ ~Running' => Quiescent /\ tpSkipCount = 0 /\ gridSkipCount = 0
  /\ ~Running => UNCHANGED pos
  /\ phase = "booting" /\ pos # 0 => UNCHANGED <<pc, gridGo>>

CycleInit == Init /\ taken = 0 /\ early = FALSE /\ clean = TRUE

Watch ==
  \/ BaseBought /\ taken' = 0 /\ early' = FALSE /\ clean' = FromRest
  \/ /\ ~BaseBought
     /\ taken' = taken + (exits' - exits)
     /\ early' = (early \/ (exits' > exits /\ Building))
     /\ clean' = (clean /\ Undisturbed)

CycleNext == Next /\ Watch
CycleSpec == CycleInit /\ [][CycleNext]_cvars

\* What rests of each order, and of a set of them.
Resting == [o \in DOMAIN orders |-> orders[o].rem]
Units(S) == MapThenSumSet(LAMBDA o : Resting[o], S)

\* The base order and all rungs.
WholeLadder == 1 + MapThenSumSet(LAMBDA i : SafetyUnits[i], 1 .. MaxSafetyOrders)

-------------------------------------------------------------------------------
(* Safety of a clean cycle.  Without faults it is every cycle but those that *)
(* begin while the previous one is still being cleaned up, or that a fill    *)
(* catches with the process down.                                            *)

\* Until the first exit fill the strategy knows every exit order that rests: it
\* is the one on record, or updateTP is about to replace or to store it, or the
\* process has yet to find it (syncState).  None is left over from an earlier
\* cycle, so no two of them can be filled for the same position.
ExitIsKnown ==
  clean /\ taken = 0 =>
    \A o \in OpenExits :
      \/ o = currentTPOrderID
      \/ \E t \in Threads : oid[t] = o /\ pc[t] \in {"tpCancel", "tpStore"}
      \/ phase # "up"

\* Never is more offered for sale than is held, at no moment of the replacement
\* of a take profit: updateTP withdraws before it places, and places what it
\* read before.
OffersFit == clean /\ taken = 0 => Units(OpenExits) <= pos

\* While a cycle builds up, a strategy at rest has exactly one exit order, the
\* one on record, however the fills of the ladder interleave with
\* placeGridOrders, updateTP and a restart, and whichever updates were skipped;
\* and it is for exactly the position held, unless tpSkipCount shows that an
\* update was skipped.
RestIsCovered ==
  clean /\ taken = 0 /\ Quiescent /\ pos # 0 =>
    /\ OpenExits = {currentTPOrderID}
    /\ tpSkipCount = 0 => orders[currentTPOrderID].rem = pos

\* The ladder is placed once and as a whole: at rest, what it has filled is held
\* and the rest of it rests in the book, whatever order the fills of the base
\* order and of the first rungs are handled in (handleOrderUpdate decides by
\* the state whether a fill starts a ladder).  The TryLock of placeGridOrders
\* never fails in such a cycle.
LadderIsWhole ==
  clean /\ taken = 0 /\ Quiescent /\ pos # 0 =>
    pos + Units(OpenOrders \ OpenExits) = WholeLadder

\* When the first exit fill closes the position and nothing is filled after
\* it, the strategy comes to rest idle and without an exit order: the reset of
\* handleOrderUpdate, CancelAllOrders and the withdrawal at the end of updateTP
\* leave none behind, whichever of them comes last.
CleanClose ==
  clean /\ taken = 1 /\ pos = 0 /\ Quiescent =>
    currentState = "IDLE" /\ OpenExits = {}

\* ... and no rung of its ladder rests either, to open a position nobody asked
\* for, if the ladder was complete when the exit was filled (CancelAllOrders).
NothingRests ==
  clean /\ ~early /\ taken = 1 /\ pos = 0 /\ Quiescent => OpenOrders = {}

-------------------------------------------------------------------------------
(* A claim the code does not keep *)

\* strategy.go:171 takes a "position without TP order" for something to be
\* repaired.  Once at rest, a strategy in position that nothing was sold of has
\* its take profit, unless a counter shows that work was skipped.
HeldIsProtected ==
  /\ currentState = "IN_POSITION" /\ pos > 0 /\ taken = 0
  /\ gridSkipCount = 0 /\ tpSkipCount = 0 /\ Quiescent
  => OpenExits # {}
===============================================================================
