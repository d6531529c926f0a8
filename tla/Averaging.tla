------------------------------- MODULE Averaging -------------------------------
(***************************************************************************)
(* What the ladder of Ladder is for: the base order of enterLong and       *)
(* enterShort, the position as the rungs are filled one after the other,   *)
(* the take profit updateTP prices from its average, and the number of     *)
(* filled rungs getFilledSafetyCount reads off it.                         *)
(*                                                                         *)
(* An average price is the fraction cost / amt.                            *)
(***************************************************************************)
EXTENDS Ladder, FiniteSetsExt

CONSTANTS Slips  \* distances of the tick from the price the base order gets

ASSUME AveragingAssumption ==
  /\ Slips \subseteq Nat
  /\ \A slip \in Slips, e \in Entries : slip < e

VARIABLES filled,  \* how many orders of the ladder are filled
          amt,     \* the size of the position
          cost     \* what it was bought or sold for

avars == <<vars, filled, amt, cost>>

\* The market order for a tick, in enterLong and enterShort.
BaseQty(price) == Max({RoundUpToStep(MinNotional * weight, price), MinQty})

AveragingInit ==
  /\ Init
  /\ filled = 0
  /\ \E slip \in Slips : amt \in {BaseQty(entry - slip), BaseQty(entry + slip)}
  /\ cost = amt * entry

PlaceRung == Rung /\ UNCHANGED <<filled, amt, cost>>

\* The price walks through the ladder that stands.
Fill ==
  /\ i > MaxSafetyOrders
  /\ filled < Len(placed)
  /\ filled' = filled + 1
  /\ LET o == placed[filled + 1]
     IN  /\ amt' = amt + o.qty
         /\ cost' = cost + o.qty * o.price
  /\ UNCHANGED vars

AveragingNext == PlaceRung \/ Fill

AveragingSpec == AveragingInit /\ [][AveragingNext]_avars

-------------------------------------------------------------------------------
(* updateTP *)

\* RoundToTickSize of the positive price num / den.
RoundToTickOf(num, den) ==
  ((2 * num + den * TickSize) \div (2 * den * TickSize)) * TickSize

\* The 30m ATR; one that could not be fetched is 1% of the average.
TPATR == IF atr["30m"] = 0 THEN cost \div (100 * amt) ELSE atr["30m"]

\* A bug, for comparison: both directions take their profit above the average.
TPPriceUp == RoundToTickOf(cost + TPATR * amt, amt)

\* A bug, for comparison: the take profit stays where the base order put it.
TPPriceOfEntry ==
  RoundToTick(IF direction = "LONG" THEN entry + TPATR ELSE entry - TPATR)

TPPrice ==
  RoundToTickOf(IF direction = "LONG" THEN cost + TPATR * amt
                                      ELSE cost - TPATR * amt, amt)

(* getFilledSafetyCount *)

\* The units of the base order and n rungs.
Units ==
  [n \in 1 .. MaxSafetyOrders |-> 1 + MapThenSumSet(LAMBDA k : getFibonacci[k], 1 .. n)]

\* A bug, for comparison: the unit is not weighted.
ReachesUnweighted(n) ==
  2 * amt >= RoundUpToStep(MinNotional * amt, cost) * (2 * Units[n] - 1)

\* The position has the size of the base order and n rungs, give or take half a
\* unit - a unit at the average price.
Reaches(n) ==
  2 * amt >= RoundUpToStep(MinNotional * weight * amt, cost) * (2 * Units[n] - 1)

\* The loop ends at the first rung that is not reached; no rung counts as one.
FilledSafetyCount ==
  Max({1} \cup {n \in 1 .. MaxSafetyOrders : \A k \in 1 .. n : Reaches(k)})

-------------------------------------------------------------------------------
(* Properties *)

\* The size of a tick is small against the distance of the take profit.
FineTicks == 2 * TPATR >= TickSize

\* A cycle never closes below what its position cost, however many rungs were
\* filled at whatever prices, and although the price is rounded to the nearest
\* tick, which may be the wrong way (updateTP).
NeverAtALoss ==
  FineTicks => IF direction = "LONG" THEN TPPrice * amt >= cost
                                     ELSE TPPrice * amt <= cost

LastPrice == IF filled = 0 THEN entry ELSE placed[filled].price

\* The base order keeps the filters as well, at some price as near as its tick.
BaseFits ==
  /\ amt >= MinQty /\ amt % StepSize = 0
  /\ \E slip \in Slips : (entry + slip) * amt >= MinNotional * weight

\* The exchange takes the base order, and refuses only what lies at the ends of the
\* ladder (enterLong, enterShort, placeGridOrders).
OrdersFit == (filled = 0 => BaseFits) /\ RefusedAtTheEnds

\* The filters of the symbol are fine for the position: the first rung is not
\* rounded back across the entry, a unit is an order, and the tick the base order
\* was sized for was not less than half the price it got.
WellSized ==
  /\ TickSize <= 2 * SafeATR("30m")
  /\ MinQty <= UnitQty
  /\ \A slip \in Slips : 2 * slip <= entry

\* The first rung is at least twice as far from the entry as that tick.
FirstRungClear ==
  \A slip \in Slips : 2 * slip <= entry - RoundToTick(entry - SafeATR("30m"))

\* The price has neither halved nor doubled.
InRange ==
  IF direction = "LONG" THEN entry <= 2 * LastPrice ELSE LastPrice <= 2 * entry

\* What the Fibonacci multiples buy a position the filters are fine for: wherever
\* in the ladder the price turns, it has to come back two thirds of the way to the
\* entry, and one ATR, for the take profit - although the rungs lie at any
\* distances, and are enlarged to reach MinNotional, and the base order was sized
\* for another price.
WithinReach ==
  WellSized =>
    LET span == IF direction = "LONG" THEN entry - LastPrice ELSE LastPrice - entry
        back == IF direction = "LONG" THEN TPPrice - LastPrice ELSE LastPrice - TPPrice
    IN  6 * back <= 4 * span + 6 * TPATR + 3 * TickSize

\* As long as the price has neither halved nor doubled, and the filters are fine
\* and the first rung clear of the tick, the rung reported with a safety fill errs
\* to one side only: it never runs ahead of a long ladder; of a short one it is
\* never behind, and one ahead at most (getFilledSafetyCount takes the unit at the
\* average price, which is not the price the ladder was sized at).
CountErrsOneWay ==
  WellSized /\ FirstRungClear /\ InRange =>
    IF direction = "LONG" THEN FilledSafetyCount <= Max({1, filled})
                          ELSE FilledSafetyCount \in {Max({1, filled}), filled + 1}
===============================================================================
