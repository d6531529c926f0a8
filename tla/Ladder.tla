-------------------------------- MODULE Ladder --------------------------------
(***************************************************************************)
(* The arithmetic of placeGridOrders (internal/strategy/strategy.go): the  *)
(* loop that walks away from the entry price and sizes one order per rung. *)
(*                                                                         *)
(* Prices and quantities are integers, in units finer than TickSize and    *)
(* StepSize; an ATR is a whole number of price units.  Division is exact,  *)
(* as the epsilon of RoundUpToTickSize intends.                            *)
(***************************************************************************)
EXTENDS Integers, Sequences

CONSTANTS MaxSafetyOrders,
          MinNotional,     \* least value of an order
          MinQty,          \* least quantity of an order
          TickSize,        \* prices are multiples of it
          StepSize,        \* quantities are multiples of it
          Entries,         \* entry prices to try
          Weights,         \* values of capital_weight to try
          ATRs             \* values of the ATR to try; 0 when fetchATR fails

ASSUME LadderAssumption ==
  /\ MaxSafetyOrders \in Nat
  /\ MinNotional \in Nat \ {0}
  /\ TickSize \in Nat \ {0} /\ StepSize \in Nat \ {0}
  /\ MinQty \in Nat /\ MinQty % StepSize = 0  \* both of the filter LOT_SIZE
  /\ Entries \subseteq Nat \ {0} /\ Weights \subseteq Nat \ {0}
  /\ \A e \in Entries : TickSize <= e        \* an average of prices in whole ticks
  /\ ATRs \subseteq Nat

Directions == {"LONG", "SHORT"}
Intervals == {"30m", "1h", "2h", "4h", "6h", "8h", "12h", "1d"}

VARIABLES direction, entry, weight,
          atr,        \* atr[interval], as fetched
          i,          \* the rung the loop is about to place
          level,      \* currentPriceLevel, before rounding
          placed,     \* the orders sent that the exchange takes, rung by rung
          refused     \* the orders sent that it does not take

vars == <<direction, entry, weight, atr, i, level, placed, refused>>

\* A bug, for comparison: one more than the quotient rounded down.
FloorPlusOne(a, b) == a \div b + 1

\* The quotient, rounded up, as math.Ceil does.
CeilDiv(a, b) == -((-a) \div b)

\* A bug, for comparison: to the nearest step.
RoundToStep(num, den) == ((2 * num + den * StepSize) \div (2 * den * StepSize)) * StepSize

\* RoundUpToTickSize of the quantity num / den; ToFixed then only removes the
\* noise of the floats.
RoundUpToStep(num, den) == CeilDiv(num, den * StepSize) * StepSize

\* RoundToTickSize: the nearest tick, halves away from zero, as math.Round.
RoundToTick(price) ==
  IF price >= 0
  THEN ((2 * price + TickSize) \div (2 * TickSize)) * TickSize
  ELSE -(((TickSize - 2 * price) \div (2 * TickSize)) * TickSize)

\* getFibonacci: 1, 2, 3, 5, 8, ...
getFibonacci[n \in Nat] ==
  IF n <= 2 THEN n ELSE getFibonacci[n - 1] + getFibonacci[n - 2]

\* An ATR that could not be fetched is 1% of the entry price.
SafeATR(interval) == IF atr[interval] = 0 THEN entry \div 100 ELSE atr[interval]

\* gridDistances; rungs beyond the table repeat its last entry.
gridDistances ==
  <<SafeATR("30m"), SafeATR("1h"), SafeATR("30m") + SafeATR("1h"), SafeATR("2h"),
    SafeATR("4h"), SafeATR("6h"), SafeATR("8h"), SafeATR("12h"), SafeATR("1d")>>

StepDist(n) == gridDistances[IF n <= Len(gridDistances) THEN n ELSE Len(gridDistances)]

\* The quantity of a market order of one unit.
UnitQty == RoundUpToStep(MinNotional * weight, entry)

\* A bug, for comparison: the adjustment to MinNotional is left out.
UnadjustedQty(n, price) == UnitQty * getFibonacci[n]

\* The quantity of rung n at a price: its multiple of the unit, or what reaches
\* MinNotional.  A price of zero or less asks for an infinite or negative
\* quantity, for which 0 stands.
RungQty(n, price) ==
  LET qty == UnitQty * getFibonacci[n]
  IN  IF price <= 0 THEN 0
      ELSE IF qty * price < MinNotional THEN RoundUpToStep(MinNotional, price) ELSE qty

\* A bug, for comparison: both directions walk down.
DownwardLevel(n) == level - StepDist(n)

\* The price level of rung n: below the one before when long, above when short.
NextLevel(n) ==
  IF direction = "LONG" THEN level - StepDist(n) ELSE level + StepDist(n)

\* The filters of the symbol, PRICE_FILTER, LOT_SIZE and MIN_NOTIONAL.
Takes(o) ==
  /\ o.price > 0 /\ o.price % TickSize = 0
  /\ o.qty >= MinQty /\ o.qty % StepSize = 0
  /\ o.price * o.qty >= MinNotional

-------------------------------------------------------------------------------
Init ==
  /\ direction \in Directions
  /\ entry \in Entries /\ weight \in Weights
  /\ atr \in [Intervals -> ATRs]
  /\ i = 1 /\ level = entry /\ placed = <<>> /\ refused = {}

\* One turn of the loop.  Every rung is sent, whatever became of its price, and a
\* refusal of the exchange is only logged.
Rung ==
  /\ i <= MaxSafetyOrders
  /\ i' = i + 1
  /\ level' = NextLevel(i)
  /\ LET price == RoundToTick(NextLevel(i))
         order == [rung |-> i, price |-> price, qty |-> RungQty(i, price)]
     IN  IF Takes(order)
         THEN placed' = Append(placed, order) /\ refused' = refused
         ELSE refused' = refused \cup {order} /\ placed' = placed
  /\ UNCHANGED <<direction, entry, weight, atr>>

Next == Rung

Spec == Init /\ [][Next]_vars

-------------------------------------------------------------------------------
(* Properties *)

\* The loop visits the rungs in order and records sensible orders.
TypeOK ==
  /\ i \in 1 .. MaxSafetyOrders + 1
  /\ level \in Int
  /\ placed \in Seq([rung : 1 .. MaxSafetyOrders, price : Nat \ {0}, qty : Nat \ {0}])
  /\ refused \subseteq [rung : 1 .. MaxSafetyOrders, price : Int, qty : Nat]
  /\ Len(placed) < i

\* The ladder has no holes: nothing is missing between two rungs that stand.  What
\* the exchange refuses is the end of a ladder that came down to zero or, where the
\* least quantity is more than a unit, its beginning: no order breaks the filters
\* by the way its price and its quantity were rounded or fitted to MinNotional.
RefusedAtTheEnds ==
  \A o \in refused :
    \/ o.price <= 0
    \/ /\ UnitQty * getFibonacci[o.rung] < MinQty
       /\ \A k \in DOMAIN placed : o.rung < placed[k].rung

\* No order is larger than it has to be: with one step less the unit would fall
\* short of the weighted MinNotional, and the order of its multiple of the unit
\* or of MinNotional.
NotOversized ==
  /\ (UnitQty - StepSize) * entry < MinNotional * weight
  /\ \A k \in DOMAIN placed :
       LET less == placed[k].qty - StepSize
       IN  \/ less < UnitQty * getFibonacci[placed[k].rung]
           \/ less * placed[k].price < MinNotional

\* The ladder averages a losing position: no rung of a long one is higher than the
\* one before it, no rung of a short one lower, and none lies on the winning side of
\* the entry price.
AwayFromEntry ==
  \A k \in DOMAIN placed :
    LET before == IF k = 1 THEN RoundToTick(entry) ELSE placed[k - 1].price
    IN  IF direction = "LONG" THEN placed[k].price <= before
                              ELSE placed[k].price >= before
===============================================================================
