------------------------------ MODULE MCEventBus ------------------------------
(* EventBus for TLC: two handlers of ticks, one filtered, and one of orders.  *)
EXTENDS EventBus, TLC

CONSTANTS tickA, tickAny, order, symA, symB

MCHandlers == {tickA, tickAny, order}
MCTypes == {"TICK", "ORDER_UPDATE"}
MCTypeOf == tickA :> "TICK" @@ tickAny :> "TICK" @@ order :> "ORDER_UPDATE"
MCFilterOf == tickA :> symA @@ tickAny :> "*" @@ order :> "*"
===============================================================================
