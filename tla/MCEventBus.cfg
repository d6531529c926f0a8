SPECIFICATION Spec
CONSTANTS
  tickA = tickA
  tickAny = tickAny
  order = order
  symA = symA
  symB = symB
  Handlers <- MCHandlers
  Types <- MCTypes
  Symbols = {symA, symB}
  Tick = "TICK"
  AnySymbol = "*"
  TypeOf <- MCTypeOf
  FilterOf <- MCFilterOf
  Slow = {tickAny}
  QueueCap = 2
  MaxEvents = 3
INVARIANTS
  TypeOK
  NothingLost
  ExactlyOnce
PROPERTIES
  ImplementsDelivery
  AcceptedIsProcessed
  StopEnds
