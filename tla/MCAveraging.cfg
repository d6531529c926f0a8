SPECIFICATION AveragingSpec
CONSTANTS
  MaxSafetyOrders = 10
  MinNotional = 6000
  MinQty = 6
  TickSize = 5
  StepSize = 3
  Entries = {1000, 2000, 5000}
  Weights = {1, 2, 3}
  ATRs = {0, 143}
  Slips = {0, 5}
CHECK_DEADLOCK FALSE
INVARIANTS
  OrdersFit
  NotOversized
  AwayFromEntry
  NeverAtALoss
  WithinReach
  CountErrsOneWay
