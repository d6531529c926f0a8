SPECIFICATION Spec
CONSTANTS
  Legs = 3
  Longs = {1, 3}
  MaxValue = 3
  RatioN = 2
  RatioD = 1
  ThresholdN = 1
  ThresholdD = 4
  MaxTrades = 3
  MaxFailures = 1
CHECK_DEADLOCK FALSE
INVARIANTS
  TypeOK
  NothingInvented
  VerdictIsExact
PROPERTIES
  PersistentIsAlerted
  StopEnds
