SPECIFICATION Spec
CONSTANTS
  N = 2
  HedgeEnabled = TRUE
  QueueCap = 1
  MaxFills = 2
  MaxFaults = 2
INVARIANTS
  TypeOK
  NoGap
  CancelReachesAll
PROPERTIES
  FillsAreTold
  ComesUp
