SPECIFICATION Spec
CONSTANTS
  Threads = {t1, t2}
  NoThread = NoThread
  MaxSafetyOrders = 1
  SafetyUnits <- MCSafetyUnits
  Env = {"GetPosition", "GetOpenOrders", "PlaceOrder", "LostResponse",
         "CancelOrder", "CancelAllOrders", "PartialFill", "NoAveragePrice",
         "Overtaking"}
  MaxEntries = 1
  MaxFills = 1
  MaxManual = 1
  MaxCrashes = 1
SYMMETRY Symmetry
INVARIANTS
  TypeOK
  SectionsExclusive
  PlacingIsTransient
  TPIsExit
  FirstExitFits
