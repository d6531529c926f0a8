SPECIFICATION CycleSpec
CONSTANTS
  Threads = {t1, t2}
  NoThread = NoThread
  MaxSafetyOrders = 2
  SafetyUnits <- MCSafetyUnits
  Env = {}
  MaxEntries = 2
  MaxFills = 2
  MaxManual = 1
  MaxCrashes = 1
SYMMETRY Symmetry
CONSTRAINT OnlyClean
INVARIANTS
  ExitIsKnown
  OffersFit
  RestIsCovered
  LadderIsWhole
  CleanClose
  NothingRests
