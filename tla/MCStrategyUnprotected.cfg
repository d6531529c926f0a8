SPECIFICATION CycleSpec
CONSTANTS
  Threads = {t1, t2}
  NoThread = NoThread
  MaxSafetyOrders = 1
  SafetyUnits <- MCSafetyUnits
  Env = {}
  MaxEntries = 2
  MaxFills = 1
  MaxManual = 0
  MaxCrashes = 0
INVARIANT
  HeldIsProtected
