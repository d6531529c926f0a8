SPECIFICATION Spec
CONSTANTS
  Threads = {t1, t2}
  NoThread = NoThread
  MaxSafetyOrders = 1
  SafetyUnits <- MCSafetyUnits
  Env = {}
  MaxEntries = 1
  MaxFills = 2
  MaxManual = 0
  MaxCrashes = 0
INVARIANT
  NeverFlips
