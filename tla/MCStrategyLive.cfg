SPECIFICATION Spec
CONSTANTS
  Threads = {t1, t2}
  NoThread = NoThread
  MaxSafetyOrders = 1
  SafetyUnits <- MCSafetyUnits
  Env = {"GetPosition", "PlaceOrder", "LostResponse", "CancelOrder"}
  MaxEntries = 1
  MaxFills = 1
  MaxManual = 0
  MaxCrashes = 1
PROPERTIES
  PlacingEnds
  Settles
