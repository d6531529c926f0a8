SPECIFICATION Spec
CONSTANTS
  Requests = {r1, r2, r3}
  Strategies = 2
  TTL = 3
  MaxFill = 2
  MaxTime = 9
SYMMETRY Symmetry
INVARIANTS
  TypeOK
  AnswersAreRecent
  BackAtMostAFill
CHECK_DEADLOCK FALSE
