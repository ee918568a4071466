SPECIFICATION Spec
CONSTANTS
  Latest = 2
  Proc = {1, 2}
  MaxCommands = 5
  MaxMishaps = 3
INVARIANTS ListedAreWhole
PROPERTIES RemovalIsExact ImplementsStore
CHECK_DEADLOCK FALSE
