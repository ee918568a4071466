SPECIFICATION Spec
CONSTANTS
  root = root
  lib = lib
  NoLock = NoLock
  main = main
  other = other
  Procs = {main, other}
  Commands <- AllAndSync
  Order <- RootAndLib
  Uses <- UsesLib
  MaxEdits = 1
  MaxRuns = 2
INVARIANTS
  CurrentLockIsTruthful
PROPERTIES
  SuccessMeansLocked
  UpdateRestoresEverything
  FailedImportLeavesNothing
CHECK_DEADLOCK FALSE
