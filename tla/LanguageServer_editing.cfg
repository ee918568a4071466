SPECIFICATION FairSpec
CONSTANTS
  r1 = r1  r2 = r2  u1 = u1  u2 = u2
  Roots = {r1}
  Uris = {u1}
  RootOf <- OneRoot
  Texts = {t1, t2}
  Models = {plain, modular}
  Modular = {modular}
  Broken = Broken
  None = None
  Kinds <- AllKinds
  Modes = {"automatic", "manual"}
  JmanRoots = {r1}
  MaxMessages = 3
  MaxMishaps = 2
INVARIANTS AnalysesMatchSource UnchangedIsTruthful OneModel SyncedMeansCurrent
PROPERTIES FailedSyncPreserves IndexedEventually
CHECK_DEADLOCK FALSE
