SPECIFICATION FairCacheSpec
CONSTANTS
    Client = {"c1", "c2", "c3"}
    MaxTries = 2
    MaxCrashes = 1
    Clearing = TRUE
    MaxEdits = 1
INVARIANTS
    ExclusiveUnlessRaced
    LoadsOwnImport
PROPERTIES
    NeverRegresses AbandonedLockRecovered
CHECK_DEADLOCK FALSE
