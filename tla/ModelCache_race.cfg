SPECIFICATION CacheSpec
CONSTANTS
    Client = {"c1", "c2", "c3"}
    MaxTries = 2
    MaxCrashes = 1
    Clearing = FALSE
    MaxEdits = 1
INVARIANTS
    MutualExclusion
CHECK_DEADLOCK FALSE
