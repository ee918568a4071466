SPECIFICATION Spec
CONSTANTS
    base = base
    side = side
    app = app
    Module = {base, side, app}
    Deps <- MCDeps
    CompileDeps <- MCCompileDeps
    Proc = {1}
    Jobs = 2
    Revert = FALSE
    MaxVersion = 2
    MaxBuilds = 3
INVARIANTS
    NoLostPredecessor
    RecordNotAhead
    ResultsNotStale
    NoOpCompilesNothing
PROPERTIES
    SuccessIsFresh
CHECK_DEADLOCK FALSE
