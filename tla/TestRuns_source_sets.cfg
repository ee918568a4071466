SPECIFICATION TestSpec
CONSTANTS
    base = base
    kit = kit
    app = app
    Module = {kit, app}
    Deps <- MCDeps
    CompileDeps <- MCCompileDeps
    Proc = {1}
    Jobs = 1
    Revert = FALSE
    MaxVersion = 2
    MaxBuilds = 3
    SourceSet <- MCSourceSet
    InitialTests <- MCInitialTests
    Requests <- MCRequests
    MaxTestVersion = 2
    MaxOverlapping = 2
    MaxEdits = 0
PROPERTIES
    RunsRequestedSets
CHECK_DEADLOCK FALSE
