SPECIFICATION FairTestSpec
CONSTANTS
    base = base
    kit = kit
    app = app
    Module = {base, kit, app}
    Deps <- MCDeps
    CompileDeps <- MCCompileDeps
    Proc = {1, 2}
    Jobs = 1
    Revert = FALSE
    MaxVersion = 2
    MaxBuilds = 3
    SourceSet <- MCSourceSet
    InitialTests <- MCInitialTests
    Requests <- MCRequests
    MaxTestVersion = 2
    MaxOverlapping = 2
    MaxEdits = 1
PROPERTIES
    TestsAreFresh
    CommandsEnd
CHECK_DEADLOCK FALSE
