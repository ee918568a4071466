SPECIFICATION Spec
CONSTANTS
    base = base
    app = app
    None = None
    Unit = {base, app}
    DependsOn <- MCDependsOn
    Shown = {}
    Broken <- MCBroken
    Server = {s1, s2}
    Mishap = {"edit", "delete", "clear", "kill", "wait", "jvm", "io"}
    MaxMishaps = 2
    MaxRuns = 3
INVARIANTS
    FreshReuse
    RunsProcessEverything
SYMMETRY MCSymmetry
CHECK_DEADLOCK FALSE
