SPECIFICATION FairSpec
CONSTANTS
    schema = schema
    client = client
    None = None
    Generator = {schema, client}
    DependsOn <- MCDependsOn
    Proc = {p1, p2}
    Revert = FALSE
    MaxVersion = 2
    MaxRuns = 3
INVARIANTS
    RecordTruthful
    DependencyHonoured
    FailurePreservesOutput
PROPERTIES
    RunsEnd
CHECK_DEADLOCK FALSE
