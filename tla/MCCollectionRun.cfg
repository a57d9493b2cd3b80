SPECIFICATION FairSpec
CONSTANTS
    a = a
    b = b
    c = c
    x = x
    y = y
    Links = {a, b, c}
    Bodies = {x, y}
    BodyOf <- MCBodyOf
    FinalOf <- MCFinalOf
    Indexes = {c}
    ChildrenOf <- MCChildrenOf
    WindowOn = TRUE
    MaxQueries = 1
    MaxHits = 2
    MaxReads = 2
    MaxCalls = 4
    MaxTriages = 2
    MaxPerLink = 2
    BatchSize = 2
    Limit <- MCLimit
    None = None
INVARIANTS
    RunTypeOK
    AdmittedOnlyInWindow
    CompletedRunIsSettled
    StoppedRunIsNotCompleted
    ExtractionCallReserved
    PerLinkCeiling
    CompletedRunIsAudited
PROPERTIES
    StopEndsAdmission
    RunEnds
CHECK_DEADLOCK FALSE
