SPECIFICATION FairSpec
CONSTANTS
    t1 = t1
    t2 = t2
    Demands = {d1}
    Targets <- MCTargets
    Files <- MCFiles
    Operators = {o1, o2}
    Controllers = {c1}
    Overlap = FALSE
    MaxCommands = 3
    MaxVersion = 4
    MaxAttempts = 2
    MaxCrashes = 1
    None = None
INVARIANTS
    HandledStopIsQuiet
    DemandTargetsHaveProfiles
PROPERTIES
    StopIsCarriedOut
CHECK_DEADLOCK FALSE
