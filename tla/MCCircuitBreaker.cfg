SPECIFICATION FairSpec
CONSTANTS
    Processes = {p1, p2}
    Threshold = 2
    Cooldown = 2
INVARIANTS
    ClosedBelowThreshold
PROPERTIES
    OpenCircuitEnds
