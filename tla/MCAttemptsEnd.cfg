SPECIFICATION FairSpec
CONSTANTS
    Agents = {a1, a2}
    Tasks = {t1}
    Attempts = {x1}
    NoAttempt = NoAttempt
    MaxCrashes = 1
    Operator = TRUE
INVARIANTS
    SuccessIsFromCompletedAttempt
    SurvivingWorkerBlocks
PROPERTIES
    AbandonedAttemptIsClosed
    EndedAttemptStaysEnded
    RevocationStopsChild
CHECK_DEADLOCK FALSE
