SPECIFICATION Spec
CONSTANTS
    MaxAttempts = 3
    RetryDelay = 1
    Cooldown = 10
    MaxReopens = 1
INVARIANTS
    RefusedTaskIsRetriedAfterCooldown
CHECK_DEADLOCK FALSE
