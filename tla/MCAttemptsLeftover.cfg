SPECIFICATION Spec
CONSTANTS
    Agents = {a1}
    Tasks = {t1, t2}
    Attempts = {x1, x2}
    NoAttempt = NoAttempt
    MaxCrashes = 0
    Operator = FALSE
PROPERTIES NoStartBesideLeftover
CHECK_DEADLOCK FALSE
