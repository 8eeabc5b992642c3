\* A routine change, and nothing goes wrong.
CONSTANTS
    Handlers = {h1}
    Requests = {r1, r2}
    Destructive = {r1}
    Nothing = Nothing
    SessionTtl = 2
    PendingTtl = 2
    MaxTurns = 1
    MaxAttempts = 2
    Punctual = TRUE
    MaxTime = 3
    MaxMsgs = 4
    MaxFaults = 0
    MaxCrashes = 0
SPECIFICATION Spec
INVARIANT RoutineExecuted
CHECK_DEADLOCK FALSE
