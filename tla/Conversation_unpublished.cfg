\* Destructive changes only, one lost message or one failure, no restart.
CONSTANTS
    Handlers = {h1}
    Requests = {r1, r2}
    Destructive = {r1, r2}
    Nothing = Nothing
    SessionTtl = 2
    PendingTtl = 2
    MaxTurns = 1
    MaxAttempts = 2
    Punctual = TRUE
    MaxTime = 3
    MaxMsgs = 4
    MaxFaults = 1
    MaxCrashes = 0
SPECIFICATION Spec
INVARIANT FailedMeansUnwritten
CHECK_DEADLOCK FALSE
