\* A discard that never arrives, then a routine change; no restart.
CONSTANTS
    Handlers = {h1}
    Requests = {r1, r2}
    Destructive = {r1}
    Nothing = Nothing
    SessionTtl = 2
    PendingTtl = 2
    MaxTurns = 1
    MaxAttempts = 2
    Punctual = TRUE
    MaxTime = 3
    MaxMsgs = 4
    MaxFaults = 2
    MaxCrashes = 0
SPECIFICATION Spec
PROPERTY NoMeansNo
CHECK_DEADLOCK FALSE
