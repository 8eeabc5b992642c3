\* One message at a time; two destructive changes and a routine one; the
\* network loses messages, writes fail, the container restarts once.
CONSTANTS
    Handlers = {h1}
    Requests = {r1, r2, r3}
    Destructive = {r1, r2}
    Nothing = Nothing
    SessionTtl = 2
    PendingTtl = 2
    MaxTurns = 1
    MaxAttempts = 2
    Punctual = TRUE
    MaxTime = 3
    MaxMsgs = 4
    MaxFaults = 2
    MaxCrashes = 1
SPECIFICATION FairSpec
INVARIANTS
    TypeOK
    PromptMatchesStaged
    TruthfulSuccess
PROPERTIES
    ConsentedWrites
    CancelIsFinal
    AppliedOnce
    EveryMessageAnswered
CHECK_DEADLOCK FALSE
