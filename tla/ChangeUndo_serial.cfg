\* Creates, updates, deletes and their undos, with failures and a lost reply.
CONSTANTS
    Titles = {"T"}
    Bodies = {"a", "b"}
    NoBody = "-"
    Window = 1
    MaxAttempts = 2
    MaxPosts = 3
    MaxTime = 2
    MaxFaults = 2
SPECIFICATION Spec
INVARIANTS
    TypeOK
    LogDescribesSite
PROPERTIES
    UndoRestores
    TruthfulUndo
    PromiseKeptForPosts
CHECK_DEADLOCK FALSE
