\* Nothing is lost and nothing fails but a refused request.
CONSTANTS
    Titles = {"T"}
    Bodies = {"a", "b"}
    NoBody = "-"
    Window = 1
    MaxAttempts = 2
    MaxPosts = 3
    MaxTime = 2
    MaxFaults = 0
SPECIFICATION Spec
PROPERTY PromiseKept
CHECK_DEADLOCK FALSE
