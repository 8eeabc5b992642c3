\* One lost reply.
CONSTANTS
    Titles = {"T"}
    Bodies = {"a", "b"}
    NoBody = "-"
    Window = 1
    MaxAttempts = 2
    MaxPosts = 3
    MaxTime = 2
    MaxFaults = 1
SPECIFICATION Spec
PROPERTY UndoneMeansReverted
CHECK_DEADLOCK FALSE
