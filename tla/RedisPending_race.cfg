\* Two requests of one owner at the same time: what the code allows.
CONSTANTS
    Owners = {o1}
    Changes = {c1, c2}
    NoChange = NoChange
    Handlers = {h1, h2}
    Ttl = 2
    Grace = 1
    MaxTime = 3
    OneAtATime = FALSE
SPECIFICATION Spec
INVARIANT ReleasedAtMostOnce
CHECK_DEADLOCK FALSE
