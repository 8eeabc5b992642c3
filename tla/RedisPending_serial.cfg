\* Two owners, two concurrent requests, one at a time per owner.
CONSTANTS
    Owners = {o1, o2}
    Changes = {c1, c2, c3}
    NoChange = NoChange
    Handlers = {h1, h2}
    Ttl = 2
    Grace = 1
    MaxTime = 4
    OneAtATime = TRUE
SPECIFICATION Spec
INVARIANTS
    TypeOK
    ReleasedAtMostOnce
    OneOutcome
    ExpiryDistinguishable
PROPERTIES
    NoStaleRelease
    NoSilentLoss
    GateSpec
SYMMETRY Symmetric
CHECK_DEADLOCK FALSE
