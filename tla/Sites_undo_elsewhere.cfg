CONSTANTS
    Clients = {a}
    Others = {}
    Urls = {s1, s2}
    Contested = {}
    NoSite = NoSite
    MaxRows = 1
    MaxMishaps = 0
    LateSetup = FALSE
SPECIFICATION SitesSpec
INVARIANT UndoStaysOnSite
CHECK_DEADLOCK FALSE
