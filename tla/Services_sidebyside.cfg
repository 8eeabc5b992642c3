CONSTANTS
    o1 = o1
    m1 = m1
    m2 = m2
    Owners = {o1}
    Tenants = {o1}
    Messages = {m1, m2}
    Sender <- MCSender
    Batches <- MCBatches
    Updates = {u1}
    Requests = {r1, r2}
    Nobody = Nobody
    MaxMessages = 1
    WindowHours = 1
    MaxRequests = 1
    WindowSeconds = 1
    MaxAttempts = 2
    MaxClock = 1
    Limit = 2
    Window = 2
    Ticks = 5
    MaxExtras = 1
    MaxFaults = 1
    Clients = {a}
    Others = {b}
    Urls = {s1, s2}
    Contested = {s2}
    NoSite = NoSite
    MaxRows = 1
    MaxMishaps = 1
    LateSetup = FALSE
SPECIFICATION MCSpec
INVARIANTS
    TypeOK
    AtMostOnce
    ChargedOnce
    AnsweredMeansSettled
    DegradedMeansLastFailed
    AlertPerOutage
    SlidingWindowBound
    FixedWindowBurst
    BucketCounts
    SitesTypeOK
    OnlyConnectedSites
    SubmittedComplete
    OneMarkedSite
    ToldSiteWritten
    ReadingTypeOK
    ChainDiscipline
    GatesAgree
    NothingUnasked
PROPERTIES
    FateSpec
    DoorAnswersEveryBatch
CHECK_DEADLOCK FALSE
