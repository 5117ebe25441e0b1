SPECIFICATION Spec
CONSTANTS
    Requests = {1, 2}
    Tokens = {1}
    Passwords = {1, 2}
    Headers = {1}
    CACHE_TTL_S = 1
    NEGATIVE_TTL_S = 1
    MISCONFIGURED_RECHECK_S = 1
    AdminBound = 1
    Keys = {1, 2, 3}
    Writers = {1, 2}
    VersionBound = 2
    Boots = {1, 2}
    Newest = 2
    DEFAULT_ATTEMPTS = 2
    MaxRows = 2
    DbEvents = {"no space", "restart", "crash", "locked", "backup", "upload", "disconnect"}
    FewDbEvents = 3
    Recordings = {1}
    INTERVAL = 1
    DEBOUNCE = 1
    SETTLING_SCAN_LIMIT = 1
    IDLE_QUEUE_LIMIT = 2
    IDLE_BATCH_SIZE = 1
    MaxFiles = 1
    SchedEvents = {"manual", "scan fails", "share away", "retention fails", "cleanup fails", "processed"}
    FewSchedEvents = 2
    Lines = {"a", "b"}
    Capacity = 2
    Batch = 1
    MaxKeys = 1
    MaxSeen = 4
    SinkEvents = {"locked", "slow", "stop"}
    FewSinkEvents = 2
    Viewers = {1, 2}
    Clips = {1, 2}
    Cuts = {1}
    LIMIT = 1
    PlayEvents = {"ffmpeg fails", "cleared"}
    FewPlayEvents = 1
    Tasks = {1, 2}
    Kinds = {"probe", "decode", "detect"}
    ATTEMPTS = 2
    MediaEvents = {"cancelled", "wedged", "probe fails", "replaced"}
    FewMediaEvents = 1
    Threads = {1, 2}
    Models = {1, 2}
    MaxCalls = 4
    GpuEvents = {"unsupported", "context failure", "disk full", "slot unhealthy", "restart", "cleared"}
    FewGpuEvents = 3
INVARIANTS SignInIsCurrent StoredIsKept AcceptedIsRemembered SharedAsAgreed
PROPERTIES NobodyWaitsForever
\* Budgets of events run out and the services then have nothing left to do.
CHECK_DEADLOCK FALSE
