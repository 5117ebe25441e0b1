SPECIFICATION UnitSpec
CONSTANTS
    EVIDENCE_TTL_S = 2
    DEVICE_HEARTBEAT_TTL_S = 3
    RESTORE_RESERVE_S = 1
    HEARTBEAT_REFRESH_TIMEOUT_S = 1
    Duration = 4
    MaxTime = 1
    MaxSwitch = 2
    MaxStart = 2
    MaxFault = 1
    MAX_HOLD = 5
    CLOCK_SKEW = 1
    RENEWAL_WRITE_MARGIN_S = 2
    MINIMUM = 1
    TIMEOUT = 2
    COMMAND = 1
    MaxRequests = 2
    MaxRenew = 1
    LoggerFaults = {"rm fails", "rm unanswered", "server crash", "export fails", "ignition", "boot"}
    FewFaults = 1
    Ring = 2
    MAX_SERVER_EVENTS = 3
    EVENT_STORE_ATTEMPTS = 2
    LastSequence = 4
    MaxMirrors = 3
    MirrorEvents = {"unreadable", "locked", "crash", "a month", "deadline"}
    Reports <- MCReports
    Remote <- MCRemote
    Cards = {1, 2}
    MAX_AGE = 1
    MaxInspections = 2
    ReportEvents = {"report", "card", "unreadable", "timeout", "disk full", "restart"}
    FewEvents = 2
    OwnLevels = {"-", "D"}
    Policies = {"E", "absent"}
    Legacy = TRUE
    Shells = {1, 2}
    MaxLine = 1
    MaxVisit = 2
    UnitEvents = {"cut", "foreign", "unread", "locked", "no answer", "reboot", "policy", "restart"}
    FewUnitEvents = 1
    Windows = {2, 4}
    Resting = 4
    TTL = 1
    READ_TIMEOUT = 1
    EVIDENCE_TTL = 1
    LOGGER_AGE = 1
    MIN_REMAINING = 1
    Horizon = 3
    PowerEvents = {"on again", "rewrite", "reboot", "read fails"}
    FewPowerEvents = 2
INVARIANTS TimeIsNotOverdrawn RecordsAreTrue
PROPERTIES NothingHeldForever
\* Budgets of events run out and the services then have nothing left to do.
CHECK_DEADLOCK FALSE
