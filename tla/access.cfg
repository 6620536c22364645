SPECIFICATION AccessSpec
CONSTANTS
    Consent = {"b1", "b2"}
    Call = {"t1", "t2", "create", "remove", "delete-all"}
    Life = 2
    Window = 1
    Latency = 1
    Process = {"p1", "p2"}
    Ttl = 2
    OpTime = 1
    MaxTime = 2
    MaxChunks = 3
    MaxRevision = 4
    Request = {"r1", "r2", "w"}
    Reads = {"r1", "r2"}
    Refill = 2
    Burst = 1
    Hour = 4
    MaxRetries = 1
    RetryAfter = {0, 3}
    Patience = 2
    Backoff <- MCBackoff
    Path <- MCPath
    Of <- MCOf
    Settings <- MCSettings
    MaxStart = 3
    Arrivals = {0, 3}
    Timeout = 1
    Lateness = 1
    MaxFaults = 1
INVARIANTS
    HourlyLimit
    AppliedAtMostOnce
    StillAuthorized
    TokenIsRecent
    StorageHolds
PROPERTIES
    TokenIsAlive
    IsAtomic
    CallsEnd
CHECK_DEADLOCK FALSE
