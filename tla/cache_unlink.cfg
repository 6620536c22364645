SPECIFICATION AccessSpec
CONSTANTS
    Consent = {}
    Call = {}
    Life = 2
    Window = 1
    Latency = 1
    Process = {"p1", "p2", "p3"}
    Ttl = 2
    OpTime = 1
    MaxTime = 0
    MaxChunks = 3
    MaxRevision = 4
    Request = {}
    Reads = {}
    Refill = 2
    Burst = 1
    Hour = 4
    MaxRetries = 1
    RetryAfter = {0, 3}
    Patience = 2
    Backoff <- MCBackoff
    Path <- MCPath
    Of <- MCOf
    Settings <- MCSettings
    MaxStart = 3
    Arrivals = {0, 3}
    Timeout = 1
    Lateness = 1
    MaxFaults = 0
PROPERTIES
    WindowIsKept
CHECK_DEADLOCK FALSE
