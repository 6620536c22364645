SPECIFICATION FairSpec
CONSTANTS
    p1 = p1
    p2 = p2
    Proc = {p1, p2}
    MaxAttempts = 3
    MaxUpdates = 2
    MaxCrashes = 1
    CrashAt = {"read", "write", "release"}
INVARIANTS
    MutualExclusion
PROPERTIES
    IsAtomic
    AbandonedLockIsRecovered
CHECK_DEADLOCK FALSE
