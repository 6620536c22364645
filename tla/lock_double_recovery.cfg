SPECIFICATION Spec
CONSTANTS
    p1 = p1
    p2 = p2
    p3 = p3
    Proc = {p1, p2, p3}
    MaxAttempts = 3
    MaxUpdates = 1
    MaxCrashes = 1
    CrashAt = {"read", "write", "release"}
PROPERTIES
    RecoversOnlyAbandoned
CHECK_DEADLOCK FALSE
