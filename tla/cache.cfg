SPECIFICATION Spec
CONSTANTS
    r1 = r1
    r2 = r2
    Reader = {r1, r2}
    Nobody = Nobody
    Key = {"all", "one"}
    Row = {"a"}
    Value = {0, 1, 2}
    Old = {"a"}
    Member <- MCMember
    Delta <- MCDelta
    Ttl = 1
    MaxEntries = 2
    MaxBytes = 3
    Knowledge = 2
    MaxReads = 3
    MaxTime = 1
    MaxChanges = 1
    MaxWrites = 1
    MaxResets = 1
    MaxRotations = 1
    MaxFaults = 1
    MaxEvents = 6
INVARIANTS
    AnswersAreFresh
    CacheIsTrue
    WithinLimits
    NobodyIsStranded
SYMMETRY Readers
CHECK_DEADLOCK FALSE
