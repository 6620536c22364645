SPECIFICATION FairSpec
CONSTANTS
    r1 = r1
    r2 = r2
    ta = ta
    o1 = o1
    p1 = p1
    src = src
    dst = dst
    Runner = {r1, r2}
    Tenant = {ta}
    TenantOf <- OneTenant
    OpId = {o1}
    PlanId = {p1}
    Plan <- MovePlan
    Target = {src, dst}
    Main = {0, 1, 2}
    Rest = {"memo"}
    Start <- MoveStart
    MaxCalls = 3
    MaxEdits = 1
    MaxFaults = 2
INVARIANTS
    IntentBeforeWrite
    OneRequestPerIntent
    OutcomeIsTrue
PROPERTIES
    KeepsPromise
    RecoveryConverges
CHECK_DEADLOCK FALSE
