SPECIFICATION FairSpec
CONSTANTS
    s1 = s1
    s2 = s2
    Session = {s1, s2}
    Consent = consent
    Input = {"approve", "remove"}
    State <- MCState
    Start <- MCStart
    View <- MCView
    Requests <- MCRequests
    Apply <- MCApply
    Edited <- MCEdited
    Ttl = 1
    MaxTime = 1
    MaxStored = 2
    MaxRetries = 1
    MaxCalls = 4
    MaxShared = 3
    MaxEdits = 1
    MaxFaults = 2
    MaxTotal = 5
INVARIANTS
    TypeOK
    AsApproved
    ReviewedStateHolds
PROPERTIES
    GrantIsGood
    CallsEnd
CHECK_DEADLOCK FALSE
