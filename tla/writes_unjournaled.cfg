SPECIFICATION UndoSpec
CONSTANTS
    Session = {}
    OpId = {}
    Limit = 1
    MaxEntries = 0
    MaxFaults = 0
    Row = {1, 2}
    Field = {"approved", "payee"}
    Call = {"approve"}
    Approved = "approved"
    Value <- MCValue
    Start <- MCStart
    Kind <- MCKind
    Req <- MCReq
    Together <- MCTogether
    MaxEdits = 0
    MaxWriteFaults = 1
INVARIANTS
    WritesAreJournaled
CHECK_DEADLOCK FALSE
