SPECIFICATION UndoSpec
CONSTANTS
    s1 = s1
    s2 = s2
    Session = {s1, s2}
    OpId = {"o1"}
    Limit = 2
    MaxEntries = 4
    MaxFaults = 2
    Row = {1, 2, 3, 4}
    Field = {"approved", "payee"}
    Call = {"approve", "assign", "create", "delete"}
    Approved = "approved"
    Value <- MCValue
    Start <- MCStart
    Kind <- MCKind
    Req <- MCReq
    Together <- MCTogether
    MaxEdits = 1
    MaxWriteFaults = 1
INVARIANTS
    UndoneAtMostOnce
    UndoRestores
    ReportIsTrue
PROPERTIES
    UnfinishedIsKept
    EditsSurvive
SYMMETRY Symmetry
CHECK_DEADLOCK FALSE
