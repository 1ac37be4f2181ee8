SPECIFICATION HistorySpec
CONSTANTS
    Convs = {c1, c2, c3}
    Workers = {w1, w2}
    NoConv = NoConv
    NoRow = NoRow
    NoWorker = NoWorker
    MaxCalls = 2
SYMMETRY Symmetry
INVARIANTS
    ApprovedIsGranted
    CompletedHasOwnerConversation
    OwnerConversationIsBriefed
    LockOrder
    AloneOpenHandOverIsClosed
PROPERTIES
    ImplementsLedger
    AloneRoutesActOnWhatTheyRead
