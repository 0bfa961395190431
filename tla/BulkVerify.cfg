SPECIFICATION BulkFairSpec
CONSTANTS
    None = None
    Call = {c1, c2, c3}
    Citation <- WithInvalid
    Service = {"crossref"}
    Key <- Keys
    TTLMatch = 1
    TTLNoMatch = 0
    MaxVersion = 1
    MaxTime = 0
    MayRaise = TRUE
    MayFail = FALSE
    MayCancel = TRUE
    MayCrash = TRUE
    b1 = b1
    c1 = c1
    c2 = c2
    c3 = c3
    Bulk = {b1}
    Slots <- TwoSlots
    Concurrency = 1
    MaxCitations = 2
CHECK_DEADLOCK FALSE
INVARIANTS
    InInputOrder
    UndisturbedRefreshSticks
PROPERTIES
    BatchEnds
    Answered
