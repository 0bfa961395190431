SPECIFICATION Spec
CONSTANTS
    None = None
    Call = {c1, c2}
    Citation <- Mixed
    Service = {"crossref", "arxiv"}
    Key <- Keys
    TTLMatch = 2
    TTLNoMatch = 1
    MaxVersion = 1
    MaxTime = 2
    MayRaise = TRUE
    MayFail = TRUE
    MayCancel = TRUE
    MayCrash = TRUE
SYMMETRY Calls
CHECK_DEADLOCK FALSE
INVARIANTS
    KeyedAnswer
    WithinTTL
    ForcedFresh
    VerifyInv
