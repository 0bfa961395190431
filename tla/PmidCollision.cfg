SPECIFICATION Spec
CONSTANTS
    None = None
    Call = {c1, c2}
    Citation <- ByPmid
    Service = {"crossref", "pubmed"}
    Key <- Keys
    TTLMatch = 1
    TTLNoMatch = 1
    MaxVersion = 0
    MaxTime = 0
    MayRaise = FALSE
    MayFail = FALSE
    MayCancel = FALSE
    MayCrash = FALSE
CHECK_DEADLOCK FALSE
INVARIANTS
    AnswersWhatWasAsked
