SPECIFICATION Spec
CONSTANTS
    None = None
    Call = {c1, c2}
    Query <- Query1
    Service <- Service1
    Value = {"a", "b"}
    Records <- Records1
    Key <- Keys
    TTLResolve = 1
    MaxTime = 1
    MayFail = TRUE
    MayCrash = TRUE
CHECK_DEADLOCK FALSE
INVARIANTS
    TypeOK
    AnsweredAsTold
    NoServiceForgotten
