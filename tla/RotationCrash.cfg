\* A crash in the middle of a rotation.
SPECIFICATION Spec
CONSTANTS
    Req = {q1, q2, q3, q4}
    Seeded = {app}
    Garbage = {}
    Redirect = {home}
    Verifier = {v}
    User = {ann}
    Scope = {}
    None = None
    CodeTTL = 1
    RefreshTTL = 1
    MaxTime = 0
    Kinds = {"authorize", "code", "refresh"}
    MayCrash = TRUE
    MayFail = FALSE
SYMMETRY Requests
INVARIANT AtomicRotation
