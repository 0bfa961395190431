\* Concurrent requests without any fault.
SPECIFICATION Spec
CONSTANTS
    Req = {q1, q2, q3}
    Seeded = {app}
    Garbage = {}
    Redirect = {home}
    Verifier = {v}
    User = {ann}
    Scope = {}
    None = None
    CodeTTL = 1
    RefreshTTL = 1
    MaxTime = 0
    Kinds = {"authorize", "code", "refresh"}
    MayCrash = FALSE
    MayFail = FALSE
SYMMETRY Requests
INVARIANT NoServerError
