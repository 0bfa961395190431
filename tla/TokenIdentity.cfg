\* Two clients, users and verifiers, with and without a scope.
SPECIFICATION Spec
CONSTANTS
    Req = {q1, q2, q3, q4}
    Seeded = {app, bot}
    Garbage = {}
    Redirect = {home}
    Verifier = {v, w}
    User = {ann, bob}
    Scope = {read}
    None = None
    CodeTTL = 1
    RefreshTTL = 1
    MaxTime = 0
    Kinds = {"authorize", "code", "refresh"}
    MayCrash = FALSE
    MayFail = FALSE
SYMMETRY Names
INVARIANT AccessWithinGrant
