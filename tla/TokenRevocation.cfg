\* revoke_chain beside requests, failing statements, restarts, a fair event loop.
SPECIFICATION FairSpec
CONSTANTS
    Req = {q1, q2, q3, q4}
    Seeded = {app}
    Garbage = {}
    Redirect = {home}
    Verifier = {v}
    User = {ann}
    Scope = {}
    None = None
    CodeTTL = 1
    RefreshTTL = 1
    MaxTime = 0
    Kinds = {"authorize", "code", "refresh", "revoke", "register"}
    MayCrash = TRUE
    MayFail = TRUE
INVARIANTS OneLivePerChain ForkInv
PROPERTY Answered
