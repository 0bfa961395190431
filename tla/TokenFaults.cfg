\* One client and one user: crashes, failing statements, retries, reuse.
SPECIFICATION Spec
CONSTANTS
    Req = {q1, q2, q3, q4, q5}
    Seeded = {app}
    Garbage = {}
    Redirect = {home}
    Verifier = {v}
    User = {ann}
    Scope = {}
    None = None
    CodeTTL = 1
    RefreshTTL = 1
    MaxTime = 1
    Kinds = {"authorize", "code", "refresh"}
    MayCrash = TRUE
    MayFail = TRUE
SYMMETRY Requests
INVARIANTS
    TypeOK
    RevokedChainDead
    ExchangedOnce
    HandedOutDurable
    ReuseKillsChain
PROPERTY ChainsFollowLifecycle
