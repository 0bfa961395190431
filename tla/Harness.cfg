\* Two invocations of any commands, from an empty directory or a provisioned one.
SPECIFICATION MCSpec
CONSTANTS
    None = None
    Hosts = {"citation-mcp"}
    Origins = {"claude.ai"}
    McpPaths = {"/mcp"}
    OwnRoutes = {}
    Issuer = "citation-mcp"
    Host = "citation-mcp"
    p1 = p1
    p2 = p2
    Proc = {p1, p2}
    Command = {"register", "auth", "refresh", "token", "status", "validate"}
    Chain = {c1, c2}
    Token = {t1, t2, t3}
    ClientId = {i1, i2}
    AccessTTL = 2
    Skew = 1
    Timeout = 1
    MaxTime = 2
    MaxRekeys = 1
CHECK_DEADLOCK FALSE

INVARIANTS
    TypeOK
    NeverTorn
    KeepsItsGrant
    RetryIsNoRepeat
PROPERTIES
    HandsOutValid
    ZeroMeansGate
    NotSentToAuthInVain
    ServerKeepsLifecycle
    EveryRunEnds
