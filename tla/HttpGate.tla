------------------------------ MODULE HttpGate ------------------------------
(***************************************************************************)
(* What a request meets on its way to the tools (http_app.py): three       *)
(* middlewares in a fixed order, the application's own routes, and the     *)
(* bearer check of the mounted MCP application (auth/verifier.py).  The    *)
(* gate keeps no state: its answer depends on the request, the signing key *)
(* of the running server and the time.                                     *)
(*                                                                         *)
(* A request is a record of the headers that are looked at.  Hosts come    *)
(* without their port and in lower case, content types without parameters. *)
(***************************************************************************)
EXTENDS Integers

CONSTANTS
    None,
    Hosts,       \* MCP_HOST_ALLOWLIST
    Origins,     \* MCP_ORIGIN_ALLOWLIST
    McpPaths,    \* the paths that start with /mcp
    OwnRoutes,   \* /healthz, the two discovery documents and /oauth/*
    Issuer       \* OAUTH_ISSUER, the default of OAUTH_AUDIENCE

\* HTTP status codes are named by number; 200 stands for any handled request.
Ok == 200

\* What _issue_token_pair signs; tokens carry fresh random ids.
AccessToken(id, key, exp) ==
    [id |-> id, key |-> key, issuer |-> Issuer, audience |-> Issuer, exp |-> exp]

Misdirected(q) == q.host \notin Hosts

\* Both /mcp middlewares look at POSTs only.
McpPost(q) == q.path \in McpPaths /\ q.method = "POST"

\* An absent Origin is let through: native clients do not send one.
CrossSite(q) == McpPost(q) /\ q.origin # None /\ q.origin \notin Origins

NotJson(q) == McpPost(q) /\ q.type # "application/json"

\* verify_access_token: signature, iss, aud; a token expires in the second
\* of its exp.
Decodes(a, key, now) ==
    /\ a.key = key
    /\ a.issuer = Issuer /\ a.audience = Issuer
    /\ a.exp > now

\* verify_token: any failure to decode is answered None, a 401.
Verified(a, key, now) == a # None /\ Decodes(a, key, now)

\* The status of the answer; the mounted application serves /mcp alone.
Answer(q, key, now) ==
    CASE Misdirected(q)                     -> 421
      [] ~Misdirected(q) /\ CrossSite(q)    -> 403
      [] ~Misdirected(q) /\ ~CrossSite(q) /\ NotJson(q) -> 415
      [] OTHER ->
            IF q.path \in OwnRoutes THEN Ok
            ELSE IF q.path # "/mcp" THEN 404
            ELSE IF Verified(q.bearer, key, now) THEN Ok ELSE 401
=============================================================================
