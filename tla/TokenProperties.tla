--------------------------- MODULE TokenProperties ---------------------------
(***************************************************************************)
(* What the OAuth endpoints promise.                                       *)
(***************************************************************************)
EXTENDS TokenEndpoint

\* At no moment, in what statements see or in what a restart would find, do
\* two tokens of one chain remain acceptable: rotate_refresh_token, however
\* it interleaves with other requests, failures and restarts, never forks a
\* chain.
OneLivePerChain ==
    \A t, u \in Req : \A d \in {db, disk} :
        LiveIn(d, t) /\ LiveIn(d, u) /\ d.tokens[t].chain = d.tokens[u].chain
            => t = u

\* A chain of which any token was revoked has no acceptable token: a reuse
\* detected by one request can not be survived through a rotation that
\* another had under way (models.py:43-44, "the entire chain must be revoked
\* atomically").
RevokedChainDead ==
    \A t, u \in Req : \A d \in {db, disk} :
        /\ d.tokens[t] # None /\ d.tokens[t].revoked
        /\ LiveIn(d, u)
        => d.tokens[t].chain # d.tokens[u].chain

\* A code is answered with tokens once, a refresh token with a successor
\* once, whatever the retries, failures and restarts.
ExchangedOnce ==
    \A r, s \in Req :
        /\ pc[r] = "ok" /\ pc[s] = "ok"
        /\ req[r].kind \in {"code", "refresh"} /\ req[s].kind = req[r].kind
        /\ req[r].cred = req[s].cred
        => r = s

\* A credential in an answer is in the committed tables: no restart makes
\* the server forget a code, a client or a token it handed out.
HandedOutDurable ==
    \A r \in Req : pc[r] = "ok" =>
        CASE req[r].kind = "register"  -> disk.clients[r] = req[r].uris
          [] req[r].kind = "authorize" -> disk.codes[r] # None
          [] req[r].kind \in {"code", "refresh"} -> disk.tokens[r] # None
          [] OTHER -> TRUE

\* Once a client was told that its token was reused, every token of that
\* chain is refused, even after a restart.
ReuseKillsChain ==
    \A r \in Req : pc[r] = "reuse" =>
        \A t \in Req : LiveIn(disk, t) =>
            disk.tokens[t].chain # disk.tokens[req[r].cred].chain

\* The claims of every access token lead back, over the chain of its refresh
\* token, to one approval at /oauth/authorize: same user, same client, no
\* wider scope, and a code redeemed with the verifier of that approval.
AccessWithinGrant ==
    \A r \in Req : access[r] # None =>
        LET root == disk.tokens[r].chain
            approval == req[root].cred
        IN  /\ access[r].sub = req[approval].user
            /\ access[r].client = req[approval].client
            /\ access[r].scope \subseteq req[approval].scope
            /\ req[root].verifier = req[approval].challenge

\* storage.py:350 calls rotation atomic: when no request is in progress, each
\* rotated token has its successor in the file.
AtomicRotation ==
    Quiescent => \A t \in Req :
        disk.tokens[t] # None /\ disk.tokens[t].rotated /\ ~disk.tokens[t].revoked
            => \E u \in Req : disk.tokens[u] # None /\ disk.tokens[u].parent = t

\* storage.py:7-10 calls the lock around consume and rotate sufficient for
\* one process: with no fault injected, no handler ends in an exception.
NoServerError == \A r \in Req : pc[r] # "failed"

\* No request that arrives is in flight for ever: it is answered, or lost with
\* the process, also when statements raise inside the locked sections.
Answered == \A r \in Req : []<>(pc[r] \notin InFlight)

-----------------------------------------------------------------------------
(* The chains of the file implement GrantLifecycle.                         *)

Members(d, ch) == {t \in Req : InChain(d, ch, t)}
Spendable(d, ch) == {t \in Members(d, ch) : LiveIn(d, t)}
Revoked(d, ch) == {t \in Members(d, ch) : d.tokens[t].revoked}

\* A chain with several spendable tokens, or with a revoked and a spendable
\* one, is in no phase of the lifecycle.
GrantOf(d, ch) ==
    LET members == Members(d, ch)
        live == Spendable(d, ch)
        revoked == Revoked(d, ch)
    IN  [phase |->
           CASE members = {}                  -> "unborn"
             [] revoked # {} /\ live = {}     -> "dead"
             [] revoked = {} /\ \E t \in live : live = {t} -> "active"
             [] members # {} /\ revoked = {} /\ live = {}  -> "stranded"
             [] OTHER                         -> "forked",
         holder |-> IF \E t \in live : live = {t} THEN CHOOSE t \in live : TRUE
                    ELSE None,
         past |-> members \ live]

Lifecycle == INSTANCE GrantLifecycle WITH
    Chain <- Req, Token <- Req, grant <- [ch \in Req |-> GrantOf(disk, ch)]

\* Every commit, whosever statements it makes durable, and every restart
\* moves each chain by a step of its lifecycle or not at all.
ChainsFollowLifecycle == Lifecycle!Spec
=============================================================================
