--------------------------- MODULE TokenInvariants ---------------------------
(***************************************************************************)
(* The strengthening of TypeOK, OneLivePerChain and RevokedChainDead that  *)
(* every step of TokenEndpoint preserves.                                  *)
(***************************************************************************)
EXTENDS TokenProperties

\* Where a handler of each kind can be suspended.
RegisterAwaits  == {"client_insert", "client_commit"}
AuthorizeAwaits == {"authorize", "code_insert", "code_store"}
CodeAwaits      == {"code", "code_lock", "code_update", "code_fetch",
                    "code_commit", "root_insert", "root_commit"}
RefreshAwaits   == {"refresh", "refresh_get", "refresh_lock", "rotate_select",
                    "reuse_update", "reuse_commit", "rotate_update",
                    "rotate_insert", "rotate_commit"}
RevokeAwaits    == {"revoke_update", "revoke_commit"}

\* A handler suspended at an await of its kind holds the request of that kind
\* and the record it has read.
Suspended ==
    \A r \in Req :
        /\ pc[r] \in RegisterAwaits  => req[r] \in Registration
        /\ pc[r] \in AuthorizeAwaits => req[r] \in Authorization
        /\ pc[r] \in CodeAwaits      => req[r] \in CodeGrant
        /\ pc[r] \in RefreshAwaits   => req[r] \in RefreshGrant
        /\ pc[r] \in RevokeAwaits    => req[r] \in Revocation /\ "revoke" \in Kinds
        /\ pc[r] \in {"new", "code", "code_lock", "code_update"} => row[r] = None
        /\ pc[r] \in {"code_fetch", "code_commit"} => row[r] \in CodeRow \cup {None}
        /\ pc[r] \in {"root_insert", "root_commit"} => row[r] \in CodeRow
        /\ pc[r] \in {"reuse_update", "reuse_commit", "rotate_update",
                      "rotate_insert", "rotate_commit"} => row[r] \in TokenRow

\* The lock is held exactly by the handler inside a locked section, and the
\* open statement belongs to the handler fetching from it.
LockInv ==
    /\ \A r \in Req : pc[r] \in InLock <=> lock = r
    /\ \A r \in Req : cursor = r => pc[r] = "code_fetch"

\* A token has a row only once the request it is named after inserted it, and
\* a chain has a member only if it has its root.
Settled == {"root_commit", "rotate_commit"} \cup Answers
Minted(d) ==
    \A t \in Credential : d.tokens[t] # None =>
        /\ t \in Req => pc[t] \in Settled
        /\ d.tokens[d.tokens[t].chain] # None

\* OneLivePerChain and RevokedChainDead, of one image of the tables.
OneLive(d) ==
    \A t, u \in Credential :
        LiveIn(d, t) /\ LiveIn(d, u) /\ d.tokens[t].chain = d.tokens[u].chain
            => t = u

RevokedDead(d) ==
    \A t, u \in Credential :
        d.tokens[t] # None /\ d.tokens[t].revoked /\ LiveIn(d, u)
            => d.tokens[t].chain # d.tokens[u].chain

\* What a rotation in progress knows: until its UPDATE the presented token is
\* the only one that may be live, and between UPDATE and INSERT none is.
Rotating ==
    \A r \in Req :
        /\ pc[r] = "rotate_update" =>
             /\ InChain(db, row[r].chain, req[r].cred)
             /\ \A u \in Credential :
                  LiveIn(db, u) /\ db.tokens[u].chain = row[r].chain => u = req[r].cred
        /\ pc[r] = "rotate_insert" =>
             /\ InChain(db, row[r].chain, req[r].cred)
             /\ \A u \in Credential :
                  LiveIn(db, u) => db.tokens[u].chain # row[r].chain

\* What it knows besides when nobody calls revoke_chain.
RotatingUnrevoked ==
    \A r \in Req :
        pc[r] \in {"rotate_update", "rotate_insert"} =>
            \A u \in Credential :
                InChain(db, row[r].chain, u) => ~db.tokens[u].revoked

ControlInv == TypeOK /\ Suspended /\ LockInv

TableInv ==
    /\ Minted(db) /\ Minted(disk)
    /\ OneLive(db) /\ OneLive(disk)
    /\ Rotating

ForkInv == ControlInv /\ TableInv

RevokeInv == RevokedDead(db) /\ RevokedDead(disk) /\ RotatingUnrevoked

-----------------------------------------------------------------------------
(* What the tables owe to the requests, and the file to the tables.         *)

\* A record of user, client and scope is what the request `approval' approved.
AsApproved(x, approval) ==
    /\ approval \in Req /\ pc[approval] # "new" /\ req[approval] \in Authorization
    /\ x.user = req[approval].user
    /\ x.client = req[approval].client
    /\ x.scope = req[approval].scope

\* A code has the row its approval gave it, the flag apart.
CodeRows(d) ==
    \A c \in Credential : d.codes[c] # None =>
        /\ pc[c] \in {"code_store"} \cup Answers
        /\ AsApproved(d.codes[c], c)
        /\ d.codes[c].challenge = req[c].challenge

\* A chain is rooted in a code grant that had the verifier of its approval.
Granted(x, root) ==
    /\ root \in Req /\ pc[root] # "new" /\ req[root] \in CodeGrant
    /\ AsApproved(x, req[root].cred)
    /\ req[root].verifier = req[req[root].cred].challenge

TokenRows(d) ==
    \A t \in Credential : d.tokens[t] # None =>
        t \in Req /\ Granted(d.tokens[t], d.tokens[t].chain)

\* What a handler has read is still what the tables say, the flags apart.
SameGrant(x, y) ==
    x.chain = y.chain /\ x.user = y.user /\ x.client = y.client /\ x.scope = y.scope

HasRead(r) ==
    /\ pc[r] \in {"code_fetch", "code_commit", "root_insert", "root_commit"}
          /\ row[r] # None =>
         /\ AsApproved(row[r], req[r].cred)
         /\ row[r].challenge = req[req[r].cred].challenge
    /\ pc[r] \in {"root_insert", "root_commit"} => RedeemsOwnCode(r)
    /\ pc[r] \in RefreshAwaits \ {"refresh", "refresh_get"} => OwnsToken(r)
    /\ pc[r] \in {"reuse_update", "reuse_commit", "rotate_update",
                  "rotate_insert", "rotate_commit"} =>
         SameGrant(row[r], db.tokens[req[r].cred])
    /\ pc[r] = "rotate_commit" =>
         db.tokens[r] # None /\ SameGrant(db.tokens[r], row[r])
    /\ pc[r] = "root_commit" =>
         /\ db.tokens[r] # None
         /\ db.tokens[r].chain = r
         /\ db.tokens[r].user = row[r].user
         /\ db.tokens[r].client = row[r].client
         /\ db.tokens[r].scope = row[r].scope

ReadRows == \A r \in Req : HasRead(r)

\* The claims of an access token are those of the refresh token it came with.
Claimed ==
    \A r \in Req : access[r] # None =>
        /\ disk.tokens[r] # None
        /\ access[r].sub = disk.tokens[r].user
        /\ access[r].client = disk.tokens[r].client
        /\ access[r].scope \subseteq disk.tokens[r].scope

\* Statements add rows and set flags.
Keeps(d, e) ==
    /\ \A t \in Credential : d.tokens[t] # None =>
         /\ e.tokens[t] # None /\ SameGrant(d.tokens[t], e.tokens[t])
         /\ d.tokens[t].rotated => e.tokens[t].rotated
         /\ d.tokens[t].revoked => e.tokens[t].revoked
    /\ \A c \in Credential : d.codes[c] # None =>
         e.codes[c] # None /\ (d.codes[c].consumed => e.codes[c].consumed)

ProvenanceInv ==
    /\ CodeRows(db) /\ CodeRows(disk) /\ TokenRows(db) /\ TokenRows(disk)
    /\ ReadRows /\ Claimed /\ Keeps(disk, db)

-----------------------------------------------------------------------------
(* What was handed out, and what it cost.                                   *)

\* A credential answered is in the tables and in the file; one about to be is
\* in the tables.
Stored(d, r) ==
    CASE req[r].kind = "register"  -> d.clients[r] = req[r].uris
      [] req[r].kind = "authorize" -> d.codes[r] # None
      [] req[r].kind \in {"code", "refresh"} -> d.tokens[r] # None
      [] OTHER -> TRUE

StoredInv ==
    \A r \in Req :
        /\ pc[r] = "ok" => Stored(db, r) /\ Stored(disk, r)
        /\ pc[r] \in {"client_commit", "code_store", "root_commit", "rotate_commit"}
             => Stored(db, r)

\* Requests that have spent the credential they presented, and will be answered
\* with what it buys unless something fails.
SpentCode(r) ==
    \/ pc[r] \in {"code_fetch", "code_commit"} /\ row[r] # None
    \/ pc[r] \in {"root_insert", "root_commit"}
    \/ pc[r] = "ok" /\ req[r].kind = "code"
SpentToken(r) ==
    \/ pc[r] \in {"rotate_insert", "rotate_commit"}
    \/ pc[r] = "ok" /\ req[r].kind = "refresh"

SpentInv ==
    /\ \A r, s \in Req :
         /\ (SpentCode(r) /\ SpentCode(s)) \/ (SpentToken(r) /\ SpentToken(s))
         /\ req[r].cred = req[s].cred
         => r = s
    /\ \A r \in Req :
         /\ pc[r] = "ok" => req[r] \in Request
         /\ SpentCode(r) => db.codes[req[r].cred] # None /\ db.codes[req[r].cred].consumed
         /\ SpentToken(r) => db.tokens[req[r].cred] # None /\ db.tokens[req[r].cred].rotated
         /\ pc[r] = "ok" /\ req[r].kind = "code" =>
              disk.codes[req[r].cred] # None /\ disk.codes[req[r].cred].consumed
         /\ pc[r] = "ok" /\ req[r].kind = "refresh" =>
              disk.tokens[req[r].cred] # None /\ disk.tokens[req[r].cred].rotated
         /\ pc[r] = "rotate_update" => ~db.tokens[req[r].cred].rotated

-----------------------------------------------------------------------------
(* What a reuse costs.                                                      *)

NoneLive(d, ch) == \A t \in Credential : LiveIn(d, t) => d.tokens[t].chain # ch

\* A chain of which a reuse was answered is dead in the tables and the file, and
\* nobody is about to insert into it.
ReuseInv ==
    \A r \in Req :
        /\ pc[r] = "reuse_commit" => NoneLive(db, row[r].chain)
        /\ pc[r] = "reuse" =>
             LET ch == db.tokens[req[r].cred].chain IN
             /\ req[r] \in RefreshGrant /\ disk.tokens[req[r].cred] # None
             /\ NoneLive(db, ch) /\ NoneLive(disk, ch)
             /\ \A s \in Req : pc[s] \in {"rotate_update", "rotate_insert"} =>
                  row[s].chain # ch

-----------------------------------------------------------------------------
(* How far the file may be behind the tables, chain by chain.               *)

\* In the tables, and not yet in the file.
Fresh(t) == db.tokens[t] # None /\ disk.tokens[t] = None

\* A chain has no more than one token not in the file; nobody was handed it, so
\* it is not rotated, and it is not in a chain that the file says was revoked.
\* Revoked tokens are in chains the file knows.
LagInv ==
    /\ \A r \in Req : pc[r] \in RefreshAwaits =>
         req[r].cred \in Garbage \/ disk.tokens[req[r].cred] # None
    /\ \A t \in Credential : Fresh(t) =>
         /\ ~db.tokens[t].rotated
         /\ \A u \in Credential : Fresh(u) /\ db.tokens[u].chain = db.tokens[t].chain => u = t
         /\ \A u \in Credential : InChain(disk, db.tokens[t].chain, u) => ~disk.tokens[u].revoked
    /\ \A t \in Credential : db.tokens[t] # None /\ db.tokens[t].revoked =>
         \E u \in Credential : InChain(disk, db.tokens[t].chain, u)

GrantInv == ProvenanceInv /\ StoredInv /\ SpentInv /\ ReuseInv
=============================================================================
