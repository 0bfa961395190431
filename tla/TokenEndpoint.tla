---------------------------- MODULE TokenEndpoint ----------------------------
(***************************************************************************)
(* The OAuth endpoints (auth/routes.py) over OAuthStorage: registration,   *)
(* authorization, and the two grants of the token endpoint, one action per *)
(* await of the handlers, any number of requests interleaved on the event  *)
(* loop.  A call of storage.revoke_chain, which no route makes, is the     *)
(* fifth kind.  Requests whose form or metadata is malformed are answered  *)
(* before the first await and never reach the store; they are left out.    *)
(***************************************************************************)
EXTENDS OAuthStorage

CONSTANTS
    Kinds,      \* the kinds of request that arrive
    MayCrash,   \* whether the process may die and restart
    MayFail     \* whether a statement may raise (disk full, database locked)

ASSUME KindsAssumption ==
    Kinds \subseteq {"register", "authorize", "code", "refresh", "revoke"}
ASSUME FaultsAssumption == MayCrash \in BOOLEAN /\ MayFail \in BOOLEAN

VARIABLES
    req,     \* what each request asks for
    pc,      \* the await each handler is suspended at, or its answer
    row,     \* the record the handler has read
    seen,    \* the `now' the handler has read
    access   \* claims of the access token answered

handlerVars == <<req, pc, row, seen, access>>
vars == <<storageVars, handlerVars>>

Registration  == [kind : {"register"}, uris : (SUBSET Redirect) \ {{}}]
Authorization == [kind : {"authorize"}, client : Client, redirect : Redirect,
                  challenge : Verifier, user : User, scope : SUBSET Scope]
CodeGrant     == [kind : {"code"}, client : Client, cred : Credential,
                  redirect : Redirect, verifier : Verifier]
RefreshGrant  == [kind : {"refresh"}, client : Client, cred : Credential,
                  scope : (SUBSET Scope) \cup {None}]
Revocation    == [kind : {"revoke"}, chain : Req]
Request == Registration \cup Authorization \cup CodeGrant \cup RefreshGrant
             \cup Revocation

Claims == [sub : User, client : Client, scope : SUBSET Scope]

\* Awaits with the lock wanted, and with the lock held.
WaitsForLock == {"code_lock", "refresh_lock"}
InLock == {"code_update", "code_fetch", "code_commit", "rotate_select",
           "reuse_update", "reuse_commit", "rotate_update", "rotate_insert",
           "rotate_commit"}
OutOfLock == {"client_insert", "client_commit", "authorize", "code_insert",
              "code_store", "code", "root_insert", "root_commit", "refresh",
              "refresh_get", "revoke_update", "revoke_commit"}
InFlight == WaitsForLock \cup InLock \cup OutOfLock
\* Answers: success, a refusal, the invalid_grant of a detected reuse, an
\* unhandled exception (HTTP 500), no answer because the process died.
Answers == {"ok", "refused", "reuse", "failed", "lost"}

TypeOK ==
    /\ StorageTypeOK
    /\ req \in [Req -> Request \cup {None}]
    /\ pc \in [Req -> {"new"} \cup InFlight \cup Answers]
    /\ row \in [Req -> CodeRow \cup TokenRow \cup {None}]
    /\ seen \in [Req -> Nat]
    /\ access \in [Req -> Claims \cup {None}]

Init ==
    /\ StorageInit
    /\ req = [r \in Req |-> None]
    /\ pc = [r \in Req |-> "new"]
    /\ row = [r \in Req |-> None]
    /\ seen = [r \in Req |-> 0]
    /\ access = [r \in Req |-> None]

-----------------------------------------------------------------------------
(* Control of one handler.                                                  *)

At(r, here) == pc[r] = here
Goto(r, there) == pc' = [pc EXCEPT ![r] = there]

\* The handler returns: its locals are gone.
Answer(r, a) ==
    /\ Goto(r, a)
    /\ row' = [row EXCEPT ![r] = None]
    /\ seen' = [seen EXCEPT ![r] = 0]

Read(r, value) == row' = [row EXCEPT ![r] = value]

\* Mutant of ReadClock: a second of leeway is taken off.
ReadClockWithLeeway(r) == seen' = [seen EXCEPT ![r] = clock - 1]

ReadClock(r) == seen' = [seen EXCEPT ![r] = clock]

\* Mutant of Release: the lock is not taken with `async with', so an exception
\* leaves it held.
ReleaseUnlessRaised(r) ==
    lock' = IF lock = r /\ pc'[r] # "failed" THEN None ELSE lock

Release(r) == lock' = IF lock = r THEN None ELSE lock

\* conn.commit() and what follows it: `done' when it succeeds, a 500 when
\* another coroutine's writing statement is still open.  Either way an
\* enclosing `async with self._lock' lets go.
CommitThen(r, done) ==
    /\ \/ Commit /\ done
       \/ ~CommitAllowed /\ UNCHANGED <<db, disk, access>> /\ Answer(r, "failed")
    /\ Release(r)
    /\ UNCHANGED <<clock, cursor, req>>

\* Callers know only what they were answered with, or garbage.
Delivered(kinds) == {r \in Req : pc[r] = "ok" /\ req[r].kind \in kinds}
KnownClients == Seeded \cup Delivered({"register"}) \cup Garbage
Presentable(i) ==
    CASE i.kind = "register"  -> TRUE
      [] i.kind = "authorize" -> i.client \in KnownClients
      [] i.kind = "code"      -> /\ i.client \in KnownClients
                                 /\ i.cred \in Delivered({"authorize"}) \cup Garbage
      [] i.kind = "refresh"   -> /\ i.client \in KnownClients
                                 /\ i.cred \in Delivered({"code", "refresh"}) \cup Garbage
      [] i.kind = "revoke"    -> i.chain \in Delivered({"code"})

FirstAwait(i) ==
    CASE i.kind = "register" -> "client_insert"
      [] i.kind = "revoke"   -> "revoke_update"
      [] OTHER               -> i.kind

\* The request reaches its handler with a well-formed form or query.
Arrive(r, i) ==
    /\ At(r, "new")
    /\ i.kind \in Kinds /\ Presentable(i)
    /\ req' = [req EXCEPT ![r] = i]
    /\ Goto(r, FirstAwait(i))
    /\ UNCHANGED <<storageVars, row, seen, access>>

-----------------------------------------------------------------------------
(* POST /oauth/register                                                     *)

RegisterInsert(r) ==
    /\ At(r, "client_insert")
    /\ InsertClient(r, req[r].uris)
    /\ Goto(r, "client_commit")
    /\ UNCHANGED <<clock, disk, lock, cursor, req, row, seen, access>>

RegisterCommit(r) ==
    /\ At(r, "client_commit")
    /\ CommitThen(r, Answer(r, "ok") /\ UNCHANGED access)

-----------------------------------------------------------------------------
(* GET /oauth/authorize                                                     *)

\* get_client, the checks, and the clock read of store_authorization_code.
AuthorizeClient(r) ==
    /\ At(r, "authorize")
    /\ \/ /\ req[r].redirect \in db.clients[req[r].client]
          /\ ReadClock(r) /\ UNCHANGED row
          /\ Goto(r, "code_insert")
       \/ /\ req[r].redirect \notin db.clients[req[r].client]
          /\ Answer(r, "refused")
    /\ UNCHANGED <<storageVars, req, access>>

AuthorizeInsert(r) ==
    /\ At(r, "code_insert")
    /\ InsertCode(r, [client    |-> req[r].client,
                      user      |-> req[r].user,
                      redirect  |-> req[r].redirect,
                      challenge |-> req[r].challenge,
                      scope     |-> req[r].scope,
                      expires   |-> seen[r] + CodeTTL,
                      consumed  |-> FALSE])
    /\ Goto(r, "code_store")
    /\ UNCHANGED <<clock, disk, lock, cursor, req, row, seen, access>>

AuthorizeCommit(r) ==
    /\ At(r, "code_store")
    /\ CommitThen(r, Answer(r, "ok") /\ UNCHANGED access)

-----------------------------------------------------------------------------
(* POST /oauth/token, grant_type=authorization_code                         *)

\* get_client, then consume_authorization_code reads the clock BEFORE it
\* waits for the lock.
CodeClient(r) ==
    /\ At(r, "code")
    /\ \/ /\ db.clients[req[r].client] # {}
          /\ ReadClock(r) /\ UNCHANGED row
          /\ Goto(r, "code_lock")
       \/ /\ db.clients[req[r].client] = {}
          /\ Answer(r, "refused")
    /\ UNCHANGED <<storageVars, req, access>>

\* Mutant of Acquire: the section does not wait for the lock.
EnterUnlocked(r, here, there) ==
    /\ At(r, here)
    /\ lock' = r
    /\ Goto(r, there)
    /\ UNCHANGED <<clock, db, disk, cursor, req, row, seen, access>>

Acquire(r, here, there) ==
    /\ At(r, here)
    /\ lock = None
    /\ lock' = r
    /\ Goto(r, there)
    /\ UNCHANGED <<clock, db, disk, cursor, req, row, seen, access>>

CodeLock(r) == Acquire(r, "code_lock", "code_update")

\* UPDATE authorization_codes ... RETURNING: the statement stays open until
\* its row is fetched (consumed_at of the returned row is not used).
CodeUpdate(r) ==
    /\ At(r, "code_update")
    /\ \/ /\ Consumable(req[r].cred, seen[r])
          /\ UpdateConsumed(req[r].cred)
          /\ Read(r, db.codes[req[r].cred])
          /\ cursor' = r
       \/ /\ ~Consumable(req[r].cred, seen[r])
          /\ UNCHANGED <<db, row, cursor>>
    /\ Goto(r, "code_fetch")
    /\ UNCHANGED <<clock, disk, lock, req, seen, access>>

CodeFetch(r) ==
    /\ At(r, "code_fetch")
    /\ cursor' = IF cursor = r THEN None ELSE cursor
    /\ Goto(r, "code_commit")
    /\ UNCHANGED <<clock, db, disk, lock, req, row, seen, access>>

\* Mutant of RedeemsOwnCode: the PKCE verifier is not compared.
RedeemsAnyVerifier(r) ==
    /\ row[r] # None
    /\ row[r].client = req[r].client
    /\ row[r].redirect = req[r].redirect

\* The checks the handler makes on the consumed record.
RedeemsOwnCode(r) ==
    /\ row[r] # None
    /\ row[r].client = req[r].client
    /\ row[r].redirect = req[r].redirect
    /\ row[r].challenge = req[r].verifier

\* COMMIT, release, checks; store_refresh_token then reads the clock.
CodeCommit(r) ==
    /\ At(r, "code_commit")
    /\ CommitThen(r,
         /\ \/ /\ RedeemsOwnCode(r)
               /\ ReadClock(r) /\ UNCHANGED row
               /\ Goto(r, "root_insert")
            \/ /\ ~RedeemsOwnCode(r)
               /\ Answer(r, "refused")
         /\ UNCHANGED access)

RootInsert(r) ==
    /\ At(r, "root_insert")
    /\ InsertToken(r, [client  |-> req[r].client,
                       user    |-> row[r].user,
                       chain   |-> r,
                       parent  |-> None,
                       scope   |-> row[r].scope,
                       expires |-> seen[r] + RefreshTTL,
                       rotated |-> FALSE,
                       revoked |-> FALSE])
    /\ Goto(r, "root_commit")
    /\ UNCHANGED <<clock, disk, lock, cursor, req, row, seen, access>>

\* _issue_token_pair: the access token is signed, never stored.
Issue(r, scope) ==
    /\ access' = [access EXCEPT ![r] = [sub    |-> row[r].user,
                                        client |-> req[r].client,
                                        scope  |-> scope]]
    /\ Answer(r, "ok")

RootCommit(r) ==
    /\ At(r, "root_commit")
    /\ CommitThen(r, Issue(r, row[r].scope))

-----------------------------------------------------------------------------
(* POST /oauth/token, grant_type=refresh_token                              *)

RefreshClient(r) ==
    /\ At(r, "refresh")
    /\ \/ /\ db.clients[req[r].client] # {}
          /\ Goto(r, "refresh_get") /\ UNCHANGED <<row, seen>>
       \/ /\ db.clients[req[r].client] = {}
          /\ Answer(r, "refused")
    /\ UNCHANGED <<storageVars, req, access>>

\* get_refresh_token and the ownership check; rotate_refresh_token reads the
\* clock BEFORE it waits for the lock.
OwnsToken(r) ==
    /\ db.tokens[req[r].cred] # None
    /\ db.tokens[req[r].cred].client = req[r].client

RefreshGet(r) ==
    /\ At(r, "refresh_get")
    /\ \/ /\ OwnsToken(r)
          /\ Read(r, db.tokens[req[r].cred])
          /\ ReadClock(r)
          /\ Goto(r, "refresh_lock")
       \/ /\ ~OwnsToken(r)
          /\ Answer(r, "refused")
    /\ UNCHANGED <<storageVars, req, access>>

RefreshLock(r) == Acquire(r, "refresh_lock", "rotate_select")

\* Mutant of Rotatable: the liveness columns are those read before the lock.
RotatableAsRead(r) ==
    /\ ~row[r].rotated /\ ~row[r].revoked
    /\ row[r].expires > seen[r]

\* What the SELECT under the lock decides: the row it returns replaces the one
\* read before; of the older one the handler uses only columns no statement
\* ever changes.
Rotatable(r) ==
    /\ LiveIn(db, req[r].cred)
    /\ db.tokens[req[r].cred].expires > seen[r]

\* Mutant of RotateSelect: a reuse is refused, the chain is let be.
RotateSelectLenient(r) ==
    /\ At(r, "rotate_select")
    /\ \/ /\ ~Rotatable(r)
          /\ Answer(r, "reuse")
          /\ Release(r)
       \/ /\ Rotatable(r)
          /\ Read(r, db.tokens[req[r].cred])
          /\ Goto(r, "rotate_update")
          /\ UNCHANGED <<lock, seen>>
    /\ UNCHANGED <<clock, db, disk, cursor, req, access>>

RotateSelect(r) ==
    /\ At(r, "rotate_select")
    /\ \/ /\ db.tokens[req[r].cred] = None
          /\ Answer(r, "reuse")
          /\ Release(r)
       \/ /\ db.tokens[req[r].cred] # None
          /\ Read(r, db.tokens[req[r].cred])
          /\ Goto(r, IF Rotatable(r) THEN "rotate_update" ELSE "reuse_update")
          /\ UNCHANGED <<lock, seen>>
    /\ UNCHANGED <<clock, db, disk, cursor, req, access>>

\* Reuse, revocation or expiry: the whole chain is revoked.
ReuseUpdate(r) ==
    /\ At(r, "reuse_update")
    /\ UpdateRevoked(row[r].chain)
    /\ Goto(r, "reuse_commit")
    /\ UNCHANGED <<clock, disk, lock, cursor, req, row, seen, access>>

ReuseCommit(r) ==
    /\ At(r, "reuse_commit")
    /\ CommitThen(r, Answer(r, "reuse") /\ UNCHANGED access)

RotateUpdate(r) ==
    /\ At(r, "rotate_update")
    /\ UpdateRotated(req[r].cred)
    /\ Goto(r, "rotate_insert")
    /\ UNCHANGED <<clock, disk, lock, cursor, req, row, seen, access>>

RotateInsert(r) ==
    /\ At(r, "rotate_insert")
    /\ InsertToken(r, [client  |-> row[r].client,
                       user    |-> row[r].user,
                       chain   |-> row[r].chain,
                       parent  |-> req[r].cred,
                       scope   |-> row[r].scope,
                       expires |-> seen[r] + RefreshTTL,
                       rotated |-> FALSE,
                       revoked |-> FALSE])
    /\ Goto(r, "rotate_commit")
    /\ UNCHANGED <<clock, disk, lock, cursor, req, row, seen, access>>

\* Only after the rotation is durable is the requested scope looked at.
GrantedScope(r) == IF req[r].scope = None THEN row[r].scope ELSE req[r].scope

RotateCommit(r) ==
    /\ At(r, "rotate_commit")
    /\ CommitThen(r,
         \/ GrantedScope(r) \subseteq row[r].scope /\ Issue(r, GrantedScope(r))
         \/ /\ ~(GrantedScope(r) \subseteq row[r].scope)
            /\ Answer(r, "refused") /\ UNCHANGED access)

-----------------------------------------------------------------------------
(* OAuthStorage.revoke_chain, which takes no lock.                          *)

RevokeUpdate(r) ==
    /\ At(r, "revoke_update")
    /\ UpdateRevoked(req[r].chain)
    /\ Goto(r, "revoke_commit")
    /\ UNCHANGED <<clock, disk, lock, cursor, req, row, seen, access>>

RevokeCommit(r) ==
    /\ At(r, "revoke_commit")
    /\ CommitThen(r, Answer(r, "ok") /\ UNCHANGED access)

-----------------------------------------------------------------------------
(* Faults.                                                                  *)

\* A statement raises: the exception leaves the handler (500) through `async
\* with self._lock'; no rollback undoes what the handler ran before.
StatementFails(r) ==
    /\ MayFail
    /\ pc[r] \in InFlight \ WaitsForLock
    /\ Answer(r, "failed")
    /\ Release(r)
    /\ cursor' = IF cursor = r THEN None ELSE cursor
    /\ UNCHANGED <<clock, db, disk, req, access>>

\* The process dies and restarts: requests in flight get no answer.
Crash ==
    /\ MayCrash
    /\ \E r \in Req : pc[r] \in InFlight
    /\ Reopen
    /\ pc' = [r \in Req |-> IF pc[r] \in InFlight THEN "lost" ELSE pc[r]]
    /\ row' = [r \in Req |-> None]
    /\ seen' = [r \in Req |-> 0]
    /\ UNCHANGED <<clock, req, access>>

TimePasses == Tick /\ UNCHANGED <<db, disk, lock, cursor, handlerVars>>

\* Every request has been answered: nothing is left to do.
Quiescent == \A r \in Req : pc[r] \notin {"new"} \cup InFlight
Finished == Quiescent /\ UNCHANGED vars

Handle(r) ==
    \/ RegisterInsert(r) \/ RegisterCommit(r)
    \/ AuthorizeClient(r) \/ AuthorizeInsert(r) \/ AuthorizeCommit(r)
    \/ CodeClient(r) \/ CodeLock(r) \/ CodeUpdate(r) \/ CodeFetch(r)
    \/ CodeCommit(r) \/ RootInsert(r) \/ RootCommit(r)
    \/ RefreshClient(r) \/ RefreshGet(r) \/ RefreshLock(r) \/ RotateSelect(r)
    \/ ReuseUpdate(r) \/ ReuseCommit(r)
    \/ RotateUpdate(r) \/ RotateInsert(r) \/ RotateCommit(r)
    \/ RevokeUpdate(r) \/ RevokeCommit(r)

Next ==
    \/ \E r \in Req : (\E i \in Request : Arrive(r, i)) \/ Handle(r) \/ StatementFails(r)
    \/ Crash
    \/ TimePasses
    \/ Finished

Spec == Init /\ [][Next]_vars

\* The event loop resumes every ready coroutine and the connection's thread
\* takes statements in order; asyncio.Lock wakes its waiters in turn.  Neither
\* arrivals, faults nor the clock owe anything.
FairSpec == Spec /\ \A r \in Req : WF_vars(Handle(r))
=============================================================================
