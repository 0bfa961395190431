-------------------------- MODULE TokenGrantProofs --------------------------
(***************************************************************************)
(* Proofs of what the endpoints hand out: once, durably, within what was   *)
(* approved, and not after a reuse; and that the chains in the file follow *)
(* their lifecycle.  All on top of ForkInv.                                *)
(***************************************************************************)
EXTENDS TokenEndpointProofs

-----------------------------------------------------------------------------
(* What one step changes.                                                   *)

\* A step of one request.
Work(r) == (\E i \in Request : Arrive(r, i)) \/ Handle(r) \/ StatementFails(r)

Rest == UNCHANGED <<db, disk, handlerVars>>

LEMMA WhoseStep ==
    ASSUME Next
    PROVE  (\E r \in Req : Work(r)) \/ Crash \/ Rest
  BY DEF Next, Work, TimePasses, Finished, Rest, vars, storageVars

\* It leaves the locals and the answers of the others alone.
OneMoving(r) ==
    /\ pc'[r] # pc[r] /\ pc'[r] # "new" /\ pc[r] \notin Answers
    /\ pc[r] \in {"client_commit", "code_store", "root_commit", "rotate_commit",
                  "reuse_commit"} => pc'[r] \in Answers
    /\ req'[r] = req[r] \/ pc[r] = "new"
    /\ \A s \in Req \ {r} :
         pc'[s] = pc[s] /\ row'[s] = row[s] /\ req'[s] = req[s] /\ access'[s] = access[s]

LEMMA OneMoves ==
    ASSUME ForkInv, NEW r \in Req, Work(r)
    PROVE  OneMoving(r)
<1> USE DEF ForkInv, ControlInv, TypeOK, At, Goto, Answer, Read, ReadClock, InFlight, WaitsForLock, InLock, OutOfLock, Answers
<1>1. ASSUME NEW i \in Request, Arrive(r, i) PROVE OneMoving(r)
  <2>1. FirstAwait(i) \in {"client_insert", "authorize", "code", "refresh", "revoke_update"}
    BY DEF FirstAwait, Request, Registration, Authorization, CodeGrant, RefreshGrant, Revocation
  <2> QED
    BY <1>1, <2>1 DEF Arrive, storageVars, OneMoving
<1>2. CASE RegisterInsert(r)
  BY <1>2 DEF RegisterInsert, InsertClient, Database, OneMoving
<1>3. CASE RegisterCommit(r)
  BY <1>3 DEF RegisterCommit, CommitThen, CommitAllowed, Commit, OneMoving
<1>4. CASE AuthorizeClient(r)
  BY <1>4 DEF AuthorizeClient, storageVars, OneMoving
<1>5. CASE AuthorizeInsert(r)
  BY <1>5 DEF AuthorizeInsert, InsertCode, Database, OneMoving
<1>6. CASE AuthorizeCommit(r)
  BY <1>6 DEF AuthorizeCommit, CommitThen, CommitAllowed, Commit, OneMoving
<1>7. CASE CodeClient(r)
  BY <1>7 DEF CodeClient, storageVars, OneMoving
<1>8. CASE CodeLock(r)
  BY <1>8 DEF CodeLock, Acquire, OneMoving
<1>9. CASE CodeUpdate(r)
  BY <1>9 DEF CodeUpdate, UpdateConsumed, Database, OneMoving
<1>10. CASE CodeFetch(r)
  BY <1>10 DEF CodeFetch, OneMoving
<1>11. CASE CodeCommit(r)
  BY <1>11 DEF CodeCommit, CommitThen, CommitAllowed, Commit, OneMoving
<1>12. CASE RootInsert(r)
  BY <1>12 DEF RootInsert, InsertToken, Database, OneMoving
<1>13. CASE RootCommit(r)
  BY <1>13 DEF RootCommit, CommitThen, CommitAllowed, Commit, Issue, OneMoving
<1>14. CASE RefreshClient(r)
  BY <1>14 DEF RefreshClient, storageVars, OneMoving
<1>15. CASE RefreshGet(r)
  BY <1>15 DEF RefreshGet, storageVars, OneMoving
<1>16. CASE RefreshLock(r)
  BY <1>16 DEF RefreshLock, Acquire, OneMoving
<1>17. CASE RotateSelect(r)
  BY <1>17 DEF RotateSelect, OneMoving
<1>18. CASE ReuseUpdate(r)
  BY <1>18 DEF ReuseUpdate, UpdateRevoked, Database, OneMoving
<1>19. CASE ReuseCommit(r)
  BY <1>19 DEF ReuseCommit, CommitThen, CommitAllowed, Commit, OneMoving
<1>20. CASE RotateUpdate(r)
  BY <1>20 DEF RotateUpdate, UpdateRotated, Database, OneMoving
<1>21. CASE RotateInsert(r)
  BY <1>21 DEF RotateInsert, InsertToken, Database, OneMoving
<1>22. CASE RotateCommit(r)
  BY <1>22 DEF RotateCommit, CommitThen, CommitAllowed, Commit, Issue, OneMoving
<1>23. CASE RevokeUpdate(r)
  BY <1>23 DEF RevokeUpdate, UpdateRevoked, Database, OneMoving
<1>24. CASE RevokeCommit(r)
  BY <1>24 DEF RevokeCommit, CommitThen, CommitAllowed, Commit, OneMoving
<1>25. CASE StatementFails(r)
  BY <1>25 DEF StatementFails, OneMoving
<1> QED
  BY <1>1, <1>2, <1>3, <1>4, <1>5, <1>6, <1>7, <1>8, <1>9, <1>10, <1>11, <1>12, <1>13, <1>14, <1>15, <1>16, <1>17, <1>18, <1>19, <1>20, <1>21, <1>22, <1>23, <1>24, <1>25 DEF Work, Handle

\* Where a handler comes from when it gets to an await or to an answer.
Whence(r) ==
    /\ pc'[r] = "client_commit" => RegisterInsert(r)
    /\ pc'[r] = "code_store" => AuthorizeInsert(r)
    /\ pc'[r] = "code_fetch" => CodeUpdate(r)
    /\ pc'[r] = "code_commit" => CodeFetch(r)
    /\ pc'[r] = "root_insert" => CodeCommit(r)
    /\ pc'[r] = "root_commit" => RootInsert(r)
    /\ pc'[r] = "refresh" => \E i \in Request : Arrive(r, i)
    /\ pc'[r] = "refresh_get" => RefreshClient(r)
    /\ pc'[r] = "refresh_lock" => RefreshGet(r)
    /\ pc'[r] = "rotate_select" => RefreshLock(r)
    /\ pc'[r] \in {"reuse_update", "rotate_update"} => RotateSelect(r)
    /\ pc'[r] = "reuse_commit" => ReuseUpdate(r)
    /\ pc'[r] = "rotate_insert" => RotateUpdate(r)
    /\ pc'[r] = "rotate_commit" => RotateInsert(r)
    /\ pc'[r] = "reuse" => RotateSelect(r) \/ ReuseCommit(r)
    /\ pc'[r] = "ok" => \/ RegisterCommit(r) \/ AuthorizeCommit(r) \/ RootCommit(r)
                        \/ RotateCommit(r) \/ RevokeCommit(r)
    /\ access'[r] # access[r] => RootCommit(r) \/ RotateCommit(r)

LEMMA Itinerary ==
    ASSUME ForkInv, NEW r \in Req, Work(r)
    PROVE  Whence(r)
<1> USE DEF ForkInv, ControlInv, TypeOK, At, Goto, Answer, Read, ReadClock, InFlight, WaitsForLock, InLock, OutOfLock, Answers
<1>1. ASSUME NEW i \in Request, Arrive(r, i) PROVE Whence(r)
  <2>1. FirstAwait(i) \in {"client_insert", "authorize", "code", "refresh", "revoke_update"}
    BY DEF FirstAwait, Request, Registration, Authorization, CodeGrant, RefreshGrant, Revocation
  <2> QED
    BY <1>1, <2>1 DEF Arrive, storageVars, Whence
<1>2. CASE RegisterInsert(r)
  BY <1>2 DEF RegisterInsert, InsertClient, Database, Whence
<1>3. CASE RegisterCommit(r)
  BY <1>3 DEF RegisterCommit, CommitThen, CommitAllowed, Commit, Whence
<1>4. CASE AuthorizeClient(r)
  BY <1>4 DEF AuthorizeClient, storageVars, Whence
<1>5. CASE AuthorizeInsert(r)
  BY <1>5 DEF AuthorizeInsert, InsertCode, Database, Whence
<1>6. CASE AuthorizeCommit(r)
  BY <1>6 DEF AuthorizeCommit, CommitThen, CommitAllowed, Commit, Whence
<1>7. CASE CodeClient(r)
  BY <1>7 DEF CodeClient, storageVars, Whence
<1>8. CASE CodeLock(r)
  BY <1>8 DEF CodeLock, Acquire, Whence
<1>9. CASE CodeUpdate(r)
  BY <1>9 DEF CodeUpdate, UpdateConsumed, Database, Whence
<1>10. CASE CodeFetch(r)
  BY <1>10 DEF CodeFetch, Whence
<1>11. CASE CodeCommit(r)
  BY <1>11 DEF CodeCommit, CommitThen, CommitAllowed, Commit, Whence
<1>12. CASE RootInsert(r)
  BY <1>12 DEF RootInsert, InsertToken, Database, Whence
<1>13. CASE RootCommit(r)
  BY <1>13 DEF RootCommit, CommitThen, CommitAllowed, Commit, Issue, Whence
<1>14. CASE RefreshClient(r)
  BY <1>14 DEF RefreshClient, storageVars, Whence
<1>15. CASE RefreshGet(r)
  BY <1>15 DEF RefreshGet, storageVars, Whence
<1>16. CASE RefreshLock(r)
  BY <1>16 DEF RefreshLock, Acquire, Whence
<1>17. CASE RotateSelect(r)
  BY <1>17 DEF RotateSelect, Whence
<1>18. CASE ReuseUpdate(r)
  BY <1>18 DEF ReuseUpdate, UpdateRevoked, Database, Whence
<1>19. CASE ReuseCommit(r)
  BY <1>19 DEF ReuseCommit, CommitThen, CommitAllowed, Commit, Whence
<1>20. CASE RotateUpdate(r)
  BY <1>20 DEF RotateUpdate, UpdateRotated, Database, Whence
<1>21. CASE RotateInsert(r)
  BY <1>21 DEF RotateInsert, InsertToken, Database, Whence
<1>22. CASE RotateCommit(r)
  BY <1>22 DEF RotateCommit, CommitThen, CommitAllowed, Commit, Issue, Whence
<1>23. CASE RevokeUpdate(r)
  BY <1>23 DEF RevokeUpdate, UpdateRevoked, Database, Whence
<1>24. CASE RevokeCommit(r)
  BY <1>24 DEF RevokeCommit, CommitThen, CommitAllowed, Commit, Whence
<1>25. CASE StatementFails(r)
  BY <1>25 DEF StatementFails, Whence
<1> QED
  BY <1>1, <1>2, <1>3, <1>4, <1>5, <1>6, <1>7, <1>8, <1>9, <1>10, <1>11, <1>12, <1>13, <1>14, <1>15, <1>16, <1>17, <1>18, <1>19, <1>20, <1>21, <1>22, <1>23, <1>24, <1>25 DEF Work, Handle

\* Which statements change which tables, and that a commit changes none.
Touches(r) ==
    /\ \/ db'.tokens = db.tokens
       \/ RootInsert(r) \/ RotateUpdate(r) \/ RotateInsert(r) \/ ReuseUpdate(r) \/ RevokeUpdate(r)
    /\ db'.codes = db.codes \/ AuthorizeInsert(r) \/ CodeUpdate(r)
    /\ db'.clients = db.clients \/ RegisterInsert(r)
    /\ disk' = disk \/ (disk' = db /\ db' = db)

LEMMA Tables ==
    ASSUME ForkInv, NEW r \in Req, Work(r)
    PROVE  Touches(r)
<1> USE DEF ForkInv, ControlInv, TypeOK, StorageTypeOK, Answer
<1>1. ASSUME NEW i \in Request, Arrive(r, i) PROVE Touches(r)
  <2>1. FirstAwait(i) \in {"client_insert", "authorize", "code", "refresh", "revoke_update"}
    BY DEF FirstAwait, Request, Registration, Authorization, CodeGrant, RefreshGrant, Revocation
  <2> QED
    BY <1>1, <2>1 DEF Arrive, storageVars, Touches
<1>2. CASE RegisterInsert(r)
  BY <1>2 DEF RegisterInsert, InsertClient, Database, Touches
<1>3. CASE RegisterCommit(r)
  BY <1>3 DEF RegisterCommit, CommitThen, CommitAllowed, Commit, Touches
<1>4. CASE AuthorizeClient(r)
  BY <1>4 DEF AuthorizeClient, storageVars, Touches
<1>5. CASE AuthorizeInsert(r)
  BY <1>5 DEF AuthorizeInsert, InsertCode, Database, Touches
<1>6. CASE AuthorizeCommit(r)
  BY <1>6 DEF AuthorizeCommit, CommitThen, CommitAllowed, Commit, Touches
<1>7. CASE CodeClient(r)
  BY <1>7 DEF CodeClient, storageVars, Touches
<1>8. CASE CodeLock(r)
  BY <1>8 DEF CodeLock, Acquire, Touches
<1>9. CASE CodeUpdate(r)
  BY <1>9 DEF CodeUpdate, UpdateConsumed, Database, Touches
<1>10. CASE CodeFetch(r)
  BY <1>10 DEF CodeFetch, Touches
<1>11. CASE CodeCommit(r)
  BY <1>11 DEF CodeCommit, CommitThen, CommitAllowed, Commit, Touches
<1>12. CASE RootInsert(r)
  BY <1>12 DEF RootInsert, InsertToken, Database, Touches
<1>13. CASE RootCommit(r)
  BY <1>13 DEF RootCommit, CommitThen, CommitAllowed, Commit, Issue, Touches
<1>14. CASE RefreshClient(r)
  BY <1>14 DEF RefreshClient, storageVars, Touches
<1>15. CASE RefreshGet(r)
  BY <1>15 DEF RefreshGet, storageVars, Touches
<1>16. CASE RefreshLock(r)
  BY <1>16 DEF RefreshLock, Acquire, Touches
<1>17. CASE RotateSelect(r)
  BY <1>17 DEF RotateSelect, Touches
<1>18. CASE ReuseUpdate(r)
  BY <1>18 DEF ReuseUpdate, UpdateRevoked, Database, Touches
<1>19. CASE ReuseCommit(r)
  BY <1>19 DEF ReuseCommit, CommitThen, CommitAllowed, Commit, Touches
<1>20. CASE RotateUpdate(r)
  BY <1>20 DEF RotateUpdate, UpdateRotated, Database, Touches
<1>21. CASE RotateInsert(r)
  BY <1>21 DEF RotateInsert, InsertToken, Database, Touches
<1>22. CASE RotateCommit(r)
  BY <1>22 DEF RotateCommit, CommitThen, CommitAllowed, Commit, Issue, Touches
<1>23. CASE RevokeUpdate(r)
  BY <1>23 DEF RevokeUpdate, UpdateRevoked, Database, Touches
<1>24. CASE RevokeCommit(r)
  BY <1>24 DEF RevokeCommit, CommitThen, CommitAllowed, Commit, Touches
<1>25. CASE StatementFails(r)
  BY <1>25 DEF StatementFails, Touches
<1> QED
  BY <1>1, <1>2, <1>3, <1>4, <1>5, <1>6, <1>7, <1>8, <1>9, <1>10, <1>11, <1>12, <1>13, <1>14, <1>15, <1>16, <1>17, <1>18, <1>19, <1>20, <1>21, <1>22, <1>23, <1>24, <1>25 DEF Work, Handle

-----------------------------------------------------------------------------
(* Tables grow.                                                             *)

\* A request is asked once.
LEMMA AskedOnce ==
    ASSUME ForkInv, Next, NEW s \in Req, pc[s] # "new"
    PROVE  pc'[s] # "new" /\ req'[s] = req[s]
<1>1. ASSUME NEW r \in Req, Work(r)
      PROVE  pc'[s] # "new" /\ req'[s] = req[s]
  BY <1>1, OneMoves DEF OneMoving
<1>2. CASE Crash
  BY <1>2 DEF Crash
<1>3. CASE Rest
  BY <1>3 DEF Rest, handlerVars
<1> QED
  BY <1>1, <1>2, <1>3, WhoseStep

\* UPDATE of consumed_at sets that flag of one code.
LEMMA ConsumeEffect ==
    ASSUME db \in Database, NEW c \in Credential, db.codes[c] # None, UpdateConsumed(c)
    PROVE  /\ db'.codes[c] = [db.codes[c] EXCEPT !.consumed = TRUE]
           /\ db'.codes[c] \in CodeRow /\ db.codes[c] \in CodeRow
           /\ \A u \in Credential \ {c} : db'.codes[u] = db.codes[u]
<1>1. db.codes[c] \in CodeRow
  BY DEF Database
<1>2. [db.codes[c] EXCEPT !.consumed = TRUE] \in CodeRow
  BY <1>1 DEF CodeRow
<1> QED
  BY <1>1, <1>2 DEF UpdateConsumed, Database

\* INSERT of a code changes one row.
LEMMA CodeInsertEffect ==
    ASSUME db \in Database, NEW c \in Credential, NEW rw, InsertCode(c, rw)
    PROVE  /\ db'.codes[c] = rw
           /\ \A u \in Credential \ {c} : db'.codes[u] = db.codes[u]
  BY DEF InsertCode, Database

\* A statement on the tokens inserts a row under the fresh name of its request
\* or sets flags.
LEMMA TokensGrow ==
    ASSUME ForkInv, NEW r \in Req, Work(r), NEW t \in Credential, db.tokens[t] # None
    PROVE  /\ db'.tokens[t] # None /\ SameGrant(db.tokens[t], db'.tokens[t])
           /\ db.tokens[t].rotated => db'.tokens[t].rotated
           /\ db.tokens[t].revoked => db'.tokens[t].revoked
<1> USE DEF ForkInv, ControlInv, TypeOK, StorageTypeOK
<1>1. db.tokens[t] \in TokenRow
  BY DEF Database
<1>2. CASE db'.tokens = db.tokens
  BY <1>2 DEF SameGrant
<1>3. CASE RootInsert(r) \/ RotateInsert(r)
  <2>1. pc[r] \in {"root_insert", "rotate_insert"}
    BY <1>3 DEF RootInsert, RotateInsert, At
  <2>2. t # r
    BY <2>1 DEF TableInv, Minted, Settled, Answers, Credential
  <2>3. db'.tokens[t] = db.tokens[t]
    BY <1>3, <2>2 DEF RootInsert, RotateInsert, InsertToken, Database
  <2> QED
    BY <2>3 DEF SameGrant
<1>4. CASE RotateUpdate(r)
  <2>1. req[r].cred \in Credential /\ db.tokens[req[r].cred] # None
    BY <1>4 DEF RotateUpdate, At, Suspended, RefreshAwaits, RefreshGrant, TableInv, Rotating, InChain
  <2>2. CASE t = req[r].cred
    <3>1. db'.tokens[t] = [db.tokens[t] EXCEPT !.rotated = TRUE] /\ db'.tokens[t] \in TokenRow
      BY <1>4, <2>1, <2>2, UpdateRotatedEffect DEF RotateUpdate
    <3> QED
      BY <1>1, <3>1, NoneAssumption DEF SameGrant, TokenRow
  <2>3. CASE t # req[r].cred
    BY ZenonT(30), <1>4, <2>1, <2>3, UpdateRotatedEffect DEF RotateUpdate, SameGrant
  <2> QED
    BY <2>2, <2>3
<1>5. ASSUME NEW ch, UpdateRevoked(ch)
      PROVE  /\ db'.tokens[t] # None /\ SameGrant(db.tokens[t], db'.tokens[t])
             /\ db.tokens[t].rotated => db'.tokens[t].rotated
             /\ db.tokens[t].revoked => db'.tokens[t].revoked
  <2>1. CASE InChain(db, ch, t)
    <3>1. db'.tokens[t] = [db.tokens[t] EXCEPT !.revoked = TRUE] /\ db'.tokens[t] \in TokenRow
      BY <1>5, <2>1, UpdateRevokedEffect
    <3> QED
      BY <1>1, <3>1, NoneAssumption DEF SameGrant, TokenRow
  <2>2. CASE ~InChain(db, ch, t)
    BY <1>5, <2>2, UpdateRevokedEffect DEF SameGrant
  <2> QED
    BY <2>1, <2>2
<1>6. CASE ReuseUpdate(r) \/ RevokeUpdate(r)
  BY <1>5, <1>6 DEF ReuseUpdate, RevokeUpdate
<1> QED
  BY <1>2, <1>3, <1>4, <1>6, Tables DEF Touches

\* A statement on the codes inserts one under a fresh name or consumes one.
LEMMA CodesGrow ==
    ASSUME ForkInv, CodeRows(db), NEW r \in Req, Work(r), NEW c \in Credential, db.codes[c] # None
    PROVE  /\ db'.codes[c] # None
           /\ db'.codes[c] = db.codes[c] \/ db'.codes[c] = [db.codes[c] EXCEPT !.consumed = TRUE]
           /\ db.codes[c].consumed => db'.codes[c].consumed
<1> USE DEF ForkInv, ControlInv, TypeOK, StorageTypeOK
<1>1. CASE db'.codes = db.codes
  BY <1>1
<1>2. CASE AuthorizeInsert(r)
  <2>1. pc[r] = "code_insert"
    BY <1>2 DEF AuthorizeInsert, At
  <2>2. c # r
    BY <2>1 DEF CodeRows, Answers
  <2> QED
    BY <1>2, <2>2 DEF AuthorizeInsert, InsertCode, Database
<1>3. CASE CodeUpdate(r)
  <2>1. req[r].cred \in Credential
    BY <1>3 DEF CodeUpdate, At, Suspended, CodeAwaits, CodeGrant
  <2>2. CASE db' = db
    BY <2>2
  <2>3. CASE UpdateConsumed(req[r].cred) /\ db.codes[req[r].cred] # None
    <3>1. CASE c = req[r].cred
      BY <2>1, <2>3, <3>1, ConsumeEffect, NoneAssumption DEF CodeRow
    <3>2. CASE c # req[r].cred
      BY ZenonT(30), <2>1, <2>3, <3>2, ConsumeEffect
    <3> QED
      BY <3>1, <3>2
  <2> QED
    BY <1>3, <2>2, <2>3 DEF CodeUpdate, Consumable
<1> QED
  BY <1>1, <1>2, <1>3, Tables DEF Touches

\* A row appears in the tokens only under the name of the request that inserts
\* it, live, in its own chain or in that of the token it replaces.
LEMMA TokenBorn ==
    ASSUME ForkInv, NEW r \in Req, Work(r), NEW t \in Credential,
           db.tokens[t] = None, db'.tokens[t] # None
    PROVE  /\ t = r /\ ~db'.tokens[r].rotated /\ ~db'.tokens[r].revoked
           /\ \/ /\ RootInsert(r) /\ pc'[r] = "root_commit"
                 /\ db'.tokens[r].chain = r
                 /\ db'.tokens[r].user = row[r].user
                 /\ db'.tokens[r].client = req[r].client
                 /\ db'.tokens[r].scope = row[r].scope
              \/ /\ RotateInsert(r) /\ pc'[r] = "rotate_commit"
                 /\ SameGrant(db'.tokens[r], row[r])
<1> USE DEF ForkInv, ControlInv, TypeOK, StorageTypeOK
<1>1. CASE db'.tokens = db.tokens
  BY <1>1
<1>2. CASE RootInsert(r)
  BY <1>2 DEF RootInsert, InsertToken, Database, Credential, Goto
<1>3. CASE RotateInsert(r)
  BY <1>3 DEF RotateInsert, InsertToken, Database, Credential, Goto, SameGrant
<1>4. CASE RotateUpdate(r)
  <2>1. req[r].cred \in Credential /\ db.tokens[req[r].cred] # None
    BY <1>4 DEF RotateUpdate, At, Suspended, RefreshAwaits, RefreshGrant, TableInv, Rotating, InChain
  <2> QED
    BY <1>4, <2>1, UpdateRotatedEffect DEF RotateUpdate
<1>5. CASE ReuseUpdate(r) \/ RevokeUpdate(r)
  BY <1>5, UpdateRevokedEffect DEF ReuseUpdate, RevokeUpdate, InChain
<1> QED
  BY <1>1, <1>2, <1>3, <1>4, <1>5, Tables DEF Touches

\* A token is marked rotated by the rotation it was presented to.
LEMMA TokenRotated ==
    ASSUME ForkInv, NEW r \in Req, Work(r), NEW t \in Credential,
           db.tokens[t] # None, ~db.tokens[t].rotated, db'.tokens[t].rotated
    PROVE  RotateUpdate(r) /\ t = req[r].cred
<1> USE DEF ForkInv, ControlInv, TypeOK, StorageTypeOK
<1>1. db.tokens[t] \in TokenRow
  BY DEF Database
<1>2. ~RootInsert(r) /\ ~RotateInsert(r)
  <2>1. CASE RootInsert(r) \/ RotateInsert(r)
    <3>1. t # r
      BY <2>1 DEF RootInsert, RotateInsert, At, TableInv, Minted, Settled, Answers, Credential
    <3> QED
      BY <2>1, <3>1 DEF RootInsert, RotateInsert, InsertToken, Database
  <2> QED
    BY <2>1
<1>3. ~ReuseUpdate(r) /\ ~RevokeUpdate(r)
  BY <1>1, UpdateRevokedEffect DEF ReuseUpdate, RevokeUpdate, TokenRow
<1>4. RotateUpdate(r)
  BY <1>2, <1>3, Tables DEF Touches
<1>5. req[r].cred \in Credential /\ db.tokens[req[r].cred] # None
  BY <1>4 DEF RotateUpdate, At, Suspended, RefreshAwaits, RefreshGrant, TableInv, Rotating, InChain
<1> QED
  BY ZenonT(30), <1>4, <1>5, UpdateRotatedEffect DEF RotateUpdate

\* A code appears only under the name of the approval that inserts it.
LEMMA CodeBorn ==
    ASSUME ForkInv, NEW r \in Req, Work(r), NEW c \in Credential,
           db.codes[c] = None, db'.codes[c] # None
    PROVE  /\ c = r /\ pc'[r] = "code_store" /\ req[r] \in Authorization
           /\ db'.codes[r].user = req[r].user
           /\ db'.codes[r].client = req[r].client
           /\ db'.codes[r].scope = req[r].scope
           /\ db'.codes[r].challenge = req[r].challenge
<1> USE DEF ForkInv, ControlInv, TypeOK, StorageTypeOK
<1>1. CASE db'.codes = db.codes
  BY <1>1
<1>2. CASE AuthorizeInsert(r)
  <2>1. pc[r] = "code_insert" /\ pc'[r] = "code_store" /\ req[r] \in Authorization
    BY <1>2 DEF AuthorizeInsert, At, Goto, Suspended, AuthorizeAwaits
  <2> QED
    BY <1>2, <2>1 DEF AuthorizeInsert, InsertCode, Database, Credential
<1>3. CASE CodeUpdate(r)
  <2>1. req[r].cred \in Credential
    BY <1>3 DEF CodeUpdate, At, Suspended, CodeAwaits, CodeGrant
  <2> QED
    BY ZenonT(30), <1>3, <2>1, ConsumeEffect DEF CodeUpdate, Consumable
<1> QED
  BY <1>1, <1>2, <1>3, Tables DEF Touches

\* The file is behind the tables, by rows and flags only, after a step too.
LEMMA Growing ==
    ASSUME ForkInv, CodeRows(db), Keeps(disk, db), NEW r \in Req, Work(r)
    PROVE  Keeps(db, db') /\ Keeps(disk', db')
<1>1. Keeps(db, db')
  BY TokensGrow, CodesGrow DEF Keeps
<1>2. CASE disk' = disk
  <2> SUFFICES ASSUME disk' = disk PROVE Keeps(disk, db')
    BY <1>1, <1>2
  <2> QED
    BY <1>1, <1>2 DEF Keeps, SameGrant
<1>3. CASE disk' = db
  BY <1>1, <1>3
<1> QED
  BY <1>1, <1>2, <1>3, Tables DEF Touches

\* A restart finds what was committed and no handler in flight.
LEMMA Restarted ==
    ASSUME ForkInv, Crash
    PROVE  /\ db' = disk /\ disk' = disk /\ req' = req /\ access' = access
           /\ \A s \in Req : pc'[s] \in {"new"} \cup Answers
           /\ \A s \in Req : pc'[s] # "lost" => pc'[s] = pc[s]
           /\ \A s \in Req : pc[s] # "new" => pc'[s] # "new"
  BY DEF Crash, Reopen, ForkInv, ControlInv, TypeOK, InFlight, WaitsForLock,
     InLock, OutOfLock, Answers

\* AsApproved and Granted after a step, of a record whatever it is then.
ApprovedAfter(x, approval) ==
    /\ approval \in Req /\ pc'[approval] # "new" /\ req'[approval] \in Authorization
    /\ x.user = req'[approval].user
    /\ x.client = req'[approval].client
    /\ x.scope = req'[approval].scope

GrantedAfter(x, root) ==
    /\ root \in Req /\ pc'[root] # "new" /\ req'[root] \in CodeGrant
    /\ ApprovedAfter(x, req'[root].cred)
    /\ req'[root].verifier = req'[req'[root].cred].challenge

\* Who has approved, or stored a code, has done so for good.
LEMMA StaysApproved ==
    ASSUME ForkInv, Next, NEW x, NEW a, AsApproved(x, a)
    PROVE  ApprovedAfter(x, a)
  BY AskedOnce DEF AsApproved, ApprovedAfter

LEMMA StaysGranted ==
    ASSUME ForkInv, Next, NEW x, NEW y, SameGrant(x, y), NEW ch, Granted(x, ch)
    PROVE  GrantedAfter(y, ch)
<1>1. ch \in Req /\ pc[ch] # "new" /\ req[ch] \in CodeGrant
  BY DEF Granted
<1>2. pc'[ch] # "new" /\ req'[ch] = req[ch]
  BY <1>1, AskedOnce
<1>3. AsApproved(x, req[ch].cred)
  BY DEF Granted
<1>4. req[ch].cred \in Req /\ pc[req[ch].cred] # "new"
  BY <1>3 DEF AsApproved
<1>5. pc'[req[ch].cred] # "new" /\ req'[req[ch].cred] = req[req[ch].cred]
  BY <1>4, AskedOnce
<1>6. req[ch].verifier = req[req[ch].cred].challenge
  BY DEF Granted
<1> QED
  BY <1>1, <1>2, <1>3, <1>5, <1>6 DEF GrantedAfter, ApprovedAfter, AsApproved, SameGrant

LEMMA StaysAnswered ==
    ASSUME ForkInv, Next, NEW s \in Req, pc[s] \in {"code_store"} \cup Answers
    PROVE  pc'[s] \in {"code_store"} \cup Answers
<1>1. ASSUME NEW r \in Req, Work(r)
      PROVE  pc'[s] \in {"code_store"} \cup Answers
  BY <1>1, OneMoves DEF OneMoving
<1>2. CASE Crash
  BY <1>2, AskedOnce, Restarted DEF Answers
<1>3. CASE Rest
  BY <1>3 DEF Rest, handlerVars
<1> QED
  BY <1>1, <1>2, <1>3, WhoseStep

-----------------------------------------------------------------------------
(* Provenance.                                                              *)

LEMMA CodeRowsKept ==
    ASSUME ForkInv, Next, NEW d, CodeRows(d)
    PROVE  \A c \in Credential : d.codes[c] # None =>
        /\ pc'[c] \in {"code_store"} \cup Answers
        /\ ApprovedAfter(d.codes[c], c)
        /\ d.codes[c].challenge = req'[c].challenge
<1> SUFFICES ASSUME NEW c \in Credential, d.codes[c] # None
             PROVE  /\ pc'[c] \in {"code_store"} \cup Answers
                    /\ ApprovedAfter(d.codes[c], c)
                    /\ d.codes[c].challenge = req'[c].challenge
  OBVIOUS
<1>1. /\ pc[c] \in {"code_store"} \cup Answers /\ c \in Req /\ pc[c] # "new"
      /\ AsApproved(d.codes[c], c)
      /\ d.codes[c].challenge = req[c].challenge
  BY DEF CodeRows, AsApproved
<1> QED
  BY <1>1, StaysApproved, StaysAnswered, AskedOnce DEF AsApproved

LEMMA TokenRowsKept ==
    ASSUME ForkInv, Next, NEW d, TokenRows(d)
    PROVE  \A t \in Credential : d.tokens[t] # None =>
             t \in Req /\ GrantedAfter(d.tokens[t], d.tokens[t].chain)
<1> SUFFICES ASSUME NEW t \in Credential, d.tokens[t] # None
             PROVE  t \in Req /\ GrantedAfter(d.tokens[t], d.tokens[t].chain)
  OBVIOUS
<1>1. t \in Req /\ Granted(d.tokens[t], d.tokens[t].chain)
  BY DEF TokenRows
<1> QED
  BY <1>1, StaysGranted DEF SameGrant

LEMMA CodeRowsStep ==
    ASSUME ForkInv, Next, ProvenanceInv, NEW r \in Req, Work(r)
    PROVE  CodeRows(db)' /\ CodeRows(disk)'
<1> USE DEF ProvenanceInv
<1>1. ASSUME NEW c \in Credential, db'.codes[c] # None
      PROVE  /\ pc'[c] \in {"code_store"} \cup Answers
             /\ ApprovedAfter(db'.codes[c], c)
             /\ db'.codes[c].challenge = req'[c].challenge
  <2>1. CASE db.codes[c] = None
    <3>1. /\ c = r /\ pc'[r] = "code_store" /\ req[r] \in Authorization
          /\ db'.codes[r].user = req[r].user
          /\ db'.codes[r].client = req[r].client
          /\ db'.codes[r].scope = req[r].scope
          /\ db'.codes[r].challenge = req[r].challenge
      BY <1>1, <2>1, CodeBorn
    <3>2. pc[r] # "new"
      BY <1>1, <2>1, CodeBorn, Tables
         DEF Touches, AuthorizeInsert, CodeUpdate, At
    <3>3. req'[r] = req[r]
      BY <3>2, AskedOnce
    <3> QED
      BY <3>1, <3>3 DEF ApprovedAfter
  <2>2. CASE db.codes[c] # None
    <3>1. /\ pc'[c] \in {"code_store"} \cup Answers
          /\ ApprovedAfter(db.codes[c], c)
          /\ db.codes[c].challenge = req'[c].challenge
      BY <2>2, CodeRowsKept
    <3>2. db.codes[c] \in CodeRow
      BY <2>2 DEF ForkInv, ControlInv, TypeOK, StorageTypeOK, Database
    <3>3. /\ db'.codes[c].user = db.codes[c].user
          /\ db'.codes[c].client = db.codes[c].client
          /\ db'.codes[c].scope = db.codes[c].scope
          /\ db'.codes[c].challenge = db.codes[c].challenge
      BY <2>2, <3>2, CodesGrow DEF CodeRow
    <3> QED
      BY <3>1, <3>3 DEF ApprovedAfter
  <2> QED
    BY <2>1, <2>2
<1>2. CodeRows(db)'
  BY <1>1 DEF CodeRows, AsApproved, ApprovedAfter
<1>3. ASSUME disk' = disk PROVE CodeRows(disk)'
  <2>1. \A c \in Credential : disk.codes[c] # None =>
          /\ pc'[c] \in {"code_store"} \cup Answers
          /\ ApprovedAfter(disk.codes[c], c)
          /\ disk.codes[c].challenge = req'[c].challenge
    BY CodeRowsKept
  <2> QED
    BY <1>3, <2>1 DEF CodeRows, AsApproved, ApprovedAfter
<1>4. CASE disk' = db /\ db' = db
  BY <1>2, <1>4 DEF CodeRows, AsApproved, ApprovedAfter
<1> QED
  BY <1>2, <1>3, <1>4, Tables DEF Touches

LEMMA TokenRowsStep ==
    ASSUME ForkInv, Next, ProvenanceInv, NEW r \in Req, Work(r)
    PROVE  TokenRows(db)' /\ TokenRows(disk)'
<1> USE DEF ProvenanceInv
<1>1. ASSUME NEW t \in Credential, db'.tokens[t] # None
      PROVE  t \in Req /\ GrantedAfter(db'.tokens[t], db'.tokens[t].chain)
  <2>1. CASE db.tokens[t] = None
    <3> DEFINE new == db'.tokens[r]
    <3>1. CASE /\ t = r /\ RootInsert(r) /\ pc'[r] = "root_commit"
               /\ new.chain = r
               /\ new.user = row[r].user
               /\ new.client = req[r].client
               /\ new.scope = row[r].scope
      <4>1. pc[r] = "root_insert" /\ row[r] # None
        BY <3>1 DEF RootInsert, At, ReadRows, HasRead, RedeemsOwnCode
      <4>2. /\ req[r] \in CodeGrant
            /\ AsApproved(row[r], req[r].cred)
            /\ row[r].challenge = req[req[r].cred].challenge
            /\ row[r].client = req[r].client
            /\ row[r].challenge = req[r].verifier
        BY <4>1 DEF ReadRows, HasRead, RedeemsOwnCode, ForkInv, ControlInv, Suspended, CodeAwaits
      <4>3. Granted(row[r], r)
        BY <4>1, <4>2 DEF Granted
      <4>4. Granted(new, r)
        BY <3>1, <4>2, <4>3 DEF Granted, AsApproved
      <4>5. GrantedAfter(new, r)
        BY <4>4, StaysGranted DEF SameGrant
      <4> QED
        BY <3>1, <4>5
    <3>2. CASE t = r /\ RotateInsert(r) /\ SameGrant(new, row[r])
      <4>1. /\ req[r].cred \in Credential /\ db.tokens[req[r].cred] # None
            /\ SameGrant(row[r], db.tokens[req[r].cred])
        BY <3>2 DEF RotateInsert, At, ReadRows, HasRead, ForkInv, ControlInv, Suspended,
           RefreshAwaits, RefreshGrant, OwnsToken
      <4>2. SameGrant(db.tokens[req[r].cred], new)
        BY <3>2, <4>1 DEF SameGrant
      <4>3. Granted(db.tokens[req[r].cred], db.tokens[req[r].cred].chain)
        BY <4>1 DEF TokenRows
      <4>4. GrantedAfter(new, db.tokens[req[r].cred].chain)
        BY <4>2, <4>3, StaysGranted
      <4> QED
        BY <3>2, <4>2, <4>4 DEF SameGrant
    <3> QED
      BY <1>1, <2>1, <3>1, <3>2, TokenBorn
  <2>2. CASE db.tokens[t] # None
    <3>1. t \in Req /\ Granted(db.tokens[t], db.tokens[t].chain)
      BY <2>2 DEF TokenRows
    <3>2. SameGrant(db.tokens[t], db'.tokens[t])
      BY <2>2, TokensGrow
    <3>3. GrantedAfter(db'.tokens[t], db.tokens[t].chain)
      BY <3>1, <3>2, StaysGranted
    <3> QED
      BY <3>1, <3>2, <3>3 DEF SameGrant
  <2> QED
    BY <2>1, <2>2
<1>2. TokenRows(db)'
  BY <1>1 DEF TokenRows, Granted, GrantedAfter, AsApproved, ApprovedAfter
<1>3. ASSUME disk' = disk PROVE TokenRows(disk)'
  <2>1. \A t \in Credential : disk.tokens[t] # None =>
          t \in Req /\ GrantedAfter(disk.tokens[t], disk.tokens[t].chain)
    BY TokenRowsKept
  <2> QED
    BY <1>3, <2>1 DEF TokenRows, Granted, GrantedAfter, AsApproved, ApprovedAfter
<1>4. CASE disk' = db /\ db' = db
  BY <1>2, <1>4 DEF TokenRows, Granted, GrantedAfter, AsApproved, ApprovedAfter
<1> QED
  BY <1>2, <1>3, <1>4, Tables DEF Touches

\* What the two INSERTs write.
LEMMA RootInsertRow ==
    ASSUME ForkInv, NEW r \in Req, RootInsert(r)
    PROVE  /\ db'.tokens[r] # None
           /\ db'.tokens[r].chain = r
           /\ db'.tokens[r].user = row[r].user
           /\ db'.tokens[r].client = req[r].client
           /\ db'.tokens[r].scope = row[r].scope
<1> DEFINE rw == [client  |-> req[r].client,
                  user    |-> row[r].user,
                  chain   |-> r,
                  parent  |-> None,
                  scope   |-> row[r].scope,
                  expires |-> seen[r] + RefreshTTL,
                  rotated |-> FALSE,
                  revoked |-> FALSE]
<1>1. rw \in TokenRow
  BY TTLAssumption DEF RootInsert, CodeGrant, CodeRow, TokenRow, ForkInv, ControlInv,
     TypeOK, StorageTypeOK, Suspended, At, CodeAwaits, Credential
<1>2. db'.tokens[r] = rw
  BY <1>1, InsertTokenEffect
     DEF RootInsert, ForkInv, ControlInv, TypeOK, StorageTypeOK, Credential
<1>3. rw # None
  BY <1>1, NoneAssumption
<1> QED
  BY <1>2, <1>3

LEMMA RotateInsertRow ==
    ASSUME ForkInv, NEW r \in Req, RotateInsert(r)
    PROVE  db'.tokens[r] # None /\ SameGrant(db'.tokens[r], row[r])
<1> DEFINE rw == [client  |-> row[r].client,
                  user    |-> row[r].user,
                  chain   |-> row[r].chain,
                  parent  |-> req[r].cred,
                  scope   |-> row[r].scope,
                  expires |-> seen[r] + RefreshTTL,
                  rotated |-> FALSE,
                  revoked |-> FALSE]
<1>1. rw \in TokenRow
  BY TTLAssumption DEF RotateInsert, RefreshGrant, TokenRow, ForkInv, ControlInv,
     TypeOK, StorageTypeOK, Suspended, At, RefreshAwaits
<1>2. db'.tokens[r] = rw
  BY <1>1, InsertTokenEffect
     DEF RotateInsert, ForkInv, ControlInv, TypeOK, StorageTypeOK, Credential
<1>3. rw # None
  BY <1>1, NoneAssumption
<1> QED
  BY <1>2, <1>3 DEF SameGrant

\* What the others have read still holds of the tables.
LEMMA OthersHaveRead ==
    ASSUME ForkInv, Next, ProvenanceInv, NEW r \in Req, Work(r),
           NEW s \in Req, s # r
    PROVE  HasRead(s)'
<1> USE DEF ProvenanceInv
<1>1. HasRead(s)
  BY DEF ReadRows
<1>2. pc'[s] = pc[s] /\ row'[s] = row[s] /\ req'[s] = req[s]
  BY OneMoves DEF OneMoving
<1>3. ASSUME pc[s] \in {"code_fetch", "code_commit", "root_insert", "root_commit"},
             row[s] # None
      PROVE  /\ ApprovedAfter(row[s], req[s].cred)
             /\ row[s].challenge = req'[req[s].cred].challenge
  <2>1. AsApproved(row[s], req[s].cred) /\ row[s].challenge = req[req[s].cred].challenge
    BY <1>1, <1>3 DEF HasRead
  <2>2. ApprovedAfter(row[s], req[s].cred)
    BY <2>1, StaysApproved
  <2>3. req'[req[s].cred] = req[req[s].cred]
    BY <2>1, AskedOnce DEF AsApproved
  <2> QED
    BY <2>1, <2>2, <2>3
<1>4. ASSUME pc[s] \in {"root_insert", "root_commit"}
      PROVE  RedeemsOwnCode(s)'
  BY <1>1, <1>2, <1>4 DEF HasRead, RedeemsOwnCode
<1>5. ASSUME pc[s] \in RefreshAwaits \ {"refresh", "refresh_get"}
      PROVE  /\ OwnsToken(s) /\ OwnsToken(s)'
             /\ SameGrant(db.tokens[req[s].cred], db'.tokens[req[s].cred])
  <2>1. OwnsToken(s)
    BY <1>1, <1>5 DEF HasRead
  <2>2. req[s].cred \in Credential
    BY <1>5 DEF ForkInv, ControlInv, Suspended, RefreshGrant
  <2>3. /\ db'.tokens[req[s].cred] # None
        /\ SameGrant(db.tokens[req[s].cred], db'.tokens[req[s].cred])
    BY <2>1, <2>2, TokensGrow DEF OwnsToken
  <2> QED
    BY <1>2, <2>1, <2>3 DEF OwnsToken, SameGrant
<1>6. ASSUME pc[s] \in {"reuse_update", "reuse_commit", "rotate_update",
                         "rotate_insert", "rotate_commit"}
      PROVE  SameGrant(row[s], db'.tokens[req[s].cred])
  BY <1>1, <1>5, <1>6 DEF HasRead, SameGrant, RefreshAwaits
<1>7. ASSUME pc[s] \in {"rotate_commit", "root_commit"}
      PROVE  db'.tokens[s] # None /\ SameGrant(db.tokens[s], db'.tokens[s])
  BY <1>1, <1>7, TokensGrow DEF HasRead, Credential
<1> QED
  BY <1>1, <1>2, <1>3, <1>4, <1>5, <1>6, <1>7
     DEF HasRead, SameGrant, AsApproved, ApprovedAfter

\* What the handler itself has just read is what the tables say.
LEMMA HandlerHasRead ==
    ASSUME ForkInv, Next, ProvenanceInv, NEW r \in Req, Work(r)
    PROVE  HasRead(r)'
<1> USE DEF ProvenanceInv
<1>1. HasRead(r) /\ Whence(r)
  BY Itinerary DEF ReadRows
<1> USE DEF ForkInv, ControlInv, TypeOK, StorageTypeOK
<1>2. ASSUME pc'[r] \in {"code_fetch", "code_commit", "root_insert", "root_commit"},
             row'[r] # None
      PROVE  /\ req'[r] = req[r]
             /\ ApprovedAfter(row'[r], req[r].cred)
             /\ row'[r].challenge = req'[req[r].cred].challenge
  <2>1. req'[r] = req[r] /\ req[r].cred \in Credential
    BY <1>1, <1>2 DEF Whence, CodeUpdate, CodeFetch, CodeCommit, RootInsert,
       CommitThen, At, Suspended, CodeAwaits, CodeGrant
  <2>2. AsApproved(row'[r], req[r].cred) /\ row'[r].challenge = req[req[r].cred].challenge
    <3>1. CASE pc'[r] = "code_fetch"
      <4>1. pc[r] = "code_update" /\ row[r] = None
        BY <1>1, <3>1 DEF Whence, CodeUpdate, At, Suspended
      <4>2. row'[r] = db.codes[req[r].cred]
        BY <1>1, <1>2, <3>1, <4>1 DEF Whence, CodeUpdate, Read
      <4> QED
        BY <1>2, <2>1, <4>2 DEF CodeRows
    <3>2. CASE pc'[r] = "code_commit"
      BY <1>1, <1>2, <3>2 DEF Whence, CodeFetch, At, HasRead
    <3>3. CASE pc'[r] = "root_insert"
      <4>1. pc[r] = "code_commit" /\ row' = row
        BY <1>1, <3>3 DEF Whence, CodeCommit, CommitThen, Answer, Goto, At
      <4> QED
        BY <1>1, <1>2, <4>1 DEF HasRead
    <3>4. CASE pc'[r] = "root_commit"
      BY <1>1, <1>2, <3>4 DEF Whence, RootInsert, At, HasRead
    <3> QED
      BY <1>2, <3>1, <3>2, <3>3, <3>4
  <2>3. req'[req[r].cred] = req[req[r].cred]
    BY <2>2, AskedOnce DEF AsApproved
  <2> QED
    BY <2>1, <2>2, <2>3, StaysApproved
<1>3. ASSUME pc'[r] \in {"root_insert", "root_commit"}
      PROVE  RedeemsOwnCode(r)'
  <2>1. CASE pc'[r] = "root_insert"
    BY <1>1, <2>1 DEF Whence, CodeCommit, CommitThen, Answer, Goto, At, RedeemsOwnCode
  <2>2. CASE pc'[r] = "root_commit"
    BY <1>1, <2>2 DEF Whence, RootInsert, At, HasRead, RedeemsOwnCode
  <2> QED
    BY <1>3, <2>1, <2>2
<1>4. ASSUME pc'[r] = "root_commit"
      PROVE  /\ db'.tokens[r] # None
             /\ db'.tokens[r].chain = r
             /\ db'.tokens[r].user = row'[r].user
             /\ db'.tokens[r].client = row'[r].client
             /\ db'.tokens[r].scope = row'[r].scope
  <2>1. RootInsert(r) /\ row' = row /\ RedeemsOwnCode(r)
    BY <1>1, <1>4 DEF Whence, RootInsert, At, HasRead
  <2> QED
    BY <2>1, NoneAssumption, RootInsertRow DEF RedeemsOwnCode
<1>5. ASSUME pc'[r] \in RefreshAwaits \ {"refresh", "refresh_get"}
      PROVE  /\ req'[r] = req[r] /\ req[r].cred \in Credential
             /\ OwnsToken(r) /\ OwnsToken(r)'
             /\ SameGrant(db.tokens[req[r].cred], db'.tokens[req[r].cred])
  <2>1. /\ pc[r] \in RefreshAwaits /\ req'[r] = req[r]
        /\ pc[r] # "refresh_get" => OwnsToken(r)
    BY <1>1, <1>5 DEF Whence, RefreshGet, RefreshLock, Acquire, RotateSelect,
       ReuseUpdate, RotateUpdate, RotateInsert, At, HasRead, RefreshAwaits
  <2>2. OwnsToken(r)
    BY <1>1, <1>5, <2>1 DEF Whence, RefreshGet, At, Answer, Goto, RefreshLock, Acquire,
       RotateSelect, ReuseUpdate, RotateUpdate, RotateInsert, RefreshAwaits
  <2>3. req[r].cred \in Credential
    BY <2>1 DEF Suspended, RefreshGrant
  <2>4. /\ db'.tokens[req[r].cred] # None
        /\ SameGrant(db.tokens[req[r].cred], db'.tokens[req[r].cred])
    BY <2>2, <2>3, TokensGrow DEF OwnsToken
  <2> QED
    BY <2>1, <2>2, <2>3, <2>4 DEF OwnsToken, SameGrant
<1>6. ASSUME pc'[r] \in {"reuse_update", "reuse_commit", "rotate_update",
                          "rotate_insert", "rotate_commit"}
      PROVE  SameGrant(row'[r], db'.tokens[req'[r].cred])
  <2>1. SameGrant(row'[r], db.tokens[req[r].cred])
    <3>1. CASE pc'[r] \in {"reuse_update", "rotate_update"}
      BY <1>1, <3>1 DEF Whence, RotateSelect, Answer, Goto, Read, At, SameGrant
    <3>2. CASE pc'[r] \in {"reuse_commit", "rotate_insert", "rotate_commit"}
      BY <1>1, <3>2 DEF Whence, ReuseUpdate, RotateUpdate, RotateInsert, At, HasRead
    <3> QED
      BY <1>6, <3>1, <3>2
  <2> QED
    BY <1>5, <1>6, <2>1 DEF SameGrant, RefreshAwaits
<1>7. ASSUME pc'[r] = "rotate_commit"
      PROVE  db'.tokens[r] # None /\ SameGrant(db'.tokens[r], row'[r])
  <2>1. RotateInsert(r) /\ row' = row
    BY <1>1, <1>7 DEF Whence, RotateInsert
  <2> QED
    BY <2>1, RotateInsertRow
<1> QED
  BY <1>2, <1>3, <1>4, <1>5, <1>6, <1>7 DEF HasRead, AsApproved, ApprovedAfter

\* The claims answered are those of the row the commit made durable.
LEMMA ClaimedStep ==
    ASSUME ForkInv, Next, ProvenanceInv, NEW r \in Req, Work(r)
    PROVE  Claimed'
<1> USE DEF ProvenanceInv
<1> SUFFICES ASSUME NEW s \in Req, access'[s] # None
             PROVE  /\ disk'.tokens[s] # None
                    /\ access'[s].sub = disk'.tokens[s].user
                    /\ access'[s].client = disk'.tokens[s].client
                    /\ access'[s].scope \subseteq disk'.tokens[s].scope
  BY DEF Claimed
<1>1. CASE access'[s] = access[s]
  <2>1. /\ disk.tokens[s] # None
        /\ access[s].sub = disk.tokens[s].user
        /\ access[s].client = disk.tokens[s].client
        /\ access[s].scope \subseteq disk.tokens[s].scope
    BY <1>1 DEF Claimed
  <2>2. CASE disk' = disk
    BY <1>1, <2>1, <2>2
  <2>3. CASE disk' = db
    BY <1>1, <2>1, <2>3 DEF Keeps, SameGrant, Credential
  <2> QED
    BY <2>2, <2>3, Tables DEF Touches
<1>2. CASE access'[s] # access[s]
  <2>1. s = r
    BY <1>2, OneMoves DEF OneMoving
  <2>2. RootCommit(r) \/ RotateCommit(r)
    BY <1>2, <2>1, Itinerary DEF Whence
  <2>3. HasRead(r) /\ row[r] \in CodeRow \cup TokenRow
    BY <2>2 DEF ReadRows, ForkInv, ControlInv, Suspended, RootCommit, RotateCommit, At
  <2>4. PICK scope : /\ disk' = db
                     /\ access' = [access EXCEPT ![r] = [sub    |-> row[r].user,
                                                         client |-> req[r].client,
                                                         scope  |-> scope]]
                     /\ scope \subseteq row[r].scope
    BY <1>2, <2>2 DEF RootCommit, RotateCommit, CommitThen, Commit, Issue
  <2>5. access'[s] = [sub |-> row[r].user, client |-> req[r].client, scope |-> scope]
    BY <2>1, <2>4 DEF ForkInv, ControlInv, TypeOK
  <2>6. /\ db.tokens[r] # None
        /\ db.tokens[r].user = row[r].user
        /\ db.tokens[r].scope = row[r].scope
        /\ db.tokens[r].client = req[r].client
    <3>1. CASE RootCommit(r)
      BY <2>3, <3>1 DEF RootCommit, At, HasRead, RedeemsOwnCode
    <3>2. CASE RotateCommit(r)
      BY <2>3, <3>2 DEF RotateCommit, At, HasRead, OwnsToken, SameGrant, RefreshAwaits
    <3> QED
      BY <2>2, <3>1, <3>2
  <2> QED
    BY <2>1, <2>4, <2>5, <2>6
<1> QED
  BY <1>1, <1>2

LEMMA ProvenanceStep ==
    ASSUME ForkInv, [Next]_vars, ProvenanceInv
    PROVE  ProvenanceInv'
<1>1. ASSUME Next, NEW r \in Req, Work(r)
      PROVE  ProvenanceInv'
  <2>1. ReadRows'
    BY <1>1, OthersHaveRead, HandlerHasRead DEF ReadRows
  <2>2. Keeps(disk, db)'
    BY <1>1, Growing DEF ProvenanceInv, Keeps, SameGrant
  <2> QED
    BY <1>1, <2>1, <2>2, CodeRowsStep, TokenRowsStep, ClaimedStep DEF ProvenanceInv
<1>2. CASE Next /\ Crash
  <2>1. /\ \A c \in Credential : disk.codes[c] # None =>
             /\ pc'[c] \in {"code_store"} \cup Answers
             /\ ApprovedAfter(disk.codes[c], c)
             /\ disk.codes[c].challenge = req'[c].challenge
        /\ \A t \in Credential : disk.tokens[t] # None =>
             t \in Req /\ GrantedAfter(disk.tokens[t], disk.tokens[t].chain)
    BY <1>2, CodeRowsKept, TokenRowsKept DEF ProvenanceInv
  <2>2. CodeRows(disk)' /\ TokenRows(disk)' /\ db' = disk'
    <3>1. disk' = disk /\ db' = disk
      BY <1>2, Restarted
    <3>2. CodeRows(disk)'
      BY <2>1, <3>1 DEF CodeRows, AsApproved, ApprovedAfter
    <3>3. TokenRows(disk)'
      BY <2>1, <3>1 DEF TokenRows, Granted, GrantedAfter, AsApproved, ApprovedAfter
    <3> QED
      BY <3>1, <3>2, <3>3
  <2>3. CodeRows(db)' /\ TokenRows(db)'
    BY <2>2 DEF CodeRows, TokenRows
  <2>4. ReadRows'
    BY <1>2, Restarted DEF ReadRows, HasRead, RefreshAwaits, Answers
  <2>5. Claimed' /\ Keeps(disk, db)'
    BY <1>2, Restarted DEF ProvenanceInv, Claimed, Keeps, SameGrant
  <2> QED
    BY <2>2, <2>3, <2>4, <2>5 DEF ProvenanceInv
<1>3. CASE Rest
  <2>1. UNCHANGED <<db, disk, req, pc, row, access>>
    BY <1>3 DEF Rest, handlerVars
  <2>2. (CodeRows(db) /\ CodeRows(disk) /\ TokenRows(db) /\ TokenRows(disk))'
    BY ZenonT(30), <2>1 DEF ProvenanceInv, CodeRows, TokenRows, AsApproved, Granted
  <2>3. ASSUME NEW r \in Req PROVE HasRead(r)'
    <3>1. HasRead(r)
      BY DEF ProvenanceInv, ReadRows
    <3> QED
      BY <2>1, <3>1 DEF HasRead, AsApproved, RedeemsOwnCode, OwnsToken, SameGrant
  <2>4. Claimed' /\ Keeps(disk, db)'
    BY <2>1 DEF ProvenanceInv, Claimed, Keeps, SameGrant
  <2> QED
    BY <2>2, <2>3, <2>4 DEF ProvenanceInv, ReadRows
<1>4. CASE UNCHANGED vars
  BY <1>3, <1>4 DEF Rest, vars, storageVars
<1>5. CASE Next
  BY <1>1, <1>2, <1>3, <1>5, WhoseStep
<1> QED
  BY <1>4, <1>5

LEMMA AuthorizeInsertRow ==
    ASSUME ForkInv, NEW r \in Req, AuthorizeInsert(r)
    PROVE  db'.codes[r] # None
<1> DEFINE rw == [client    |-> req[r].client,
                  user      |-> req[r].user,
                  redirect  |-> req[r].redirect,
                  challenge |-> req[r].challenge,
                  scope     |-> req[r].scope,
                  expires   |-> seen[r] + CodeTTL,
                  consumed  |-> FALSE]
<1>1. rw \in CodeRow
  BY TTLAssumption DEF AuthorizeInsert, Authorization, CodeRow, ForkInv, ControlInv,
     TypeOK, StorageTypeOK, Suspended, At, AuthorizeAwaits
<1>2. rw # None
  BY <1>1, NoneAssumption
<1> QED
  BY <1>2 DEF AuthorizeInsert, InsertCode, Database, Credential, ForkInv, ControlInv,
     TypeOK, StorageTypeOK

-----------------------------------------------------------------------------
(* What is handed out is stored.                                            *)

\* A row a request got is not taken from it.
LEMMA StaysStored ==
    ASSUME ForkInv, Next, ProvenanceInv, NEW r \in Req, Work(r),
           NEW s \in Req, pc[s] # "new", s # r, Stored(db, s)
    PROVE  Stored(db, s)'
<1> USE DEF ForkInv, ControlInv, TypeOK, StorageTypeOK
<1>1. req'[s] = req[s]
  BY AskedOnce
<1>2. db'.clients[s] = db.clients[s]
  <2>1. CASE RegisterInsert(r)
    BY <2>1 DEF RegisterInsert, InsertClient, Database, Client
  <2> QED
    BY <2>1, Tables DEF Touches
<1>3. /\ db.codes[s] # None => db'.codes[s] # None
      /\ db.tokens[s] # None => db'.tokens[s] # None
  BY CodesGrow, TokensGrow DEF ProvenanceInv, Credential
<1> QED
  BY <1>1, <1>2, <1>3 DEF Stored

LEMMA StoredStep ==
    ASSUME ForkInv, [Next]_vars, ProvenanceInv, StoredInv
    PROVE  StoredInv'
<1> USE DEF ForkInv, ControlInv, TypeOK, StorageTypeOK
<1>1. ASSUME Next, NEW r \in Req, Work(r), NEW s \in Req
      PROVE  /\ pc'[s] = "ok" => Stored(db, s)' /\ Stored(disk, s)'
             /\ pc'[s] \in {"client_commit", "code_store", "root_commit", "rotate_commit"}
                  => Stored(db, s)'
  <2>1. CASE s # r
    <3>1. pc'[s] = pc[s] /\ req'[s] = req[s]
      BY <1>1, <2>1, OneMoves DEF OneMoving
    <3>2. pc[s] = "ok" => Stored(db, s) /\ Stored(disk, s)
      BY DEF StoredInv
    <3>3. pc[s] \in {"client_commit", "code_store", "root_commit", "rotate_commit"}
            => Stored(db, s)
      BY DEF StoredInv
    <3>4. pc[s] # "new" /\ Stored(db, s) => Stored(db, s)'
      BY <1>1, <2>1, StaysStored
    <3>5. Stored(db, s) /\ Stored(disk, s) => Stored(disk, s)'
      BY <1>1, <3>1, Tables DEF Touches, Stored
    <3> QED
      BY <3>1, <3>2, <3>3, <3>4, <3>5
  <2>2. CASE s = r
    <3>1. Whence(r) /\ HasRead(r)
      BY <1>1, Itinerary DEF ProvenanceInv, ReadRows
    <3>2. CASE pc'[r] = "ok"
      <4>1. /\ disk' = db /\ db' = db /\ req' = req
            /\ req[r].kind # "revoke" => pc[r] \in {"client_commit", "code_store", "root_commit", "rotate_commit"}
        BY <3>1, <3>2 DEF Whence, RegisterCommit, AuthorizeCommit, RootCommit, RotateCommit,
           RevokeCommit, CommitThen, Commit, Answer, Goto, At, Suspended, RevokeAwaits, Revocation
      <4>2. Stored(db, r)
        BY <4>1 DEF StoredInv, Stored
      <4> QED
        BY <2>2, <3>2, <4>1, <4>2 DEF Stored
    <3>3. CASE pc'[r] = "client_commit"
      <4>1. RegisterInsert(r) /\ req[r] \in Registration
        BY <3>1, <3>3 DEF Whence, RegisterInsert, At, Suspended, RegisterAwaits
      <4>2. db'.clients[r] = req'[r].uris /\ req'[r].kind = "register"
        BY <4>1 DEF RegisterInsert, InsertClient, Database, Client, Registration
      <4> QED
        BY <2>2, <3>3, <4>2 DEF Stored
    <3>4. CASE pc'[r] = "code_store"
      <4>1. AuthorizeInsert(r) /\ req[r] \in Authorization
        BY <3>1, <3>4 DEF Whence, AuthorizeInsert, At, Suspended, AuthorizeAwaits
      <4>2. db'.codes[r] # None /\ req'[r].kind = "authorize"
        BY <1>1, <4>1, AuthorizeInsertRow DEF AuthorizeInsert, Authorization
      <4> QED
        BY <2>2, <3>4, <4>2 DEF Stored
    <3>5. CASE pc'[r] = "root_commit"
      <4>1. RootInsert(r) /\ req[r] \in CodeGrant
        BY <3>1, <3>5 DEF Whence, RootInsert, At, Suspended, CodeAwaits
      <4>2. db'.tokens[r] # None /\ req'[r].kind = "code"
        BY <4>1, RootInsertRow DEF RootInsert, CodeGrant
      <4> QED
        BY <2>2, <3>5, <4>2 DEF Stored
    <3>6. CASE pc'[r] = "rotate_commit"
      <4>1. RotateInsert(r) /\ req[r] \in RefreshGrant
        BY <3>1, <3>6 DEF Whence, RotateInsert, At, Suspended, RefreshAwaits
      <4>2. db'.tokens[r] # None /\ req'[r].kind = "refresh"
        BY <4>1, RotateInsertRow DEF RotateInsert, RefreshGrant
      <4> QED
        BY <2>2, <3>6, <4>2 DEF Stored
    <3> QED
      BY <2>2, <3>2, <3>3, <3>4, <3>5, <3>6
  <2> QED
    BY <2>1, <2>2
<1>2. CASE Next /\ Crash
  BY <1>2, Restarted DEF StoredInv, Stored, Answers
<1>3. CASE Rest
  BY <1>3 DEF Rest, handlerVars, StoredInv, Stored
<1>4. CASE UNCHANGED vars
  BY <1>3, <1>4 DEF Rest, vars, storageVars
<1>5. CASE Next
  <2>1. CASE \E r \in Req : Work(r)
    BY <1>1, <1>5, <2>1 DEF StoredInv
  <2> QED
    BY <1>2, <1>3, <1>5, <2>1, WhoseStep
<1> QED
  BY <1>4, <1>5

-----------------------------------------------------------------------------
(* What is spent once is spent for good.                                    *)

\* Who spends a code finds it unspent; who spends a token has found it so.
LEMMA Spending ==
    ASSUME ForkInv, Next, ProvenanceInv, SpentInv, NEW r \in Req, Work(r)
    PROVE  /\ SpentCode(r)' /\ ~SpentCode(r) =>
                /\ CodeUpdate(r) /\ req'[r] = req[r]
                /\ db.codes[req[r].cred] # None /\ ~db.codes[req[r].cred].consumed
                /\ db'.codes[req[r].cred] # None /\ db'.codes[req[r].cred].consumed
           /\ SpentToken(r)' /\ ~SpentToken(r) =>
                /\ RotateUpdate(r) /\ req'[r] = req[r]
                /\ db.tokens[req[r].cred] # None /\ ~db.tokens[req[r].cred].rotated
                /\ db'.tokens[req[r].cred] # None /\ db'.tokens[req[r].cred].rotated
<1> USE DEF ForkInv, ControlInv, TypeOK, StorageTypeOK
<1>1. Whence(r)
  BY Itinerary
<1>2. ASSUME SpentCode(r)', ~SpentCode(r)
      PROVE  /\ CodeUpdate(r) /\ req'[r] = req[r]
             /\ db.codes[req[r].cred] # None /\ ~db.codes[req[r].cred].consumed
             /\ db'.codes[req[r].cred] # None /\ db'.codes[req[r].cred].consumed
  <2>1. pc'[r] \in {"code_fetch", "code_commit"} /\ row'[r] # None => pc'[r] = "code_fetch"
    BY <1>1, <1>2 DEF SpentCode, Whence, CodeFetch, At
  <2>2. pc'[r] \notin {"root_insert", "root_commit"}
    BY <1>1, <1>2 DEF SpentCode, Whence, CodeCommit, CommitThen, Answer, Goto, At,
       RedeemsOwnCode, RootInsert
  <2>3. ~(pc'[r] = "ok" /\ req'[r].kind = "code")
    BY <1>1, <1>2 DEF SpentCode, Whence, RegisterCommit, AuthorizeCommit, RootCommit,
       RotateCommit, RevokeCommit, CommitThen, At, Suspended, RegisterAwaits,
       AuthorizeAwaits, RefreshAwaits, RevokeAwaits, Registration, Authorization,
       RefreshGrant, Revocation
  <2>4. CodeUpdate(r) /\ row'[r] # None
    BY <1>1, <1>2, <2>1, <2>2, <2>3 DEF SpentCode, Whence
  <2>5. row[r] = None /\ req[r].cred \in Credential /\ req' = req
    BY <2>4 DEF CodeUpdate, At, Suspended, CodeAwaits, CodeGrant
  <2>6. Consumable(req[r].cred, seen[r]) /\ UpdateConsumed(req[r].cred)
    BY <2>4, <2>5 DEF CodeUpdate
  <2>7. db.codes[req[r].cred] # None /\ ~db.codes[req[r].cred].consumed
    BY <2>6 DEF Consumable
  <2>8. /\ db'.codes[req[r].cred] = [db.codes[req[r].cred] EXCEPT !.consumed = TRUE]
        /\ db'.codes[req[r].cred] \in CodeRow /\ db.codes[req[r].cred] \in CodeRow
    BY <2>5, <2>6, <2>7, ConsumeEffect
  <2>9. db'.codes[req[r].cred] # None /\ db'.codes[req[r].cred].consumed
    BY <2>8, NoneAssumption DEF CodeRow
  <2> QED
    BY <2>4, <2>5, <2>7, <2>9
<1>3. ASSUME SpentToken(r)', ~SpentToken(r)
      PROVE  /\ RotateUpdate(r) /\ req'[r] = req[r]
             /\ db.tokens[req[r].cred] # None /\ ~db.tokens[req[r].cred].rotated
             /\ db'.tokens[req[r].cred] # None /\ db'.tokens[req[r].cred].rotated
  <2>1. pc'[r] # "rotate_commit"
    BY <1>1, <1>3 DEF SpentToken, Whence, RotateInsert, At
  <2>2. ~(pc'[r] = "ok" /\ req'[r].kind = "refresh")
    BY <1>1, <1>3 DEF SpentToken, Whence, RegisterCommit, AuthorizeCommit, RootCommit,
       RotateCommit, RevokeCommit, CommitThen, At, Suspended, RegisterAwaits,
       AuthorizeAwaits, CodeAwaits, RevokeAwaits, Registration, Authorization,
       CodeGrant, Revocation
  <2>3. RotateUpdate(r)
    BY <1>1, <1>3, <2>1, <2>2 DEF SpentToken, Whence
  <2>4. /\ pc[r] = "rotate_update" /\ req[r].cred \in Credential /\ req' = req
        /\ OwnsToken(r)
    BY <2>3 DEF RotateUpdate, At, Suspended, RefreshAwaits, RefreshGrant,
       ProvenanceInv, ReadRows, HasRead
  <2>5. db.tokens[req[r].cred] # None /\ ~db.tokens[req[r].cred].rotated
    BY <2>4 DEF OwnsToken, SpentInv
  <2>6. /\ db'.tokens[req[r].cred] = [db.tokens[req[r].cred] EXCEPT !.rotated = TRUE]
        /\ db'.tokens[req[r].cred] \in TokenRow /\ db.tokens[req[r].cred] \in TokenRow
    BY <2>3, <2>4, <2>5, UpdateRotatedEffect DEF RotateUpdate, Database
  <2>7. db'.tokens[req[r].cred] # None /\ db'.tokens[req[r].cred].rotated
    BY <2>6, NoneAssumption DEF TokenRow
  <2> QED
    BY <2>3, <2>4, <2>5, <2>7
<1> QED
  BY <1>2, <1>3

\* Who has spent a credential presented one.
LEMMA SpentCredential ==
    ASSUME ForkInv, SpentInv, NEW r \in Req
    PROVE  /\ SpentCode(r) => /\ pc[r] # "new" /\ req[r].cred \in Credential
                              /\ db.codes[req[r].cred] # None
                              /\ db.codes[req[r].cred].consumed
           /\ SpentToken(r) => /\ pc[r] # "new" /\ req[r].cred \in Credential
                               /\ db.tokens[req[r].cred] # None
                               /\ db.tokens[req[r].cred].rotated
<1>1. /\ SpentCode(r) => req[r] \in CodeGrant
      /\ SpentToken(r) => req[r] \in RefreshGrant
  BY DEF SpentCode, SpentToken, SpentInv, ForkInv, ControlInv, Suspended, CodeAwaits,
     RefreshAwaits, Request, Registration, Authorization, CodeGrant, RefreshGrant, Revocation
<1>2. SpentCode(r) \/ SpentToken(r) => pc[r] # "new"
  BY DEF SpentCode, SpentToken
<1> QED
  BY <1>1, <1>2 DEF SpentInv, CodeGrant, RefreshGrant

LEMMA SpentStep ==
    ASSUME ForkInv, [Next]_vars, ProvenanceInv, SpentInv
    PROVE  SpentInv'
<1> USE DEF ForkInv, ControlInv, TypeOK, StorageTypeOK
<1>1. ASSUME Next, NEW r \in Req, Work(r), NEW s \in Req, s # r
      PROVE  /\ pc'[s] = pc[s] /\ row'[s] = row[s] /\ req'[s] = req[s]
             /\ SpentCode(s)' = SpentCode(s) /\ SpentToken(s)' = SpentToken(s)
  BY <1>1, OneMoves DEF OneMoving, SpentCode, SpentToken
<1>2. ASSUME Next, NEW r \in Req, Work(r), NEW s \in Req
      PROVE  /\ SpentCode(s) => /\ req'[s] = req[s]
                                /\ db'.codes[req[s].cred] # None
                                /\ db'.codes[req[s].cred].consumed
             /\ SpentToken(s) => /\ req'[s] = req[s]
                                 /\ db'.tokens[req[s].cred] # None
                                 /\ db'.tokens[req[s].cred].rotated
  BY <1>2, SpentCredential, AskedOnce, CodesGrow, TokensGrow DEF ProvenanceInv
<1>3. ASSUME Next, NEW r \in Req, Work(r)
      PROVE  SpentInv'
  <2>1. ASSUME NEW s \in Req, NEW t \in Req, s # t,
               \/ SpentCode(s)' /\ SpentCode(t)'
               \/ SpentToken(s)' /\ SpentToken(t)',
               req'[s].cred = req'[t].cred
        PROVE  FALSE
    <3>1. ASSUME NEW u \in Req \ {r}, req'[u].cred = req'[r].cred
          PROVE  /\ ~(SpentCode(u)' /\ SpentCode(r)')
                 /\ ~(SpentToken(u)' /\ SpentToken(r)')
      <4>1. /\ req'[u] = req[u] /\ SpentCode(u)' = SpentCode(u)
            /\ SpentToken(u)' = SpentToken(u)
        BY <1>1, <1>3
      <4>2. /\ SpentCode(u) => db.codes[req[u].cred].consumed
            /\ SpentToken(u) => db.tokens[req[u].cred].rotated
        BY DEF SpentInv
      <4>3. ASSUME req[u].cred = req[r].cred
            PROVE  ~(SpentCode(u) /\ SpentCode(r)) /\ ~(SpentToken(u) /\ SpentToken(r))
        BY <4>3 DEF SpentInv
      <4>4. CASE SpentCode(u) /\ SpentCode(r)'
        <5>1. req'[r] = req[r] /\ ~SpentCode(r)
          BY <1>2, <1>3, <3>1, <4>1, <4>3, <4>4, Spending
        <5> QED
          BY <1>3, <3>1, <4>1, <4>2, <4>4, <5>1, Spending
      <4>5. CASE SpentToken(u) /\ SpentToken(r)'
        <5>1. req'[r] = req[r] /\ ~SpentToken(r)
          BY <1>2, <1>3, <3>1, <4>1, <4>3, <4>5, Spending
        <5> QED
          BY <1>3, <3>1, <4>1, <4>2, <4>5, <5>1, Spending
      <4> QED
        BY <4>1, <4>4, <4>5
    <3>2. CASE s # r /\ t # r
      BY <1>1, <1>3, <2>1, <3>2 DEF SpentInv
    <3> QED
      BY <2>1, <3>1, <3>2
  <2>2. ASSUME NEW s \in Req
        PROVE  /\ SpentCode(s)' => /\ db'.codes[req'[s].cred] # None
                                   /\ db'.codes[req'[s].cred].consumed
               /\ SpentToken(s)' => /\ db'.tokens[req'[s].cred] # None
                                    /\ db'.tokens[req'[s].cred].rotated
    BY <1>1, <1>2, <1>3, Spending
  <2>3. ASSUME NEW s \in Req, pc'[s] = "ok"
        PROVE  /\ req'[s] \in Request
               /\ req'[s].kind = "code" =>
                    disk'.codes[req'[s].cred] # None /\ disk'.codes[req'[s].cred].consumed
               /\ req'[s].kind = "refresh" =>
                    disk'.tokens[req'[s].cred] # None /\ disk'.tokens[req'[s].cred].rotated
    <3>1. CASE s # r
      <4>1. /\ pc[s] = "ok" /\ req'[s] = req[s] /\ req[s] \in Request
            /\ req[s].kind = "code" => SpentCode(s)
            /\ req[s].kind = "refresh" => SpentToken(s)
        BY <1>1, <1>3, <2>3, <3>1 DEF SpentInv, SpentCode, SpentToken
      <4>2. CASE disk' = disk
        BY <4>1, <4>2 DEF SpentInv
      <4>3. CASE disk' = db
        BY <4>1, <4>3 DEF SpentInv
      <4> QED
        BY <1>3, <4>2, <4>3, Tables DEF Touches
    <3>2. CASE s = r
      <4>1. disk' = db /\ db' = db /\ req' = req /\ req[r] \in Request
        BY <1>3, <2>3, <3>2, Itinerary
           DEF Whence, RegisterCommit, AuthorizeCommit, RootCommit, RotateCommit,
           RevokeCommit, CommitThen, Commit, Answer, Goto, At, Suspended, RegisterAwaits,
           AuthorizeAwaits, CodeAwaits, RefreshAwaits, RevokeAwaits, Request
      <4>2. /\ req[r].kind = "code" => SpentCode(r)'
            /\ req[r].kind = "refresh" => SpentToken(r)'
        BY <2>3, <3>2, <4>1 DEF SpentCode, SpentToken
      <4> QED
        BY <2>2, <3>2, <4>1, <4>2
    <3> QED
      BY <3>1, <3>2
  <2>4. ASSUME NEW s \in Req, pc'[s] = "rotate_update"
        PROVE  ~db'.tokens[req'[s].cred].rotated
    <3>1. CASE s = r
      <4>1. RotateSelect(r) /\ req'[r] = req[r] /\ db' = db
        BY <1>3, <2>4, <3>1, Itinerary DEF Whence, RotateSelect
      <4>2. Rotatable(r)
        BY <2>4, <3>1, <4>1 DEF RotateSelect, Answer, Goto
      <4> QED
        BY <3>1, <4>1, <4>2 DEF Rotatable, LiveIn
    <3>2. CASE s # r
      <4>1. pc[s] = "rotate_update" /\ req'[s] = req[s]
        BY <1>1, <1>3, <2>4, <3>2
      <4>2. /\ req[s].cred \in Credential /\ db.tokens[req[s].cred] # None
            /\ ~db.tokens[req[s].cred].rotated
        BY <4>1 DEF Suspended, RefreshAwaits, RefreshGrant, ProvenanceInv, ReadRows,
           HasRead, OwnsToken, SpentInv
      <4>3. ~RotateUpdate(r)
        BY <3>2, <4>1, Alone DEF RotateUpdate, At, InLock
      <4> QED
        BY <1>3, <4>1, <4>2, <4>3, TokenRotated
    <3> QED
      BY <3>1, <3>2
  <2> QED
    BY <2>1, <2>2, <2>3, <2>4 DEF SpentInv
<1>4. CASE Next /\ Crash
  <2>1. /\ \A s \in Req : SpentCode(s)' =>
             pc[s] = "ok" /\ req[s].kind = "code" /\ SpentCode(s)
        /\ \A s \in Req : SpentToken(s)' =>
             pc[s] = "ok" /\ req[s].kind = "refresh" /\ SpentToken(s)
        /\ \A s \in Req : pc'[s] = "ok" => pc[s] = "ok"
        /\ \A s \in Req : pc'[s] # "rotate_update"
        /\ req' = req /\ disk' = disk /\ db' = disk
    BY <1>4, Restarted DEF SpentCode, SpentToken, Answers
  <2> QED
    BY <2>1 DEF SpentInv
<1>5. CASE Rest
  BY <1>5 DEF Rest, handlerVars, SpentInv, SpentCode, SpentToken
<1>6. CASE UNCHANGED vars
  BY <1>5, <1>6 DEF Rest, vars, storageVars
<1>7. CASE Next
  BY <1>3, <1>4, <1>5, <1>7, WhoseStep
<1> QED
  BY <1>6, <1>7

-----------------------------------------------------------------------------
(* What a reuse costs.                                                      *)

\* A chain without a live token gets one only by the insertion into it.
LEMMA StaysDead ==
    ASSUME ForkInv, Next, NEW r \in Req, Work(r), NEW ch, NoneLive(db, ch),
           RootInsert(r) => ch # r,
           RotateInsert(r) => row[r].chain # ch
    PROVE  NoneLive(db', ch)
<1> SUFFICES ASSUME NEW t \in Credential, LiveIn(db', t)
             PROVE  db'.tokens[t].chain # ch
  BY DEF NoneLive
<1>1. CASE db.tokens[t] = None
  BY <1>1, TokenBorn DEF LiveIn, SameGrant
<1>2. CASE db.tokens[t] # None
  <2>1. LiveIn(db, t) /\ db'.tokens[t].chain = db.tokens[t].chain
    BY <1>2, TokensGrow DEF LiveIn, SameGrant
  <2> QED
    BY <2>1 DEF NoneLive
<1> QED
  BY <1>1, <1>2

LEMMA ReuseCommitStep ==
    ASSUME ForkInv, Next, ProvenanceInv, ReuseInv, NEW r \in Req, Work(r),
           NEW s \in Req, pc'[s] = "reuse_commit"
    PROVE  NoneLive(db, row[s].chain)'
<1> USE DEF ForkInv, ControlInv, TypeOK, StorageTypeOK
<1>1. CASE s = r
  <2>1. ReuseUpdate(r)
    BY <1>1, Itinerary DEF Whence
  <2>2. row'[r] = row[r] /\ UpdateRevoked(row[r].chain)
    BY <2>1 DEF ReuseUpdate
  <2> SUFFICES ASSUME NEW t \in Credential, LiveIn(db', t)
               PROVE  db'.tokens[t].chain # row[r].chain
    BY <1>1, <2>2 DEF NoneLive, LiveIn
  <2>3. CASE InChain(db, row[r].chain, t)
    <3>1. db'.tokens[t] = [db.tokens[t] EXCEPT !.revoked = TRUE] /\ db.tokens[t] \in TokenRow
      BY <2>2, <2>3, UpdateRevokedEffect DEF InChain, Database
    <3>2. db'.tokens[t].revoked
      BY <3>1 DEF TokenRow
    <3> QED
      BY <3>2 DEF LiveIn
  <2>4. CASE ~InChain(db, row[r].chain, t)
    BY <2>2, <2>4, UpdateRevokedEffect DEF InChain, LiveIn
  <2> QED
    BY <2>3, <2>4
<1>2. CASE s # r
  <2>1. pc[s] = "reuse_commit" /\ row'[s] = row[s] /\ NoneLive(db, row[s].chain)
    BY <1>2, OneMoves DEF OneMoving, ReuseInv
  <2>2. ~RotateInsert(r)
    BY <1>2, <2>1, Alone DEF RotateInsert, At, InLock
  <2>3. RootInsert(r) => row[s].chain # r
    <3>1. /\ req[s].cred \in Credential /\ db.tokens[req[s].cred] # None
          /\ row[s].chain = db.tokens[req[s].cred].chain
      BY <2>1 DEF ProvenanceInv, ReadRows, HasRead, OwnsToken, SameGrant, RefreshAwaits,
         Suspended, RefreshGrant
    <3>2. db.tokens[row[s].chain] # None
      BY <3>1 DEF TableInv, Minted
    <3> QED
      BY <3>2 DEF RootInsert, At, TableInv, Minted, Settled, Answers, Credential
  <2>4. NoneLive(db', row[s].chain)
    BY <2>1, <2>2, <2>3, StaysDead
  <2> QED
    BY <2>1, <2>4 DEF NoneLive, LiveIn
<1> QED
  BY <1>1, <1>2

LEMMA ReuseStep ==
    ASSUME ForkInv, Next, ProvenanceInv, ReuseInv, NEW r \in Req, Work(r),
           NEW s \in Req, pc'[s] = "reuse"
    PROVE  /\ req'[s] \in RefreshGrant /\ disk'.tokens[req'[s].cred] # None
           /\ NoneLive(db', db'.tokens[req'[s].cred].chain)
           /\ NoneLive(disk', db'.tokens[req'[s].cred].chain)
           /\ \A t \in Req : pc'[t] \in {"rotate_update", "rotate_insert"} =>
                row'[t].chain # db'.tokens[req'[s].cred].chain
<1> USE DEF ForkInv, ControlInv, TypeOK, StorageTypeOK
<1>1. CASE s = r
  <2>1. ReuseCommit(r)
    <3>1. CASE RotateSelect(r)
      BY <1>1, <3>1 DEF RotateSelect, At, Goto, ProvenanceInv, ReadRows, HasRead,
         RefreshAwaits, OwnsToken
    <3> QED
      BY <1>1, <3>1, Itinerary DEF Whence
  <2>2. /\ pc[r] = "reuse_commit" /\ disk' = db /\ db' = db /\ req' = req
        /\ req[r] \in RefreshGrant
    BY <1>1, <2>1 DEF ReuseCommit, CommitThen, Commit, Answer, Goto, At, Suspended, RefreshAwaits
  <2>3. /\ db.tokens[req[r].cred] # None
        /\ row[r].chain = db.tokens[req[r].cred].chain
    BY <2>2 DEF ProvenanceInv, ReadRows, HasRead, OwnsToken, SameGrant, RefreshAwaits
  <2>4. NoneLive(db, db.tokens[req[r].cred].chain)
    BY <2>2, <2>3 DEF ReuseInv
  <2>5. ASSUME NEW t \in Req, pc'[t] \in {"rotate_update", "rotate_insert"}
        PROVE  FALSE
    <3>1. t # r
      BY <1>1, <2>5
    <3>2. pc[t] = pc'[t]
      BY <3>1, OneMoves DEF OneMoving
    <3> QED
      BY <2>2, <2>5, <3>1, <3>2, Alone DEF InLock
  <2> QED
    BY <1>1, <2>2, <2>3, <2>4, <2>5
<1>2. CASE s # r
  <2> DEFINE ch == db.tokens[req[s].cred].chain
  <2>1. pc[s] = "reuse" /\ req'[s] = req[s]
    BY <1>2, OneMoves DEF OneMoving
  <2>2. /\ req[s] \in RefreshGrant /\ disk.tokens[req[s].cred] # None
        /\ NoneLive(db, ch) /\ NoneLive(disk, ch)
        /\ \A t \in Req : pc[t] \in {"rotate_update", "rotate_insert"} => row[t].chain # ch
    BY <2>1 DEF ReuseInv
  <2>3. req[s].cred \in Credential /\ db.tokens[req[s].cred] # None
    BY <2>2 DEF RefreshGrant, ProvenanceInv, Keeps
  <2>4. db'.tokens[req[s].cred] # None /\ db'.tokens[req[s].cred].chain = ch
    BY <2>3, TokensGrow DEF SameGrant
  <2>5. RootInsert(r) => ch # r
    <3>1. db.tokens[ch] # None
      BY <2>3 DEF TableInv, Minted
    <3> QED
      BY <3>1 DEF RootInsert, At, TableInv, Minted, Settled, Answers, Credential
  <2>6. RotateInsert(r) => row[r].chain # ch
    BY <2>2 DEF RotateInsert, At
  <2>7. NoneLive(db', ch)
    BY <2>2, <2>5, <2>6, StaysDead
  <2>8. disk'.tokens[req[s].cred] # None /\ NoneLive(disk', ch)
    <3>1. CASE disk' = disk
      BY <2>2, <3>1
    <3>2. CASE disk' = db
      BY <2>2, <2>3, <3>2
    <3> QED
      BY <3>1, <3>2, Tables DEF Touches
  <2>9. ASSUME NEW t \in Req, pc'[t] \in {"rotate_update", "rotate_insert"}
        PROVE  row'[t].chain # ch
    <3>1. CASE t # r
      BY <2>2, <2>9, <3>1, OneMoves DEF OneMoving
    <3>2. CASE t = r /\ pc'[r] = "rotate_insert"
      BY <2>2, <3>2, Itinerary DEF Whence, RotateUpdate, At
    <3>3. CASE t = r /\ pc'[r] = "rotate_update"
      <4>1. RotateSelect(r) /\ req[r].cred \in Credential
        BY <3>3, Itinerary DEF Whence, RotateSelect, At, Suspended, RefreshAwaits, RefreshGrant
      <4>2. LiveIn(db, req[r].cred) /\ row'[r] = db.tokens[req[r].cred]
        BY <3>3, <4>1 DEF RotateSelect, Answer, Goto, Read, Rotatable
      <4> QED
        BY <2>2, <3>3, <4>1, <4>2 DEF NoneLive
    <3> QED
      BY <2>9, <3>1, <3>2, <3>3
  <2> QED
    BY <2>1, <2>2, <2>4, <2>7, <2>8, <2>9
<1> QED
  BY <1>1, <1>2

LEMMA ReuseInvStep ==
    ASSUME ForkInv, [Next]_vars, ProvenanceInv, ReuseInv
    PROVE  ReuseInv'
<1>1. ASSUME Next, NEW r \in Req, Work(r)
      PROVE  ReuseInv'
  BY <1>1, ReuseCommitStep, ReuseStep DEF ReuseInv, NoneLive, LiveIn
<1>2. CASE Next /\ Crash
  <2>1. ASSUME NEW s \in Req, pc'[s] = "reuse"
        PROVE  /\ pc[s] = "reuse" /\ req[s].cred \in Credential
               /\ disk.tokens[req[s].cred].chain = db.tokens[req[s].cred].chain
    BY <1>2, <2>1, Restarted DEF ReuseInv, ProvenanceInv, Keeps, SameGrant, RefreshGrant
  <2> QED
    BY <1>2, <2>1, Restarted DEF ReuseInv, NoneLive, LiveIn, Answers
<1>3. CASE Rest
  BY <1>3 DEF Rest, handlerVars, ReuseInv, NoneLive, LiveIn
<1>4. CASE UNCHANGED vars
  BY <1>3, <1>4 DEF Rest, vars, storageVars
<1>5. CASE Next
  BY <1>1, <1>2, <1>3, <1>5, WhoseStep
<1> QED
  BY <1>4, <1>5

-----------------------------------------------------------------------------
(* Theorems.                                                                *)

\* The state of the tables every statement relies on: requests hold what they
\* read, the lock is held by who is inside, chains have one live token and a
\* rotation under way knows its own.
THEOREM LockedTables == Spec => []ForkInv
  BY ForkInvariance

LEMMA InitGrantInv == Init => GrantInv
<1> SUFFICES ASSUME Init PROVE GrantInv
  OBVIOUS
<1> USE DEF Init, StorageInit
<1>1. \A t \in Credential : /\ db.tokens[t] = None /\ disk.tokens[t] = None
                            /\ db.codes[t] = None /\ disk.codes[t] = None
  BY DEF EmptyDatabase
<1>2. \A r \in Req : pc[r] = "new" /\ access[r] = None
  OBVIOUS
<1>3. ProvenanceInv
  BY <1>1, <1>2 DEF ProvenanceInv, CodeRows, TokenRows, ReadRows, HasRead, RefreshAwaits,
     Claimed, Keeps
<1>4. StoredInv /\ SpentInv /\ ReuseInv
  BY <1>2 DEF StoredInv, SpentInv, SpentCode, SpentToken, ReuseInv
<1> QED
  BY <1>3, <1>4 DEF GrantInv

LEMMA GrantInvariance == Spec => [](ForkInv /\ GrantInv)
<1>1. ForkInv /\ GrantInv /\ [Next]_vars => GrantInv'
  BY ProvenanceStep, StoredStep, SpentStep, ReuseInvStep DEF GrantInv
<1> QED
  BY <1>1, InitGrantInv, ForkInvariance, PTL DEF Spec

\* A code buys tokens once and a refresh token its successor once, whatever
\* requests, failing statements and restarts fall between.
THEOREM CredentialsSpentOnce == Spec => []ExchangedOnce
<1>1. ForkInv /\ GrantInv => ExchangedOnce
  BY DEF GrantInv, SpentInv, SpentCode, SpentToken, ExchangedOnce
<1> QED
  BY <1>1, GrantInvariance, PTL

\* The client, the code or the token in an answer is in the file, so that no
\* restart forgets it.
THEOREM AnswersAreDurable == Spec => []HandedOutDurable
<1>1. GrantInv => HandedOutDurable
  BY DEF GrantInv, StoredInv, Stored, HandedOutDurable
<1> QED
  BY <1>1, GrantInvariance, PTL

\* After the answer that reports a reuse no token of the chain is accepted any
\* more, not even after a restart, and also when revoke_chain is called.
THEOREM ReportedReuseKills == Spec => []ReuseKillsChain
<1>1. ForkInv /\ GrantInv => ReuseKillsChain
  <2> SUFFICES ASSUME ForkInv, GrantInv, NEW r \in Req, pc[r] = "reuse",
                      NEW t \in Req, LiveIn(disk, t)
               PROVE  disk.tokens[t].chain # disk.tokens[req[r].cred].chain
    BY DEF ReuseKillsChain
  <2>1. /\ req[r].cred \in Credential /\ disk.tokens[req[r].cred] # None
        /\ NoneLive(disk, db.tokens[req[r].cred].chain)
    BY DEF GrantInv, ReuseInv, RefreshGrant
  <2>2. db.tokens[req[r].cred].chain = disk.tokens[req[r].cred].chain
    BY <2>1 DEF GrantInv, ProvenanceInv, Keeps, SameGrant
  <2> QED
    BY <2>1, <2>2 DEF NoneLive, Credential
<1> QED
  BY <1>1, GrantInvariance, PTL

\* Every access token, however many rotations after the approval, speaks for
\* the user who approved, to the client approved, in a scope approved, and goes
\* back to a code redeemed with the verifier of that approval.
THEOREM AccessNeverWidens == Spec => []AccessWithinGrant
<1>1. ForkInv /\ GrantInv => AccessWithinGrant
  <2> SUFFICES ASSUME ForkInv, GrantInv, NEW r \in Req, access[r] # None
               PROVE  LET root == disk.tokens[r].chain
                          approval == req[root].cred
                      IN  /\ access[r].sub = req[approval].user
                          /\ access[r].client = req[approval].client
                          /\ access[r].scope \subseteq req[approval].scope
                          /\ req[root].verifier = req[approval].challenge
    BY DEF AccessWithinGrant
  <2>1. /\ disk.tokens[r] # None
        /\ access[r].sub = disk.tokens[r].user
        /\ access[r].client = disk.tokens[r].client
        /\ access[r].scope \subseteq disk.tokens[r].scope
    BY DEF GrantInv, ProvenanceInv, Claimed
  <2>2. Granted(disk.tokens[r], disk.tokens[r].chain)
    BY <2>1 DEF GrantInv, ProvenanceInv, TokenRows, Credential
  <2> QED
    BY <2>1, <2>2 DEF Granted, AsApproved
<1> QED
  BY <1>1, GrantInvariance, PTL

-----------------------------------------------------------------------------
(* How far the file lags.                                                   *)

\* A rotation acts on a token its client was handed, hence on one in the file.
LEMMA PresentedStored ==
    ASSUME ForkInv, ProvenanceInv, LagInv, NEW r \in Req,
           pc[r] \in RefreshAwaits \ {"refresh", "refresh_get"}
    PROVE  /\ req[r].cred \in Credential
           /\ disk.tokens[req[r].cred] # None /\ db.tokens[req[r].cred] # None
           /\ disk.tokens[req[r].cred].chain = db.tokens[req[r].cred].chain
<1>1. req[r].cred \in Credential /\ db.tokens[req[r].cred] # None
  BY DEF ProvenanceInv, ReadRows, HasRead, OwnsToken, ForkInv, ControlInv, Suspended, RefreshGrant
<1>2. req[r].cred \in Req
  BY <1>1 DEF ProvenanceInv, TokenRows
<1>3. disk.tokens[req[r].cred] # None
  BY <1>2, NamesAssumption DEF LagInv
<1> QED
  BY <1>1, <1>3 DEF ProvenanceInv, Keeps, SameGrant

\* Requests present tokens from the file.
LEMMA PresentedStep ==
    ASSUME ForkInv, Next, GrantInv, LagInv, NEW r \in Req, Work(r),
           NEW s \in Req, pc'[s] \in RefreshAwaits
    PROVE  req'[s].cred \in Garbage \/ disk'.tokens[req'[s].cred] # None
<1> USE DEF ForkInv, ControlInv, TypeOK, StorageTypeOK
<1>1. \A t \in Credential : disk.tokens[t] # None => disk'.tokens[t] # None
  BY Tables DEF Touches, GrantInv, ProvenanceInv, Keeps
<1>2. CASE pc[s] \in RefreshAwaits
  <2>1. req'[s] = req[s] /\ req[s].cred \in Credential
    BY <1>2, AskedOnce DEF RefreshAwaits, Suspended, RefreshGrant
  <2> QED
    BY <1>1, <1>2, <2>1 DEF LagInv
<1>3. CASE pc[s] \notin RefreshAwaits
  <2>1. s = r
    BY <1>3, OneMoves DEF OneMoving
  <2>2. pc'[r] = "refresh"
    BY <1>3, <2>1, Itinerary DEF Whence, RefreshClient, RefreshGet, RefreshLock, Acquire,
       RotateSelect, ReuseUpdate, RotateUpdate, RotateInsert, At, RefreshAwaits
  <2>3. PICK i \in Request : Arrive(r, i)
    BY <2>2, Itinerary DEF Whence
  <2>4. req'[r] = i /\ i.kind = "refresh" /\ disk' = disk
    BY <2>2, <2>3 DEF Arrive, Goto, FirstAwait, storageVars, KindsAssumption, Request,
       Registration, Authorization, CodeGrant, RefreshGrant, Revocation
  <2>5. i.cred \in Delivered({"code", "refresh"}) \cup Garbage
    BY <2>3, <2>4 DEF Arrive, Presentable
  <2>6. \A t \in Delivered({"code", "refresh"}) : disk.tokens[t] # None
    BY DEF Delivered, GrantInv, StoredInv, Stored
  <2> QED
    BY <2>1, <2>4, <2>5, <2>6
<1> QED
  BY <1>2, <1>3

\* No statement makes two tokens of a chain fresh, none marks a fresh one, and
\* none adds one to a chain that was revoked.
LEMMA FreshStep ==
    ASSUME ForkInv, RevokeInv, Next, GrantInv, LagInv, NEW r \in Req, Work(r),
           disk' = disk, NEW t \in Credential, Fresh(t)'
    PROVE  /\ ~db'.tokens[t].rotated
           /\ \A u \in Credential :
                Fresh(u)' /\ db'.tokens[u].chain = db'.tokens[t].chain => u = t
           /\ \A u \in Credential :
                InChain(disk, db'.tokens[t].chain, u) => ~disk.tokens[u].revoked
<1> USE DEF GrantInv, ProvenanceInv
<1>1. ASSUME NEW u \in Credential, Fresh(u)', db.tokens[u] # None
      PROVE  /\ Fresh(u) /\ db'.tokens[u].chain = db.tokens[u].chain
             /\ ~db'.tokens[u].rotated
  <2>1. Fresh(u) /\ ~db.tokens[u].rotated
    BY <1>1 DEF Fresh, LagInv
  <2>2. RotateUpdate(r) => u # req[r].cred
    BY <2>1, PresentedStored DEF RotateUpdate, At, RefreshAwaits, Fresh
  <2> QED
    BY <1>1, <2>1, <2>2, TokensGrow, TokenRotated DEF SameGrant
<1>2. ASSUME NEW u \in Credential, Fresh(u)', db.tokens[u] = None
      PROVE  /\ u = r /\ ~db'.tokens[r].rotated
             /\ \A v \in Credential :
                  InChain(disk, db'.tokens[r].chain, v) => ~disk.tokens[v].revoked
             /\ \A v \in Credential :
                  Fresh(v) => db.tokens[v].chain # db'.tokens[r].chain
  <2>1. db'.tokens[u] # None
    BY <1>2 DEF Fresh
  <2>2. /\ u = r /\ ~db'.tokens[r].rotated
        /\ \/ RootInsert(r) /\ db'.tokens[r].chain = r
           \/ RotateInsert(r) /\ db'.tokens[r].chain = row[r].chain
    BY <1>2, <2>1, TokenBorn DEF SameGrant
  <2>3. \A v \in Credential : InChain(disk, db'.tokens[r].chain, v) =>
          InChain(db, db'.tokens[r].chain, v) /\ (disk.tokens[v].revoked => db.tokens[v].revoked)
    BY DEF InChain, Keeps, SameGrant
  <2>4. CASE RootInsert(r) /\ db'.tokens[r].chain = r
    <3>1. \A v \in Credential : ~InChain(db, r, v)
      BY <1>2, <2>2 DEF InChain, ForkInv, TableInv, Minted
    <3> QED
      BY <2>2, <2>3, <2>4, <3>1 DEF InChain, Fresh
  <2>5. CASE RotateInsert(r) /\ db'.tokens[r].chain = row[r].chain
    <3>1. pc[r] = "rotate_insert"
      BY <2>5 DEF RotateInsert, At
    <3>2. \A v \in Credential : InChain(db, row[r].chain, v) =>
            ~db.tokens[v].revoked /\ db.tokens[v].rotated
      BY <3>1 DEF RevokeInv, RotatingUnrevoked, ForkInv, TableInv, Rotating, LiveIn, InChain
    <3>3. \A v \in Credential : Fresh(v) => ~db.tokens[v].rotated
      BY DEF LagInv
    <3> QED
      BY <2>2, <2>3, <2>5, <3>2, <3>3 DEF InChain, Fresh
  <2> QED
    BY <2>2, <2>4, <2>5
<1>3. CASE db.tokens[t] # None
  BY <1>1, <1>2, <1>3 DEF LagInv
<1>4. CASE db.tokens[t] = None
  BY <1>1, <1>2, <1>4
<1> QED
  BY <1>3, <1>4

\* Only a reuse revokes, of a chain the file knows.
LEMMA RevokedKnown ==
    ASSUME ForkInv, "revoke" \notin Kinds, Next, GrantInv, LagInv, NEW r \in Req, Work(r),
           NEW t \in Credential, db'.tokens[t] # None, db'.tokens[t].revoked
    PROVE  \E u \in Credential : InChain(disk', db'.tokens[t].chain, u)
<1> USE DEF GrantInv, ProvenanceInv
<1>1. \A u \in Credential : disk.tokens[u] # None =>
        disk'.tokens[u] # None /\ disk'.tokens[u].chain = disk.tokens[u].chain
  BY Tables DEF Touches, Keeps, SameGrant
<1>2. db.tokens[t] # None
  BY TokenBorn
<1>3. db'.tokens[t].chain = db.tokens[t].chain
  BY <1>2, TokensGrow DEF SameGrant
<1>4. CASE db.tokens[t].revoked
  BY <1>1, <1>2, <1>3, <1>4 DEF LagInv, InChain
<1>5. CASE ~db.tokens[t].revoked
  <2>1. ReuseUpdate(r) /\ InChain(db, row[r].chain, t)
    <3>1. db.tokens[t] \in TokenRow /\ db'.tokens # db.tokens
      BY <1>2, <1>5 DEF ForkInv, ControlInv, TypeOK, StorageTypeOK, Database
    <3>2. ~RootInsert(r) /\ ~RotateInsert(r)
      <4>1. CASE RootInsert(r) \/ RotateInsert(r)
        <5>1. t # r
          BY <1>2, <4>1 DEF RootInsert, RotateInsert, At, ForkInv, TableInv, Minted,
             Settled, Answers, Credential
        <5> QED
          BY <1>5, <4>1, <5>1 DEF RootInsert, RotateInsert, InsertToken, Database, ForkInv,
             ControlInv, TypeOK, StorageTypeOK
      <4> QED
        BY <4>1
    <3>3. ~RotateUpdate(r)
      <4>1. CASE RotateUpdate(r)
        <5>1. req[r].cred \in Credential /\ db.tokens[req[r].cred] # None
          BY <4>1, PresentedStored DEF RotateUpdate, At, RefreshAwaits
        <5> QED
          BY <1>5, <3>1, <4>1, <5>1, UpdateRotatedEffect
             DEF RotateUpdate, TokenRow, ForkInv, ControlInv, TypeOK, StorageTypeOK
      <4> QED
        BY <4>1
    <3>4. ~RevokeUpdate(r)
      BY DEF RevokeUpdate, At, ForkInv, ControlInv, Suspended, RevokeAwaits
    <3>5. ReuseUpdate(r)
      BY <3>1, <3>2, <3>3, <3>4, Tables DEF Touches
    <3> QED
      BY <1>5, <3>5, UpdateRevokedEffect
         DEF ReuseUpdate, ForkInv, ControlInv, TypeOK, StorageTypeOK
  <2>2. /\ req[r].cred \in Credential /\ disk.tokens[req[r].cred] # None
        /\ disk.tokens[req[r].cred].chain = row[r].chain
    BY <2>1, PresentedStored DEF ReuseUpdate, At, RefreshAwaits, ReadRows, HasRead, SameGrant
  <2> QED
    BY <1>1, <1>3, <2>1, <2>2 DEF InChain
<1> QED
  BY <1>4, <1>5

LEMMA LagStep ==
    ASSUME ForkInv, RevokeInv, "revoke" \notin Kinds, [Next]_vars, GrantInv, LagInv
    PROVE  LagInv'
<1>1. ASSUME Next, NEW r \in Req, Work(r)
      PROVE  LagInv'
  <2>1. ASSUME NEW t \in Credential, Fresh(t)'
        PROVE  disk' = disk
    BY <1>1, <2>1, Tables DEF Touches, Fresh
  <2>2. ASSUME NEW t \in Credential, Fresh(t)'
        PROVE  /\ ~db'.tokens[t].rotated
               /\ \A u \in Credential :
                    Fresh(u)' /\ db'.tokens[u].chain = db'.tokens[t].chain => u = t
               /\ \A u \in Credential :
                    InChain(disk', db'.tokens[t].chain, u) => ~disk'.tokens[u].revoked
    BY <1>1, <2>1, <2>2, FreshStep DEF InChain
  <2> QED
    BY <1>1, <2>2, PresentedStep, RevokedKnown DEF LagInv, InChain, Fresh
<1>2. CASE Next /\ Crash
  BY <1>2, Restarted DEF LagInv, Fresh, InChain, RefreshAwaits, Answers
<1>3. CASE Rest
  BY <1>3 DEF Rest, handlerVars, LagInv, Fresh, InChain
<1>4. CASE UNCHANGED vars
  BY <1>3, <1>4 DEF Rest, vars, storageVars
<1>5. CASE Next
  BY <1>1, <1>2, <1>3, <1>5, WhoseStep
<1> QED
  BY <1>4, <1>5

-----------------------------------------------------------------------------
(* The lifecycle of a chain.                                                *)

\* The phase of a chain in which at most one token is live, and none if one
\* was revoked.
LEMMA Phases ==
    ASSUME NEW d, OneLive(d), RevokedDead(d), NEW ch \in Req
    PROVE  /\ Members(d, ch) = {} =>
                GrantOf(d, ch) = [phase |-> "unborn", holder |-> None, past |-> {}]
           /\ Revoked(d, ch) # {} =>
                GrantOf(d, ch) = [phase |-> "dead", holder |-> None, past |-> Members(d, ch)]
           /\ Members(d, ch) # {} /\ Revoked(d, ch) = {} /\ Spendable(d, ch) = {} =>
                GrantOf(d, ch) = [phase |-> "stranded", holder |-> None, past |-> Members(d, ch)]
           /\ \A t \in Spendable(d, ch) :
                /\ Spendable(d, ch) = {t} /\ Revoked(d, ch) = {}
                /\ GrantOf(d, ch) = [phase |-> "active", holder |-> t,
                                     past |-> Members(d, ch) \ {t}]
<1> DEFINE members == Members(d, ch)
           live == Spendable(d, ch)
           revoked == Revoked(d, ch)
<1>1. live \subseteq members /\ revoked \subseteq members
  BY DEF Spendable, Revoked
<1>2. ASSUME NEW t \in live PROVE live = {t} /\ revoked = {}
  <2>1. ASSUME NEW u \in live PROVE u = t
    BY <1>2, <2>1 DEF Spendable, Members, InChain, OneLive, Credential
  <2>2. ASSUME NEW u \in revoked PROVE FALSE
    BY <1>2, <2>2 DEF Spendable, Revoked, Members, InChain, RevokedDead, Credential
  <2> QED
    BY <1>2, <2>1, <2>2
<1>3. GrantOf(d, ch) =
        [phase |-> CASE members = {} -> "unborn"
                     [] revoked # {} /\ live = {}     -> "dead"
                     [] revoked = {} /\ \E t \in live : live = {t} -> "active"
                     [] members # {} /\ revoked = {} /\ live = {}  -> "stranded"
                     [] OTHER                         -> "forked",
         holder |-> IF \E t \in live : live = {t} THEN CHOOSE t \in live : TRUE ELSE None,
         past |-> members \ live]
  BY DEF GrantOf
<1> HIDE DEF members, live, revoked
<1>4. ASSUME members = {}
      PROVE  GrantOf(d, ch) = [phase |-> "unborn", holder |-> None, past |-> {}]
  BY <1>1, <1>3, <1>4
<1>5. ASSUME revoked # {}
      PROVE  GrantOf(d, ch) = [phase |-> "dead", holder |-> None, past |-> members]
  BY <1>1, <1>2, <1>3, <1>5
<1>6. ASSUME members # {}, revoked = {}, live = {}
      PROVE  GrantOf(d, ch) = [phase |-> "stranded", holder |-> None, past |-> members]
  BY <1>3, <1>6
<1>7. ASSUME NEW t \in live
      PROVE  GrantOf(d, ch) = [phase |-> "active", holder |-> t, past |-> members \ {t}]
  <2>1. live = {t} /\ revoked = {} /\ members # {}
    BY <1>1, <1>2, <1>7
  <2>2. (CHOOSE u \in live : TRUE) = t
    BY <2>1
  <2> QED
    BY <1>3, <2>1, <2>2
<1> QED
  BY <1>2, <1>4, <1>5, <1>6, <1>7 DEF members, live, revoked

\* What the next commit does to a chain is a step of its lifecycle.
LEMMA CommitLives ==
    ASSUME ForkInv, RevokeInv, GrantInv, LagInv, NEW ch \in Req
    PROVE  \/ GrantOf(db, ch) = GrantOf(disk, ch)
           \/ Lifecycle!Lives(GrantOf(disk, ch), GrantOf(db, ch))
<1> DEFINE old == Members(disk, ch)
           new == Members(db, ch)
<1>1. OneLive(disk) /\ OneLive(db) /\ RevokedDead(disk) /\ RevokedDead(db)
  BY DEF ForkInv, TableInv, RevokeInv
<1>2. old \subseteq new /\ Revoked(disk, ch) \subseteq Revoked(db, ch)
  BY DEF GrantInv, ProvenanceInv, Keeps, SameGrant, Members, Revoked, InChain, Credential
<1>3. ASSUME NEW t \in new \ old
      PROVE  /\ t \in Req /\ Fresh(t) /\ new = old \cup {t} /\ Revoked(disk, ch) = {}
             /\ ~db.tokens[t].revoked => t \in Spendable(db, ch)
  <2>1. ASSUME NEW u \in new \ old PROVE Fresh(u) /\ u \in Credential
    BY <2>1 DEF Members, InChain, Fresh, GrantInv, ProvenanceInv, Keeps, SameGrant, Credential
  <2>2. \A u \in new \ old : u = t
    BY <1>3, <2>1 DEF LagInv, Members, InChain
  <2>3. Revoked(disk, ch) = {}
    BY <1>3, <2>1 DEF LagInv, Revoked, Members, InChain, Credential
  <2>4. ~db.tokens[t].rotated
    BY <1>3, <2>1 DEF LagInv
  <2> QED
    BY <1>2, <1>3, <2>1, <2>2, <2>3, <2>4 DEF Spendable, LiveIn, Members, InChain
<1>4. CASE old = {}
  <2>1. Revoked(db, ch) = {}
    BY <1>4 DEF LagInv, Revoked, Members, InChain, Credential, GrantInv, ProvenanceInv, TokenRows
  <2>2. CASE new = {}
    BY <1>1, <1>4, <2>2, Phases
  <2>3. ASSUME NEW t \in new PROVE Lifecycle!Opens(GrantOf(disk, ch), GrantOf(db, ch))
    <3>1. t \in Spendable(db, ch) /\ new = {t} /\ t \in Req
      BY <1>3, <1>4, <2>1, <2>3 DEF Revoked
    <3>2. /\ GrantOf(disk, ch) = [phase |-> "unborn", holder |-> None, past |-> {}]
          /\ GrantOf(db, ch) = [phase |-> "active", holder |-> t, past |-> new \ {t}]
      BY <1>1, <1>4, <3>1, Phases
    <3> QED
      BY <3>1, <3>2 DEF Lifecycle!Opens
  <2> QED
    BY <2>2, <2>3 DEF Lifecycle!Lives
<1>5. CASE Revoked(disk, ch) # {}
  <2>1. new = old
    BY <1>2, <1>3, <1>5
  <2> QED
    BY <1>1, <1>2, <1>5, <2>1, Phases
<1>6. ASSUME NEW t \in Spendable(disk, ch)
      PROVE  \/ GrantOf(db, ch) = GrantOf(disk, ch)
             \/ Lifecycle!Lives(GrantOf(disk, ch), GrantOf(db, ch))
  <2>1. /\ t \in old /\ t \in Req /\ Spendable(disk, ch) = {t} /\ Revoked(disk, ch) = {}
        /\ GrantOf(disk, ch) = [phase |-> "active", holder |-> t, past |-> old \ {t}]
    BY <1>1, <1>6, Phases DEF Spendable, Members
  <2>2. CASE Revoked(db, ch) # {}
    <3>1. GrantOf(db, ch) = [phase |-> "dead", holder |-> None, past |-> new]
      BY <1>1, <2>2, Phases
    <3>2. Lifecycle!Dies(GrantOf(disk, ch), GrantOf(db, ch))
      BY <1>2, <2>1, <3>1 DEF Lifecycle!Dies
    <3> QED
      BY <3>2 DEF Lifecycle!Lives
  <2>3. CASE Revoked(db, ch) = {} /\ t \in Spendable(db, ch)
    <3>1. Spendable(db, ch) = {t} /\ GrantOf(db, ch) = [phase |-> "active", holder |-> t, past |-> new \ {t}]
      BY <1>1, <2>3, Phases
    <3>2. new = old
      BY <1>2, <1>3, <2>1, <2>3, <3>1 DEF Revoked
    <3> QED
      BY <2>1, <3>1, <3>2
  <2>4. CASE Revoked(db, ch) = {} /\ t \notin Spendable(db, ch)
    <3>1. \A u \in old : u \notin Spendable(db, ch)
      BY <1>2, <2>1, <2>4 DEF Spendable, LiveIn, Revoked, Members, InChain, GrantInv,
         ProvenanceInv, Keeps, Credential
    <3>2. CASE new = old
      <4>1. Spendable(db, ch) = {} /\ new # {}
        BY <2>1, <3>1, <3>2 DEF Spendable
      <4>2. GrantOf(db, ch) = [phase |-> "stranded", holder |-> None, past |-> new]
        BY <1>1, <2>4, <4>1, Phases
      <4>3. Lifecycle!Strands(GrantOf(disk, ch), GrantOf(db, ch))
        BY <2>1, <3>2, <4>2 DEF Lifecycle!Strands
      <4> QED
        BY <4>3 DEF Lifecycle!Lives
    <3>3. ASSUME NEW u \in new \ old PROVE Lifecycle!Rotates(GrantOf(disk, ch), GrantOf(db, ch))
      <4>1. u \in Req /\ u \in Spendable(db, ch) /\ new = old \cup {u}
        BY <1>3, <2>4, <3>3 DEF Revoked
      <4>2. GrantOf(db, ch) = [phase |-> "active", holder |-> u, past |-> new \ {u}]
        BY <1>1, <4>1, Phases
      <4>3. new \ {u} = (old \ {t}) \cup {t}
        BY <2>1, <3>3, <4>1
      <4> QED
        BY <2>1, <3>3, <4>1, <4>2, <4>3 DEF Lifecycle!Rotates
    <3> QED
      BY <1>2, <3>2, <3>3 DEF Lifecycle!Lives
  <2> QED
    BY <2>2, <2>3, <2>4
<1>7. CASE old # {} /\ Revoked(disk, ch) = {} /\ Spendable(disk, ch) = {}
  <2>1. GrantOf(disk, ch) = [phase |-> "stranded", holder |-> None, past |-> old]
    BY <1>1, <1>7, Phases
  <2>2. CASE Revoked(db, ch) # {}
    <3>1. GrantOf(db, ch) = [phase |-> "dead", holder |-> None, past |-> new]
      BY <1>1, <2>2, Phases
    <3>2. Lifecycle!Dies(GrantOf(disk, ch), GrantOf(db, ch))
      BY <1>2, <2>1, <3>1 DEF Lifecycle!Dies
    <3> QED
      BY <3>2 DEF Lifecycle!Lives
  <2>3. CASE Revoked(db, ch) = {}
    <3>1. \A u \in old : u \notin Spendable(db, ch)
      BY <1>7 DEF Spendable, LiveIn, Revoked, Members, InChain, GrantInv,
         ProvenanceInv, Keeps, Credential
    <3>2. CASE new = old
      <4>1. Spendable(db, ch) = {} /\ new # {}
        BY <1>7, <3>1, <3>2 DEF Spendable
      <4> QED
        BY <1>1, <2>1, <2>3, <3>2, <4>1, Phases
    <3>3. ASSUME NEW u \in new \ old PROVE Lifecycle!Resumes(GrantOf(disk, ch), GrantOf(db, ch))
      <4>1. u \in Req /\ u \in Spendable(db, ch) /\ new = old \cup {u}
        BY <1>3, <2>3, <3>3 DEF Revoked
      <4>2. GrantOf(db, ch) = [phase |-> "active", holder |-> u, past |-> new \ {u}]
        BY <1>1, <4>1, Phases
      <4>3. new \ {u} = old
        BY <3>3, <4>1
      <4> QED
        BY <2>1, <3>3, <4>1, <4>2, <4>3 DEF Lifecycle!Resumes
    <3> QED
      BY <1>2, <3>2, <3>3 DEF Lifecycle!Lives
  <2> QED
    BY <2>2, <2>3
<1> QED
  BY <1>4, <1>5, <1>6, <1>7

\* A commit makes the file's chains those of the tables.
LEMMA GrantsCommitted ==
    ASSUME NEW ch \in Req, disk' = db
    PROVE  GrantOf(disk, ch)' = GrantOf(db, ch)
<1>1. Members(disk, ch)' = Members(db, ch)
  BY DEF Members, InChain
<1>2. Spendable(disk, ch)' = Spendable(db, ch)
  BY <1>1 DEF Spendable, LiveIn
<1>3. Revoked(disk, ch)' = Revoked(db, ch)
  BY <1>1 DEF Revoked
<1> QED
  BY <1>1, <1>2, <1>3 DEF GrantOf

\* While only the HTTP routes use the store, no commit of any coroutine, no
\* failure and no restart moves a chain of the file otherwise than its
\* lifecycle allows: at most one spendable token, no token that comes back and
\* no way out of a revoked chain.
THEOREM ChainsLive ==
    ASSUME "revoke" \notin Kinds
    PROVE  Spec => ChainsFollowLifecycle
<1> DEFINE Inv == ForkInv /\ GrantInv /\ RevokeInv /\ LagInv
           grants == [ch \in Req |-> GrantOf(disk, ch)]
<1>1. Init => RevokeInv /\ LagInv /\ Lifecycle!Init
  <2> SUFFICES ASSUME Init PROVE RevokeInv /\ LagInv /\ Lifecycle!Init
    OBVIOUS
  <2>1. \A t \in Credential : db.tokens[t] = None /\ disk.tokens[t] = None
    BY DEF Init, StorageInit, EmptyDatabase
  <2>2. RevokeInv /\ LagInv
    BY <2>1 DEF Init, RevokeInv, RevokedDead, RotatingUnrevoked, LagInv, Fresh, InChain,
       RefreshAwaits
  <2>3. \A ch \in Req : Members(disk, ch) = {}
    BY <2>1 DEF Members, InChain, Credential
  <2>4. OneLive(disk) /\ RevokedDead(disk)
    BY <2>1 DEF OneLive, RevokedDead, LiveIn
  <2>5. \A ch \in Req : GrantOf(disk, ch) = [phase |-> "unborn", holder |-> None, past |-> {}]
    BY <2>3, <2>4, Phases
  <2> QED
    BY <2>2, <2>5 DEF Lifecycle!Init
<1>2. Inv /\ [Next]_vars => RevokeInv' /\ LagInv'
  <2> SUFFICES ASSUME Inv, [Next]_vars PROVE RevokeInv' /\ LagInv'
    OBVIOUS
  <2>1. ASSUME Next PROVE RevokeInv'
    BY <2>1, RevokeInvStep
  <2>2. ASSUME UNCHANGED vars PROVE RevokeInv'
    BY <2>2 DEF vars, storageVars, handlerVars, RevokeInv, RevokedDead, LiveIn,
       RotatingUnrevoked, InChain
  <2> QED
    BY <2>1, <2>2, LagStep
<1>3. Inv /\ [Next]_vars => [Lifecycle!Next]_grants
  <2> SUFFICES ASSUME Inv, [Next]_vars PROVE [Lifecycle!Next]_grants
    OBVIOUS
  <2>1. CASE disk' = disk
    BY <2>1 DEF GrantOf, Members, Spendable, Revoked, InChain, LiveIn
  <2>2. CASE disk' = db
    <3>1. \A ch \in Req : grants[ch] = GrantOf(disk, ch) /\ grants'[ch] = GrantOf(db, ch)
      BY <2>2, GrantsCommitted
    <3> QED
      BY <3>1, CommitLives DEF Lifecycle!Next
  <2> QED
    BY <2>1, <2>2, WhoseStep, Tables, Restarted DEF Touches, Rest, vars, storageVars
<1> QED
  BY <1>1, <1>2, <1>3, GrantInvariance, PTL DEF Spec, ChainsFollowLifecycle, Lifecycle!Spec
=============================================================================
