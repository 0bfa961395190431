------------------------- MODULE TokenEndpointProofs -------------------------
(***************************************************************************)
(* Proofs about TokenEndpoint, for any set of requests, clients, users,    *)
(* scopes and any time bounds.                                             *)
(***************************************************************************)
EXTENDS TokenInvariants, TLAPS

-----------------------------------------------------------------------------
(* What the statements do to the tables.                                    *)

\* INSERT of a token changes that row and nothing else.
LEMMA InsertTokenEffect ==
    ASSUME db \in Database, NEW t \in Credential, NEW rw \in TokenRow,
           InsertToken(t, rw)
    PROVE  /\ db' \in Database
           /\ db'.tokens[t] = rw
           /\ \A u \in Credential \ {t} : db'.tokens[u] = db.tokens[u]
  BY DEF InsertToken, Database

\* UPDATE of rotated_at changes that flag of an existing row and nothing else.
LEMMA UpdateRotatedEffect ==
    ASSUME db \in Database, NEW t \in Credential, db.tokens[t] # None,
           UpdateRotated(t)
    PROVE  /\ db' \in Database
           /\ db'.tokens[t] = [db.tokens[t] EXCEPT !.rotated = TRUE]
           /\ db'.tokens[t] \in TokenRow
           /\ \A u \in Credential \ {t} : db'.tokens[u] = db.tokens[u]
<1>1. db.tokens[t] \in TokenRow
  BY DEF Database
<1>2. [db.tokens[t] EXCEPT !.rotated = TRUE] \in TokenRow
  BY <1>1 DEF TokenRow
<1> QED
  BY <1>1, <1>2 DEF UpdateRotated, Database

\* UPDATE of revoked_at marks the members of the chain and nothing else.
LEMMA UpdateRevokedEffect ==
    ASSUME db \in Database, NEW ch, UpdateRevoked(ch)
    PROVE  /\ db' \in Database
           /\ \A u \in Credential : InChain(db, ch, u) =>
                /\ db'.tokens[u] = [db.tokens[u] EXCEPT !.revoked = TRUE]
                /\ db'.tokens[u] \in TokenRow
           /\ \A u \in Credential : ~InChain(db, ch, u) =>
                db'.tokens[u] = db.tokens[u]
<1> DEFINE T == [t \in Credential |-> IF InChain(db, ch, t)
                                   THEN [db.tokens[t] EXCEPT !.revoked = TRUE]
                                   ELSE db.tokens[t]]
<1>1. ASSUME NEW u \in Credential, InChain(db, ch, u)
      PROVE  [db.tokens[u] EXCEPT !.revoked = TRUE] \in TokenRow
  <2>1. db.tokens[u] \in TokenRow
    BY <1>1 DEF Database, InChain
  <2> QED
    BY <2>1 DEF TokenRow
<1>2. T \in [Credential -> TokenRow \cup {None}]
  BY <1>1 DEF Database
<1>3. db' = [db EXCEPT !.tokens = T]
  BY DEF UpdateRevoked
<1>4. db' \in Database /\ db'.tokens = T
  BY <1>2, <1>3 DEF Database
<1> QED
  BY <1>1, <1>4

\* UPDATE of consumed_at keeps the tables well formed and the tokens as they
\* were.
LEMMA UpdateConsumedEffect ==
    ASSUME db \in Database, NEW c \in Credential, db.codes[c] # None,
           UpdateConsumed(c)
    PROVE  db' \in Database /\ db'.tokens = db.tokens
<1>1. db.codes[c] \in CodeRow
  BY DEF Database
<1>2. [db.codes[c] EXCEPT !.consumed = TRUE] \in CodeRow
  BY <1>1 DEF CodeRow
<1> QED
  BY <1>1, <1>2 DEF UpdateConsumed, Database

\* The other two INSERTs.
LEMMA InsertCodeEffect ==
    ASSUME db \in Database, NEW c \in Credential, NEW rw \in CodeRow,
           InsertCode(c, rw)
    PROVE  db' \in Database /\ db'.tokens = db.tokens
  BY DEF InsertCode, Database

LEMMA InsertClientEffect ==
    ASSUME db \in Database, NEW c \in Client, NEW uris \in SUBSET Redirect,
           InsertClient(c, uris)
    PROVE  db' \in Database /\ db'.tokens = db.tokens
  BY DEF InsertClient, Database

-----------------------------------------------------------------------------
(* Control: types, suspended handlers, the lock.                            *)

\* Each step leaves a suspended handler with the request and record it needs.
LEMMA SuspendedStep ==
    ASSUME ForkInv, Next
    PROVE  Suspended'
<1> USE DEF ForkInv, ControlInv, TypeOK, StorageTypeOK, Suspended, At, Goto, Answer, Read, ReadClock, InFlight, WaitsForLock, InLock, OutOfLock, Answers, RegisterAwaits, AuthorizeAwaits, CodeAwaits, RefreshAwaits, RevokeAwaits
<1>1. ASSUME NEW r \in Req, NEW i \in Request, Arrive(r, i) PROVE Suspended'
  BY <1>1 DEF Arrive, Presentable, FirstAwait, storageVars, Request, Registration, Authorization, CodeGrant, RefreshGrant, Revocation
<1>2. ASSUME NEW r \in Req, RegisterInsert(r) PROVE Suspended'
  BY <1>2 DEF RegisterInsert
<1>3. ASSUME NEW r \in Req, RegisterCommit(r) PROVE Suspended'
  BY <1>3 DEF RegisterCommit, CommitThen, CommitAllowed, Commit
<1>4. ASSUME NEW r \in Req, AuthorizeClient(r) PROVE Suspended'
  BY <1>4 DEF AuthorizeClient, storageVars
<1>5. ASSUME NEW r \in Req, AuthorizeInsert(r) PROVE Suspended'
  BY <1>5 DEF AuthorizeInsert
<1>6. ASSUME NEW r \in Req, AuthorizeCommit(r) PROVE Suspended'
  BY <1>6 DEF AuthorizeCommit, CommitThen, CommitAllowed, Commit
<1>7. ASSUME NEW r \in Req, CodeClient(r) PROVE Suspended'
  BY <1>7 DEF CodeClient, storageVars
<1>8. ASSUME NEW r \in Req, CodeLock(r) PROVE Suspended'
  BY <1>8 DEF CodeLock, Acquire
<1>9. ASSUME NEW r \in Req, CodeUpdate(r) PROVE Suspended'
  <2>1. req[r] \in CodeGrant
    BY <1>9 DEF CodeUpdate
  <2>2. db.codes[req[r].cred] \in CodeRow \cup {None}
    BY <2>1 DEF CodeGrant, Database
  <2>3. row'[r] = row[r] \/ row'[r] = db.codes[req[r].cred]
    BY <1>9 DEF CodeUpdate
  <2>4. \A q \in Req \ {r} : pc'[q] = pc[q] /\ row'[q] = row[q]
    BY <1>9 DEF CodeUpdate
  <2>5. req' = req /\ pc'[r] = "code_fetch"
    BY <1>9 DEF CodeUpdate
  <2>6. row'[r] \in CodeRow \cup {None}
    BY <1>9, <2>2 DEF CodeUpdate, Consumable
  <2> QED
    BY <2>1, <2>4, <2>5, <2>6
<1>10. ASSUME NEW r \in Req, CodeFetch(r) PROVE Suspended'
  BY <1>10 DEF CodeFetch
<1>11. ASSUME NEW r \in Req, CodeCommit(r) PROVE Suspended'
  BY <1>11, NoneAssumption DEF CodeCommit, CommitThen, CommitAllowed, Commit, RedeemsOwnCode
<1>12. ASSUME NEW r \in Req, RootInsert(r) PROVE Suspended'
  BY <1>12 DEF RootInsert
<1>13. ASSUME NEW r \in Req, RootCommit(r) PROVE Suspended'
  BY <1>13 DEF RootCommit, Issue, CommitThen, CommitAllowed, Commit
<1>14. ASSUME NEW r \in Req, RefreshClient(r) PROVE Suspended'
  BY <1>14 DEF RefreshClient, storageVars
<1>15. ASSUME NEW r \in Req, RefreshGet(r) PROVE Suspended'
  BY <1>15, NoneAssumption DEF RefreshGet, storageVars, OwnsToken, Database, RefreshGrant, Release
<1>16. ASSUME NEW r \in Req, RefreshLock(r) PROVE Suspended'
  BY <1>16 DEF RefreshLock, Acquire
<1>17. ASSUME NEW r \in Req, RotateSelect(r) PROVE Suspended'
  BY <1>17, NoneAssumption DEF RotateSelect, Database, RefreshGrant, Release
<1>18. ASSUME NEW r \in Req, ReuseUpdate(r) PROVE Suspended'
  BY <1>18 DEF ReuseUpdate
<1>19. ASSUME NEW r \in Req, ReuseCommit(r) PROVE Suspended'
  BY <1>19 DEF ReuseCommit, CommitThen, CommitAllowed, Commit
<1>20. ASSUME NEW r \in Req, RotateUpdate(r) PROVE Suspended'
  BY <1>20 DEF RotateUpdate
<1>21. ASSUME NEW r \in Req, RotateInsert(r) PROVE Suspended'
  BY <1>21 DEF RotateInsert
<1>22. ASSUME NEW r \in Req, RotateCommit(r) PROVE Suspended'
  BY <1>22 DEF RotateCommit, Issue, CommitThen, CommitAllowed, Commit
<1>23. ASSUME NEW r \in Req, RevokeUpdate(r) PROVE Suspended'
  BY <1>23 DEF RevokeUpdate
<1>24. ASSUME NEW r \in Req, RevokeCommit(r) PROVE Suspended'
  BY <1>24 DEF RevokeCommit, CommitThen, CommitAllowed, Commit
<1>25. ASSUME NEW r \in Req, StatementFails(r) PROVE Suspended'
  BY <1>25 DEF StatementFails
<1>26. CASE Crash
  BY <1>26 DEF Crash, Reopen
<1>27. CASE TimePasses
  BY <1>27 DEF TimePasses, Tick, handlerVars
<1>28. CASE Finished
  BY <1>28 DEF Finished, vars, storageVars, handlerVars
<1> QED
  BY <1>1, <1>2, <1>3, <1>4, <1>5, <1>6, <1>7, <1>8, <1>9, <1>10, <1>11, <1>12, <1>13, <1>14, <1>15, <1>16, <1>17, <1>18, <1>19, <1>20, <1>21, <1>22, <1>23, <1>24, <1>25, <1>26, <1>27, <1>28 DEF Next, Handle

\* Each step leaves the lock with the handler inside the locked section.
LEMMA LockStep ==
    ASSUME ForkInv, Next
    PROVE  LockInv'
<1> USE DEF ForkInv, ControlInv, TypeOK, StorageTypeOK, LockInv, At, Goto, Answer, Release, InFlight, WaitsForLock, InLock, OutOfLock, Answers
<1>1. ASSUME NEW r \in Req, NEW i \in Request, Arrive(r, i) PROVE LockInv'
  BY <1>1, NoneAssumption DEF Arrive, Presentable, FirstAwait, storageVars, Request, Registration, Authorization, CodeGrant, RefreshGrant, Revocation, Client
<1>2. ASSUME NEW r \in Req, RegisterInsert(r) PROVE LockInv'
  BY <1>2, NoneAssumption DEF RegisterInsert, Client
<1>3. ASSUME NEW r \in Req, RegisterCommit(r) PROVE LockInv'
  BY <1>3, NoneAssumption DEF RegisterCommit, CommitThen, CommitAllowed, Commit, Client
<1>4. ASSUME NEW r \in Req, AuthorizeClient(r) PROVE LockInv'
  BY <1>4, NoneAssumption DEF AuthorizeClient, storageVars, Client
<1>5. ASSUME NEW r \in Req, AuthorizeInsert(r) PROVE LockInv'
  BY <1>5, NoneAssumption DEF AuthorizeInsert, Client
<1>6. ASSUME NEW r \in Req, AuthorizeCommit(r) PROVE LockInv'
  BY <1>6, NoneAssumption DEF AuthorizeCommit, CommitThen, CommitAllowed, Commit, Client
<1>7. ASSUME NEW r \in Req, CodeClient(r) PROVE LockInv'
  BY <1>7, NoneAssumption DEF CodeClient, storageVars, Client
<1>8. ASSUME NEW r \in Req, CodeLock(r) PROVE LockInv'
  BY <1>8, NoneAssumption DEF CodeLock, Acquire, Client
<1>9. ASSUME NEW r \in Req, CodeUpdate(r) PROVE LockInv'
  BY <1>9, NoneAssumption DEF CodeUpdate, Client
<1>10. ASSUME NEW r \in Req, CodeFetch(r) PROVE LockInv'
  BY <1>10, NoneAssumption DEF CodeFetch, Client
<1>11. ASSUME NEW r \in Req, CodeCommit(r) PROVE LockInv'
  BY <1>11, NoneAssumption DEF CodeCommit, CommitThen, CommitAllowed, Commit, Client
<1>12. ASSUME NEW r \in Req, RootInsert(r) PROVE LockInv'
  BY <1>12, NoneAssumption DEF RootInsert, Client
<1>13. ASSUME NEW r \in Req, RootCommit(r) PROVE LockInv'
  BY <1>13, NoneAssumption DEF RootCommit, Issue, CommitThen, CommitAllowed, Commit, Client
<1>14. ASSUME NEW r \in Req, RefreshClient(r) PROVE LockInv'
  BY <1>14, NoneAssumption DEF RefreshClient, storageVars, Client
<1>15. ASSUME NEW r \in Req, RefreshGet(r) PROVE LockInv'
  BY <1>15, NoneAssumption DEF RefreshGet, storageVars, OwnsToken, Client
<1>16. ASSUME NEW r \in Req, RefreshLock(r) PROVE LockInv'
  BY <1>16, NoneAssumption DEF RefreshLock, Acquire, Client
<1>17. ASSUME NEW r \in Req, RotateSelect(r) PROVE LockInv'
  BY <1>17, NoneAssumption DEF RotateSelect, Client
<1>18. ASSUME NEW r \in Req, ReuseUpdate(r) PROVE LockInv'
  BY <1>18, NoneAssumption DEF ReuseUpdate, Client
<1>19. ASSUME NEW r \in Req, ReuseCommit(r) PROVE LockInv'
  BY <1>19, NoneAssumption DEF ReuseCommit, CommitThen, CommitAllowed, Commit, Client
<1>20. ASSUME NEW r \in Req, RotateUpdate(r) PROVE LockInv'
  BY <1>20, NoneAssumption DEF RotateUpdate, Client
<1>21. ASSUME NEW r \in Req, RotateInsert(r) PROVE LockInv'
  BY <1>21, NoneAssumption DEF RotateInsert, Client
<1>22. ASSUME NEW r \in Req, RotateCommit(r) PROVE LockInv'
  BY <1>22, NoneAssumption DEF RotateCommit, Issue, CommitThen, CommitAllowed, Commit, Client
<1>23. ASSUME NEW r \in Req, RevokeUpdate(r) PROVE LockInv'
  BY <1>23, NoneAssumption DEF RevokeUpdate, Client
<1>24. ASSUME NEW r \in Req, RevokeCommit(r) PROVE LockInv'
  BY <1>24, NoneAssumption DEF RevokeCommit, CommitThen, CommitAllowed, Commit, Client
<1>25. ASSUME NEW r \in Req, StatementFails(r) PROVE LockInv'
  BY <1>25, NoneAssumption DEF StatementFails, Client
<1>26. CASE Crash
  BY <1>26, NoneAssumption DEF Crash, Reopen, Client
<1>27. CASE TimePasses
  BY <1>27, NoneAssumption DEF TimePasses, Tick, handlerVars, Client
<1>28. CASE Finished
  BY <1>28, NoneAssumption DEF Finished, vars, storageVars, handlerVars, Client
<1> QED
  BY <1>1, <1>2, <1>3, <1>4, <1>5, <1>6, <1>7, <1>8, <1>9, <1>10, <1>11, <1>12, <1>13, <1>14, <1>15, <1>16, <1>17, <1>18, <1>19, <1>20, <1>21, <1>22, <1>23, <1>24, <1>25, <1>26, <1>27, <1>28 DEF Next, Handle

\* Each step keeps the types.
LEMMA TypeStep ==
    ASSUME ForkInv, Next
    PROVE  TypeOK'
<1> USE DEF ForkInv, ControlInv, TypeOK, StorageTypeOK, Suspended, TableInv, Rotating, At, Goto, Answer, Read, ReadClock, Release, InFlight, WaitsForLock, InLock, OutOfLock, Answers, RegisterAwaits, AuthorizeAwaits, CodeAwaits, RefreshAwaits, RevokeAwaits
<1>1. ASSUME NEW r \in Req, NEW i \in Request, Arrive(r, i) PROVE TypeOK'
  <2>1. i.kind \in {"register", "authorize", "code", "refresh", "revoke"}
    BY DEF Request, Registration, Authorization, CodeGrant, RefreshGrant, Revocation
  <2>2. FirstAwait(i) \in InFlight
    BY <2>1 DEF FirstAwait
  <2> QED
    BY <1>1, <2>2 DEF Arrive, storageVars
<1>2. ASSUME NEW r \in Req, RegisterInsert(r) PROVE TypeOK'
  BY <1>2, InsertClientEffect DEF RegisterInsert, Registration, Client
<1>3. ASSUME NEW r \in Req, RegisterCommit(r) PROVE TypeOK'
  BY <1>3 DEF RegisterCommit, CommitThen, CommitAllowed, Commit
<1>4. ASSUME NEW r \in Req, AuthorizeClient(r) PROVE TypeOK'
  BY <1>4 DEF AuthorizeClient, storageVars
<1>5. ASSUME NEW r \in Req, AuthorizeInsert(r) PROVE TypeOK'
  <2> DEFINE rw == [client    |-> req[r].client,
                    user      |-> req[r].user,
                    redirect  |-> req[r].redirect,
                    challenge |-> req[r].challenge,
                    scope     |-> req[r].scope,
                    expires   |-> seen[r] + CodeTTL,
                    consumed  |-> FALSE]
  <2>1. rw \in CodeRow
    BY <1>5, TTLAssumption DEF AuthorizeInsert, Authorization, CodeRow
  <2>2. InsertCode(r, rw)
    BY <1>5 DEF AuthorizeInsert
  <2>3. db' \in Database
    BY <2>1, <2>2, InsertCodeEffect DEF Credential
  <2> QED
    BY <1>5, <2>3 DEF AuthorizeInsert
<1>6. ASSUME NEW r \in Req, AuthorizeCommit(r) PROVE TypeOK'
  BY <1>6 DEF AuthorizeCommit, CommitThen, CommitAllowed, Commit
<1>7. ASSUME NEW r \in Req, CodeClient(r) PROVE TypeOK'
  BY <1>7 DEF CodeClient, storageVars
<1>8. ASSUME NEW r \in Req, CodeLock(r) PROVE TypeOK'
  BY <1>8 DEF CodeLock, Acquire
<1>9. ASSUME NEW r \in Req, CodeUpdate(r) PROVE TypeOK'
  BY <1>9, UpdateConsumedEffect DEF CodeUpdate, Consumable, CodeGrant, Database
<1>10. ASSUME NEW r \in Req, CodeFetch(r) PROVE TypeOK'
  BY <1>10 DEF CodeFetch
<1>11. ASSUME NEW r \in Req, CodeCommit(r) PROVE TypeOK'
  BY <1>11 DEF CodeCommit, CommitThen, CommitAllowed, Commit
<1>12. ASSUME NEW r \in Req, RootInsert(r) PROVE TypeOK'
  <2> DEFINE rw == [client  |-> req[r].client,
                    user    |-> row[r].user,
                    chain   |-> r,
                    parent  |-> None,
                    scope   |-> row[r].scope,
                    expires |-> seen[r] + RefreshTTL,
                    rotated |-> FALSE,
                    revoked |-> FALSE]
  <2>1. rw \in TokenRow
    BY <1>12, TTLAssumption DEF RootInsert, CodeGrant, CodeRow, TokenRow
  <2>2. InsertToken(r, rw)
    BY <1>12 DEF RootInsert
  <2>3. db' \in Database
    BY <2>1, <2>2, InsertTokenEffect DEF Credential
  <2> QED
    BY <1>12, <2>3 DEF RootInsert
<1>13. ASSUME NEW r \in Req, RootCommit(r) PROVE TypeOK'
  BY <1>13 DEF RootCommit, Issue, CommitThen, CommitAllowed, Commit, Claims, CodeGrant, CodeRow
<1>14. ASSUME NEW r \in Req, RefreshClient(r) PROVE TypeOK'
  BY <1>14 DEF RefreshClient, storageVars
<1>15. ASSUME NEW r \in Req, RefreshGet(r) PROVE TypeOK'
  BY <1>15 DEF RefreshGet, storageVars, OwnsToken, RefreshGrant, Database
<1>16. ASSUME NEW r \in Req, RefreshLock(r) PROVE TypeOK'
  BY <1>16 DEF RefreshLock, Acquire
<1>17. ASSUME NEW r \in Req, RotateSelect(r) PROVE TypeOK'
  BY <1>17 DEF RotateSelect, RefreshGrant, Database
<1>18. ASSUME NEW r \in Req, ReuseUpdate(r) PROVE TypeOK'
  BY <1>18, UpdateRevokedEffect DEF ReuseUpdate
<1>19. ASSUME NEW r \in Req, ReuseCommit(r) PROVE TypeOK'
  BY <1>19 DEF ReuseCommit, CommitThen, CommitAllowed, Commit
<1>20. ASSUME NEW r \in Req, RotateUpdate(r) PROVE TypeOK'
  BY <1>20, UpdateRotatedEffect DEF RotateUpdate, RefreshGrant, InChain
<1>21. ASSUME NEW r \in Req, RotateInsert(r) PROVE TypeOK'
  <2> DEFINE rw == [client  |-> row[r].client,
                    user    |-> row[r].user,
                    chain   |-> row[r].chain,
                    parent  |-> req[r].cred,
                    scope   |-> row[r].scope,
                    expires |-> seen[r] + RefreshTTL,
                    rotated |-> FALSE,
                    revoked |-> FALSE]
  <2>1. rw \in TokenRow
    BY <1>21, TTLAssumption DEF RotateInsert, RefreshGrant, TokenRow
  <2>2. InsertToken(r, rw)
    BY <1>21 DEF RotateInsert
  <2>3. db' \in Database
    BY <2>1, <2>2, InsertTokenEffect DEF Credential
  <2> QED
    BY <1>21, <2>3 DEF RotateInsert
<1>22. ASSUME NEW r \in Req, RotateCommit(r) PROVE TypeOK'
  BY SMTT(30), <1>22 DEF RotateCommit, Issue, CommitThen, CommitAllowed, Commit, Claims, RefreshGrant, TokenRow, GrantedScope
<1>23. ASSUME NEW r \in Req, RevokeUpdate(r) PROVE TypeOK'
  BY <1>23, UpdateRevokedEffect DEF RevokeUpdate
<1>24. ASSUME NEW r \in Req, RevokeCommit(r) PROVE TypeOK'
  BY <1>24 DEF RevokeCommit, CommitThen, CommitAllowed, Commit
<1>25. ASSUME NEW r \in Req, StatementFails(r) PROVE TypeOK'
  BY <1>25 DEF StatementFails
<1>26. CASE Crash
  BY <1>26 DEF Crash, Reopen
<1>27. CASE TimePasses
  BY <1>27 DEF TimePasses, Tick, handlerVars
<1>28. CASE Finished
  BY <1>28 DEF Finished, vars, storageVars, handlerVars
<1> QED
  BY <1>1, <1>2, <1>3, <1>4, <1>5, <1>6, <1>7, <1>8, <1>9, <1>10, <1>11, <1>12, <1>13, <1>14, <1>15, <1>16, <1>17, <1>18, <1>19, <1>20, <1>21, <1>22, <1>23, <1>24, <1>25, <1>26, <1>27, <1>28 DEF Next, Handle

-----------------------------------------------------------------------------
(* Tables: at most one live token in a chain.                               *)

\* What most steps have in common: no token changes in the tables, except
\* that a commit or a restart copies one image onto the other, and no handler
\* comes to, or moves within, the locked half of a rotation.
Quiet ==
    /\ db'.tokens = db.tokens
    /\ disk'.tokens \in {disk.tokens, db.tokens}
    /\ \A t \in Req : pc[t] \in Settled => pc'[t] \in Settled
    /\ \A s \in Req : pc'[s] \in {"rotate_update", "rotate_insert"} =>
         pc'[s] = pc[s] /\ row'[s] = row[s] /\ req'[s] = req[s]

LEMMA QuietKeepsTables ==
    ASSUME TableInv, Quiet
    PROVE  TableInv'
<1> USE DEF TableInv, Quiet
<1>1. Minted(db)' /\ Minted(disk)'
  BY DEF Minted
<1>2. OneLive(db)' /\ OneLive(disk)'
  BY DEF OneLive, LiveIn
<1>3. Rotating'
  BY DEF Rotating, InChain, LiveIn
<1> QED
  BY <1>1, <1>2, <1>3

LEMMA QuietKeepsRevoked ==
    ASSUME RevokeInv, Quiet
    PROVE  RevokeInv'
<1> USE DEF RevokeInv, Quiet
<1>1. RevokedDead(db)' /\ RevokedDead(disk)'
  BY DEF RevokedDead, LiveIn
<1>2. RotatingUnrevoked'
  BY DEF RotatingUnrevoked, InChain
<1> QED
  BY <1>1, <1>2

\* The steps that are not quiet.
Loud ==
    \/ \E r \in Req : \/ RootInsert(r) \/ RotateSelect(r) \/ ReuseUpdate(r)
                      \/ RotateUpdate(r) \/ RotateInsert(r) \/ RevokeUpdate(r)
    \/ Crash

\* Every other step is quiet.
LEMMA LoudOrQuiet ==
    ASSUME ForkInv, Next
    PROVE  Quiet \/ Loud
<1> USE DEF ForkInv, ControlInv, TypeOK, StorageTypeOK, Suspended, Settled, At, Goto, Answer, Read, ReadClock, Release, InFlight, WaitsForLock, InLock, OutOfLock, Answers, RegisterAwaits, AuthorizeAwaits, CodeAwaits
<1>1. ASSUME NEW r \in Req, NEW i \in Request, Arrive(r, i) PROVE Quiet \/ Loud
  <2>1. i.kind \in {"register", "authorize", "code", "refresh", "revoke"}
    BY DEF Request, Registration, Authorization, CodeGrant, RefreshGrant, Revocation
  <2>2. FirstAwait(i) \notin {"rotate_update", "rotate_insert"}
    BY <2>1 DEF FirstAwait
  <2> QED
    BY <1>1, <2>2 DEF Arrive, storageVars, Quiet
<1>2. ASSUME NEW r \in Req, RegisterInsert(r) PROVE Quiet \/ Loud
  BY <1>2, InsertClientEffect DEF Quiet, RegisterInsert, Registration, Client
<1>3. ASSUME NEW r \in Req, RegisterCommit(r) PROVE Quiet \/ Loud
  BY <1>3 DEF Quiet, RegisterCommit, CommitThen, CommitAllowed, Commit
<1>4. ASSUME NEW r \in Req, AuthorizeClient(r) PROVE Quiet \/ Loud
  BY <1>4 DEF Quiet, AuthorizeClient, storageVars
<1>5. ASSUME NEW r \in Req, AuthorizeInsert(r) PROVE Quiet \/ Loud
  BY <1>5 DEF Quiet, AuthorizeInsert, InsertCode, Database
<1>6. ASSUME NEW r \in Req, AuthorizeCommit(r) PROVE Quiet \/ Loud
  BY <1>6 DEF Quiet, AuthorizeCommit, CommitThen, CommitAllowed, Commit
<1>7. ASSUME NEW r \in Req, CodeClient(r) PROVE Quiet \/ Loud
  BY <1>7 DEF Quiet, CodeClient, storageVars
<1>8. ASSUME NEW r \in Req, CodeLock(r) PROVE Quiet \/ Loud
  BY <1>8 DEF Quiet, CodeLock, Acquire
<1>9. ASSUME NEW r \in Req, CodeUpdate(r) PROVE Quiet \/ Loud
  BY <1>9, UpdateConsumedEffect DEF Quiet, CodeUpdate, Consumable, CodeGrant
<1>10. ASSUME NEW r \in Req, CodeFetch(r) PROVE Quiet \/ Loud
  BY <1>10 DEF Quiet, CodeFetch
<1>11. ASSUME NEW r \in Req, CodeCommit(r) PROVE Quiet \/ Loud
  BY <1>11 DEF Quiet, CodeCommit, CommitThen, CommitAllowed, Commit
<1>12. ASSUME NEW r \in Req, RootInsert(r) PROVE Quiet \/ Loud
  BY <1>12 DEF Loud
<1>13. ASSUME NEW r \in Req, RootCommit(r) PROVE Quiet \/ Loud
  BY <1>13 DEF Quiet, RootCommit, Issue, CommitThen, CommitAllowed, Commit
<1>14. ASSUME NEW r \in Req, RefreshClient(r) PROVE Quiet \/ Loud
  BY <1>14 DEF Quiet, RefreshClient, storageVars
<1>15. ASSUME NEW r \in Req, RefreshGet(r) PROVE Quiet \/ Loud
  BY <1>15 DEF Quiet, RefreshGet, storageVars, OwnsToken
<1>16. ASSUME NEW r \in Req, RefreshLock(r) PROVE Quiet \/ Loud
  BY <1>16 DEF Quiet, RefreshLock, Acquire
<1>17. ASSUME NEW r \in Req, RotateSelect(r) PROVE Quiet \/ Loud
  BY <1>17 DEF Loud
<1>18. ASSUME NEW r \in Req, ReuseUpdate(r) PROVE Quiet \/ Loud
  BY <1>18 DEF Loud
<1>19. ASSUME NEW r \in Req, ReuseCommit(r) PROVE Quiet \/ Loud
  BY <1>19 DEF Quiet, ReuseCommit, CommitThen, CommitAllowed, Commit
<1>20. ASSUME NEW r \in Req, RotateUpdate(r) PROVE Quiet \/ Loud
  BY <1>20 DEF Loud
<1>21. ASSUME NEW r \in Req, RotateInsert(r) PROVE Quiet \/ Loud
  BY <1>21 DEF Loud
<1>22. ASSUME NEW r \in Req, RotateCommit(r) PROVE Quiet \/ Loud
  BY <1>22 DEF Quiet, RotateCommit, Issue, CommitThen, CommitAllowed, Commit
<1>23. ASSUME NEW r \in Req, RevokeUpdate(r) PROVE Quiet \/ Loud
  BY <1>23 DEF Loud
<1>24. ASSUME NEW r \in Req, RevokeCommit(r) PROVE Quiet \/ Loud
  BY <1>24 DEF Quiet, RevokeCommit, CommitThen, CommitAllowed, Commit
<1>25. ASSUME NEW r \in Req, StatementFails(r) PROVE Quiet \/ Loud
  BY <1>25 DEF Quiet, StatementFails
<1>26. CASE Crash
  BY <1>26 DEF Loud
<1>27. CASE TimePasses
  BY <1>27 DEF Quiet, TimePasses, Tick, handlerVars
<1>28. CASE Finished
  BY <1>28 DEF Quiet, Finished, vars, storageVars, handlerVars
<1> QED
  BY <1>1, <1>2, <1>3, <1>4, <1>5, <1>6, <1>7, <1>8, <1>9, <1>10, <1>11, <1>12, <1>13, <1>14, <1>15, <1>16, <1>17, <1>18, <1>19, <1>20, <1>21, <1>22, <1>23, <1>24, <1>25, <1>26, <1>27, <1>28 DEF Next, Handle

\* Chains have names of credentials.
LEMMA ChainNames ==
    ASSUME ForkInv, NEW u \in Credential, db.tokens[u] # None
    PROVE  db.tokens[u].chain \in Credential
  BY DEF ForkInv, ControlInv, TypeOK, StorageTypeOK, Database, TokenRow, Credential

\* A token is inserted under a fresh name, into a chain of which no token is
\* live; nothing else changes.
LEMMA InsertKeepsOneLive ==
    ASSUME ForkInv, NEW r \in Req, pc[r] \notin Settled,
           NEW rw \in TokenRow, InsertToken(r, rw),
           \A u \in Credential : LiveIn(db, u) => db.tokens[u].chain # rw.chain
    PROVE  OneLive(db)'
<1>1. /\ db'.tokens[r] = rw
      /\ \A u \in Credential \ {r} : db'.tokens[u] = db.tokens[u]
  BY InsertTokenEffect DEF ForkInv, ControlInv, TypeOK, StorageTypeOK, Credential
<1> QED
  BY <1>1 DEF ForkInv, TableInv, OneLive, LiveIn

\* The code grant's INSERT starts a chain that has no member yet.
LEMMA RootInsertStep ==
    ASSUME ForkInv, NEW r \in Req, RootInsert(r)
    PROVE  TableInv'
<1> DEFINE rw == [client  |-> req[r].client,
                  user    |-> row[r].user,
                  chain   |-> r,
                  parent  |-> None,
                  scope   |-> row[r].scope,
                  expires |-> seen[r] + RefreshTTL,
                  rotated |-> FALSE,
                  revoked |-> FALSE]
<1> USE DEF ForkInv, TableInv
<1>1. rw \in TokenRow
  BY TTLAssumption DEF RootInsert, CodeGrant, CodeRow, TokenRow, ControlInv,
     TypeOK, StorageTypeOK, Suspended, At, CodeAwaits, Credential
<1>2. /\ db'.tokens[r] = rw
      /\ \A u \in Credential \ {r} : db'.tokens[u] = db.tokens[u]
  BY <1>1, InsertTokenEffect
     DEF RootInsert, ControlInv, TypeOK, StorageTypeOK, Credential
<1>3. /\ disk' = disk /\ req' = req /\ row' = row
      /\ pc[r] = "root_insert" /\ pc' = [pc EXCEPT ![r] = "root_commit"]
  BY DEF RootInsert, At, Goto
<1>4. db.tokens[r] = None
  BY <1>3 DEF Minted, Settled, Answers, Credential
<1>5. \A u \in Credential : db.tokens[u] # None => db.tokens[u].chain # r
  BY <1>4 DEF Minted
<1>6. pc \in [Req -> {"new"} \cup InFlight \cup Answers]
  BY DEF ControlInv, TypeOK
<1>7. Minted(db)' /\ Minted(disk)'
  <2>1. \A t \in Req : pc[t] \in Settled => pc'[t] \in Settled
    BY <1>3, <1>6 DEF Settled
  <2>2. pc'[r] \in Settled
    BY <1>3, <1>6 DEF Settled
  <2>3. rw # None /\ rw.chain = r /\ r \in Credential
    BY <1>1, NoneAssumption DEF Credential
  <2>4. \A u \in Credential \ {r} : db'.tokens[u] # None =>
          /\ u \in Req => pc'[u] \in Settled
          /\ db'.tokens[u].chain \in Credential
          /\ db'.tokens[db'.tokens[u].chain] # None
    BY <1>2, <1>4, <1>5, <2>1, ChainNames DEF Minted
  <2>5. Minted(db)'
    BY <1>2, <2>2, <2>3, <2>4 DEF Minted
  <2> QED
    BY <1>3, <2>1, <2>5 DEF Minted
<1>8. OneLive(db)'
  <2>1. InsertToken(r, rw) /\ pc[r] \notin Settled
    BY <1>3 DEF RootInsert, Settled, Answers
  <2> QED
    BY <1>1, <1>5, <2>1, InsertKeepsOneLive DEF LiveIn
<1>9. OneLive(disk)'
  BY <1>3 DEF OneLive
<1>10. Rotating'
  <2>1. \A s \in Req : pc'[s] \in {"rotate_update", "rotate_insert"} =>
          /\ pc'[s] = pc[s]
          /\ InChain(db, row[s].chain, req[s].cred)
    BY <1>3, <1>6 DEF Rotating
  <2>2. \A s \in Req : pc'[s] \in {"rotate_update", "rotate_insert"} =>
          row[s].chain # r /\ req[s].cred \in Credential
    BY <1>3, <1>5, <1>6, <2>1 DEF InChain, RefreshGrant, RefreshAwaits,
       ControlInv, Suspended
  <2>3. \A s \in Req : pc'[s] \in {"rotate_update", "rotate_insert"} =>
          InChain(db', row[s].chain, req[s].cred)
    BY <1>2, <1>4, <2>1, <2>2 DEF InChain
  <2> QED
    BY <1>2, <1>3, <2>1, <2>2, <2>3 DEF Rotating, LiveIn
<1> QED
  BY <1>7, <1>8, <1>9, <1>10

\* No other handler is in the locked half of a rotation.
LEMMA Alone ==
    ASSUME ControlInv, NEW r \in Req, pc[r] \in InLock, NEW s \in Req, s # r
    PROVE  pc[s] \notin InLock
  BY DEF ControlInv, LockInv

\* The SELECT under the lock establishes what the rotation relies on.
LEMMA RotateSelectStep ==
    ASSUME ForkInv, NEW r \in Req, RotateSelect(r)
    PROVE  TableInv'
<1> USE DEF ForkInv, TableInv
<1>1. pc \in [Req -> {"new"} \cup InFlight \cup Answers] /\ row \in [Req -> CodeRow \cup TokenRow \cup {None}]
  BY DEF ControlInv, TypeOK
<1>2. db' = db /\ disk' = disk /\ req' = req /\ pc[r] = "rotate_select"
  BY DEF RotateSelect, At
<1>3. /\ pc'[r] \in {"reuse", "rotate_update", "reuse_update"}
      /\ \A s \in Req \ {r} : pc'[s] = pc[s] /\ row'[s] = row[s]
  BY <1>1 DEF RotateSelect, Goto, Answer, Read
<1>4. \A s \in Req \ {r} : pc'[s] \notin {"rotate_update", "rotate_insert"}
  BY <1>2, <1>3, Alone DEF InLock
<1>5. Minted(db)' /\ Minted(disk)'
  BY <1>2, <1>3 DEF Minted, Settled, Answers
<1>6. OneLive(db)' /\ OneLive(disk)'
  BY <1>2 DEF OneLive
<1>7. ASSUME pc'[r] = "rotate_update"
      PROVE  LiveIn(db, req[r].cred) /\ row'[r] = db.tokens[req[r].cred]
  BY <1>1, <1>7 DEF RotateSelect, Rotatable, Goto, Answer, Read
<1>8. pc[r] \in RefreshAwaits => req[r].cred \in Credential
  BY DEF ControlInv, Suspended, RefreshGrant
<1>9. Rotating'
  BY <1>2, <1>3, <1>4, <1>7, <1>8
     DEF Rotating, InChain, LiveIn, OneLive, RefreshAwaits
<1> QED
  BY <1>5, <1>6, <1>9

\* The first half of the rotation leaves its chain without a live token.
LEMMA RotateUpdateStep ==
    ASSUME ForkInv, NEW r \in Req, RotateUpdate(r)
    PROVE  TableInv'
<1> USE DEF ForkInv, TableInv
<1>1. pc \in [Req -> {"new"} \cup InFlight \cup Answers]
  BY DEF ControlInv, TypeOK
<1>2. /\ disk' = disk /\ req' = req /\ row' = row
      /\ pc[r] = "rotate_update" /\ pc' = [pc EXCEPT ![r] = "rotate_insert"]
  BY DEF RotateUpdate, At, Goto
<1>3. req[r].cred \in Credential /\ InChain(db, row[r].chain, req[r].cred)
  BY <1>2 DEF ControlInv, Suspended, RefreshAwaits, RefreshGrant, Rotating
<1>4. /\ db'.tokens[req[r].cred] = [db.tokens[req[r].cred] EXCEPT !.rotated = TRUE]
      /\ db'.tokens[req[r].cred] \in TokenRow
      /\ db.tokens[req[r].cred] \in TokenRow
      /\ \A u \in Credential \ {req[r].cred} : db'.tokens[u] = db.tokens[u]
  BY <1>3, UpdateRotatedEffect
     DEF RotateUpdate, InChain, ControlInv, TypeOK, StorageTypeOK, Database
<1>5. /\ \A u \in Credential :
           /\ db'.tokens[u] = None <=> db.tokens[u] = None
           /\ db.tokens[u] # None => db'.tokens[u].chain = db.tokens[u].chain
           /\ LiveIn(db', u) <=> u # req[r].cred /\ LiveIn(db, u)
  <2>1. /\ db'.tokens[req[r].cred].rotated
        /\ db'.tokens[req[r].cred].chain = db.tokens[req[r].cred].chain
        /\ db'.tokens[req[r].cred] # None /\ db.tokens[req[r].cred] # None
    BY <1>4, NoneAssumption DEF TokenRow
  <2> QED
    BY <1>4, <2>1 DEF LiveIn
<1>6. \A s \in Req \ {r} : pc'[s] \notin {"rotate_update", "rotate_insert"}
  BY <1>1, <1>2, Alone DEF InLock
<1>7. Minted(db)' /\ Minted(disk)'
  <2>1. \A t \in Req : pc[t] \in Settled => pc'[t] \in Settled
    BY <1>1, <1>2 DEF Settled, Answers
  <2> QED
    BY <1>2, <1>5, <2>1, ChainNames DEF Minted
<1>8. OneLive(db)' /\ OneLive(disk)'
  <2>1. OneLive(db)'
    BY <1>5 DEF OneLive, LiveIn
  <2> QED
    BY <1>2, <2>1 DEF OneLive
<1>9. Rotating'
  <2>1. InChain(db', row[r].chain, req[r].cred)
    BY <1>3, <1>5 DEF InChain
  <2>2. \A u \in Credential : LiveIn(db', u) => db'.tokens[u].chain # row[r].chain
    BY <1>2, <1>5 DEF Rotating, LiveIn
  <2> QED
    BY <1>1, <1>2, <1>6, <2>1, <2>2 DEF Rotating
<1> QED
  BY <1>7, <1>8, <1>9

\* The second half adds the successor, the only live token.
LEMMA RotateInsertStep ==
    ASSUME ForkInv, NEW r \in Req, RotateInsert(r)
    PROVE  TableInv'
<1> DEFINE rw == [client  |-> row[r].client,
                  user    |-> row[r].user,
                  chain   |-> row[r].chain,
                  parent  |-> req[r].cred,
                  scope   |-> row[r].scope,
                  expires |-> seen[r] + RefreshTTL,
                  rotated |-> FALSE,
                  revoked |-> FALSE]
<1> USE DEF ForkInv, TableInv
<1>1. rw \in TokenRow
  BY TTLAssumption DEF RotateInsert, RefreshGrant, TokenRow, ControlInv,
     TypeOK, StorageTypeOK, Suspended, At, RefreshAwaits
<1>2. /\ db'.tokens[r] = rw
      /\ \A u \in Credential \ {r} : db'.tokens[u] = db.tokens[u]
  BY <1>1, InsertTokenEffect
     DEF RotateInsert, ControlInv, TypeOK, StorageTypeOK, Credential
<1>3. /\ disk' = disk /\ req' = req /\ row' = row
      /\ pc[r] = "rotate_insert" /\ pc' = [pc EXCEPT ![r] = "rotate_commit"]
  BY DEF RotateInsert, At, Goto
<1>4. pc \in [Req -> {"new"} \cup InFlight \cup Answers]
  BY DEF ControlInv, TypeOK
<1>5. db.tokens[r] = None
  BY <1>3 DEF Minted, Settled, Answers, Credential
<1>6. /\ req[r].cred \in Credential
      /\ InChain(db, row[r].chain, req[r].cred)
      /\ \A u \in Credential : LiveIn(db, u) => db.tokens[u].chain # row[r].chain
  BY <1>3 DEF ControlInv, Suspended, RefreshAwaits, RefreshGrant, Rotating
<1>7. Minted(db)' /\ Minted(disk)'
  <2>1. \A t \in Req : pc[t] \in Settled => pc'[t] \in Settled
    BY <1>3, <1>4 DEF Settled
  <2>2. pc'[r] \in Settled
    BY <1>3, <1>4 DEF Settled
  <2>3. rw # None /\ row[r].chain \in Credential
    BY <1>1, NoneAssumption DEF TokenRow, Credential
  <2>4. db.tokens[row[r].chain] # None
    BY <1>6 DEF InChain, Minted
  <2>5. \A u \in Credential \ {r} : db'.tokens[u] # None =>
          /\ u \in Req => pc'[u] \in Settled
          /\ db'.tokens[db'.tokens[u].chain] # None
    BY <1>2, <1>5, <2>1, <2>3, ChainNames DEF Minted
  <2>6. db'.tokens[row[r].chain] # None
    BY <1>2, <2>3, <2>4
  <2>7. Minted(db)'
    BY <1>2, <2>2, <2>3, <2>5, <2>6 DEF Minted
  <2> QED
    BY <1>3, <2>1, <2>7 DEF Minted
<1>8. OneLive(db)'
  <2>1. InsertToken(r, rw) /\ pc[r] \notin Settled
    BY <1>3 DEF RotateInsert, Settled, Answers
  <2> QED
    BY <1>1, <1>6, <2>1, InsertKeepsOneLive
<1>9. OneLive(disk)'
  BY <1>3 DEF OneLive
<1>10. Rotating'
  BY <1>3, <1>4, Alone DEF InLock, Rotating
<1> QED
  BY <1>7, <1>8, <1>9, <1>10

\* Revoking a chain, by the rotation that met a reuse or by revoke_chain,
\* leaves no more live tokens than there were.
LEMMA RevokeKeepsTables ==
    ASSUME ForkInv, NEW ch, UpdateRevoked(ch), disk' = disk, req' = req, row' = row,
           \A t \in Req : pc[t] \in Settled => pc'[t] \in Settled,
           \A s \in Req : pc'[s] \in {"rotate_update", "rotate_insert"} => pc'[s] = pc[s]
    PROVE  TableInv'
<1> USE DEF ForkInv, TableInv
<1>1. \A u \in Credential : InChain(db, ch, u) =>
        /\ db'.tokens[u] = [db.tokens[u] EXCEPT !.revoked = TRUE]
        /\ db'.tokens[u] \in TokenRow
        /\ db.tokens[u] \in TokenRow
  BY UpdateRevokedEffect DEF ControlInv, TypeOK, StorageTypeOK, InChain, Database
<1>2. \A u \in Credential : ~InChain(db, ch, u) => db'.tokens[u] = db.tokens[u]
  BY UpdateRevokedEffect DEF ControlInv, TypeOK, StorageTypeOK
<1>3. \A u \in Credential :
        /\ db'.tokens[u] = None <=> db.tokens[u] = None
        /\ db.tokens[u] # None => db'.tokens[u].chain = db.tokens[u].chain
        /\ LiveIn(db', u) => LiveIn(db, u)
  <2> SUFFICES ASSUME NEW u \in Credential
               PROVE  /\ db'.tokens[u] = None <=> db.tokens[u] = None
                      /\ db.tokens[u] # None => db'.tokens[u].chain = db.tokens[u].chain
                      /\ LiveIn(db', u) => LiveIn(db, u)
    OBVIOUS
  <2>1. CASE InChain(db, ch, u)
    <3>1. db'.tokens[u] # None /\ db.tokens[u] # None
      BY <1>1, <2>1, NoneAssumption
    <3>2. db'.tokens[u].chain = db.tokens[u].chain /\ db'.tokens[u].revoked
      BY <1>1, <2>1 DEF TokenRow
    <3> QED
      BY <3>1, <3>2 DEF LiveIn
  <2>2. CASE ~InChain(db, ch, u)
    BY <1>2, <2>2 DEF LiveIn
  <2> QED
    BY <2>1, <2>2
<1>4. \A u \in Credential : db.tokens[u] # None => db.tokens[u].chain \in Credential
  BY DEF ControlInv, TypeOK, StorageTypeOK, Database, TokenRow, Credential
<1>5. Minted(db)' /\ Minted(disk)'
  BY <1>3, <1>4 DEF Minted
<1>6. OneLive(db)' /\ OneLive(disk)'
  BY <1>3 DEF OneLive, LiveIn
<1>7. Rotating'
  <2>1. \A s \in Req : pc'[s] \in {"rotate_update", "rotate_insert"} =>
          req[s].cred \in Credential
    BY DEF ControlInv, Suspended, RefreshAwaits, RefreshGrant
  <2> QED
    BY <1>3, <2>1 DEF Rotating, InChain, LiveIn
<1> QED
  BY <1>5, <1>6, <1>7

LEMMA RevokeSteps ==
    ASSUME ForkInv, NEW r \in Req, ReuseUpdate(r) \/ RevokeUpdate(r)
    PROVE  TableInv'
<1>1. /\ disk' = disk /\ req' = req /\ row' = row
      /\ \A t \in Req : pc[t] \in Settled => pc'[t] \in Settled
      /\ \A s \in Req : pc'[s] \in {"rotate_update", "rotate_insert"} => pc'[s] = pc[s]
  BY DEF ReuseUpdate, RevokeUpdate, At, Goto, Settled, Answers, ForkInv,
     ControlInv, TypeOK
<1>2. UpdateRevoked(row[r].chain) \/ UpdateRevoked(req[r].chain)
  BY DEF ReuseUpdate, RevokeUpdate
<1> QED
  BY <1>1, <1>2, RevokeKeepsTables

\* A restart finds what was committed, and no handler is suspended.
LEMMA CrashStep ==
    ASSUME ForkInv, Crash
    PROVE  TableInv'
<1> USE DEF ForkInv, TableInv
<1>1. db' = disk /\ disk' = disk
  BY DEF Crash, Reopen
<1>2. \A t \in Req : /\ pc[t] \in Settled => pc'[t] \in Settled
                     /\ pc'[t] \notin {"rotate_update", "rotate_insert"}
  BY DEF Crash, InFlight, InLock, OutOfLock, WaitsForLock, Settled, Answers,
     ControlInv, TypeOK
<1>3. Minted(db)' /\ Minted(disk)'
  BY <1>1, <1>2 DEF Minted
<1>4. OneLive(db)' /\ OneLive(disk)'
  BY <1>1 DEF OneLive
<1>5. Rotating'
  BY <1>2 DEF Rotating
<1> QED
  BY <1>3, <1>4, <1>5

\* A step keeps the tables in order.
LEMMA TableStep ==
    ASSUME ForkInv, Next
    PROVE  TableInv'
<1>1. CASE Quiet
  BY <1>1, QuietKeepsTables DEF ForkInv
<1>2. CASE Loud
  BY <1>2, RootInsertStep, RotateSelectStep, RotateUpdateStep, RotateInsertStep,
     RevokeSteps, CrashStep DEF Loud
<1> QED
  BY <1>1, <1>2, LoudOrQuiet

-----------------------------------------------------------------------------
(* Tables: a chain with a revoked token has no live one, as long as nobody  *)
(* calls revoke_chain.                                                      *)

LEMMA RootInsertRevoke ==
    ASSUME ForkInv, RevokeInv, NEW r \in Req, RootInsert(r)
    PROVE  RevokeInv'
<1> DEFINE rw == [client  |-> req[r].client,
                  user    |-> row[r].user,
                  chain   |-> r,
                  parent  |-> None,
                  scope   |-> row[r].scope,
                  expires |-> seen[r] + RefreshTTL,
                  rotated |-> FALSE,
                  revoked |-> FALSE]
<1> USE DEF ForkInv, TableInv, RevokeInv
<1>1. rw \in TokenRow
  BY TTLAssumption DEF RootInsert, CodeGrant, CodeRow, TokenRow, ControlInv,
     TypeOK, StorageTypeOK, Suspended, At, CodeAwaits, Credential
<1>2. /\ db'.tokens[r] = rw
      /\ \A u \in Credential \ {r} : db'.tokens[u] = db.tokens[u]
  BY <1>1, InsertTokenEffect
     DEF RootInsert, ControlInv, TypeOK, StorageTypeOK, Credential
<1>3. /\ disk' = disk /\ req' = req /\ row' = row
      /\ pc[r] = "root_insert" /\ pc' = [pc EXCEPT ![r] = "root_commit"]
  BY DEF RootInsert, At, Goto
<1>4. db.tokens[r] = None
  BY <1>3 DEF Minted, Settled, Answers, Credential
<1>5. \A u \in Credential : db.tokens[u] # None => db.tokens[u].chain # r
  BY <1>4 DEF Minted
<1>6. rw.chain = r /\ ~rw.revoked
  OBVIOUS
<1>7. RevokedDead(db)'
  BY <1>2, <1>5, <1>6 DEF RevokedDead, LiveIn
<1>8. RevokedDead(disk)'
  BY <1>3 DEF RevokedDead
<1>9. RotatingUnrevoked'
  <2>1. \A s \in Req : pc'[s] \in {"rotate_update", "rotate_insert"} => pc'[s] = pc[s]
    BY <1>3 DEF ControlInv, TypeOK
  <2> QED
    BY <1>2, <1>3, <1>6, <2>1 DEF RotatingUnrevoked, InChain
<1> QED
  BY <1>7, <1>8, <1>9

LEMMA RotateSelectRevoke ==
    ASSUME ForkInv, RevokeInv, NEW r \in Req, RotateSelect(r)
    PROVE  RevokeInv'
<1> USE DEF ForkInv, TableInv, RevokeInv
<1>1. pc \in [Req -> {"new"} \cup InFlight \cup Answers] /\ row \in [Req -> CodeRow \cup TokenRow \cup {None}]
  BY DEF ControlInv, TypeOK
<1>2. db' = db /\ disk' = disk /\ req' = req /\ pc[r] = "rotate_select"
  BY DEF RotateSelect, At
<1>3. /\ pc'[r] \in {"reuse", "rotate_update", "reuse_update"}
      /\ \A s \in Req \ {r} : pc'[s] = pc[s] /\ row'[s] = row[s]
  BY <1>1 DEF RotateSelect, Goto, Answer, Read
<1>4. ASSUME pc'[r] = "rotate_update"
      PROVE  LiveIn(db, req[r].cred) /\ row'[r] = db.tokens[req[r].cred]
  BY <1>1, <1>4 DEF RotateSelect, Rotatable, Goto, Answer, Read
<1>5. req[r].cred \in Credential
  BY <1>2 DEF ControlInv, Suspended, RefreshGrant, RefreshAwaits
<1>6. RotatingUnrevoked'
  BY <1>2, <1>3, <1>4, <1>5 DEF RotatingUnrevoked, RevokedDead, InChain
<1> QED
  BY <1>2, <1>6 DEF RevokedDead

LEMMA RotateUpdateRevoke ==
    ASSUME ForkInv, RevokeInv, NEW r \in Req, RotateUpdate(r)
    PROVE  RevokeInv'
<1> USE DEF ForkInv, TableInv, RevokeInv
<1>1. /\ disk' = disk /\ req' = req /\ row' = row
      /\ pc[r] = "rotate_update" /\ pc' = [pc EXCEPT ![r] = "rotate_insert"]
  BY DEF RotateUpdate, At, Goto
<1>2. req[r].cred \in Credential /\ InChain(db, row[r].chain, req[r].cred)
  BY <1>1 DEF ControlInv, Suspended, RefreshAwaits, RefreshGrant, Rotating
<1>3. /\ db'.tokens[req[r].cred] = [db.tokens[req[r].cred] EXCEPT !.rotated = TRUE]
      /\ db'.tokens[req[r].cred] \in TokenRow
      /\ db.tokens[req[r].cred] \in TokenRow
      /\ \A u \in Credential \ {req[r].cred} : db'.tokens[u] = db.tokens[u]
  BY <1>2, UpdateRotatedEffect
     DEF RotateUpdate, InChain, ControlInv, TypeOK, StorageTypeOK, Database
<1>4. \A u \in Credential :
        /\ db'.tokens[u] = None <=> db.tokens[u] = None
        /\ db.tokens[u] # None => /\ db'.tokens[u].chain = db.tokens[u].chain
                                  /\ db'.tokens[u].revoked = db.tokens[u].revoked
        /\ LiveIn(db', u) => LiveIn(db, u)
  <2>1. /\ db'.tokens[req[r].cred].rotated
        /\ db'.tokens[req[r].cred].chain = db.tokens[req[r].cred].chain
        /\ db'.tokens[req[r].cred].revoked = db.tokens[req[r].cred].revoked
        /\ db'.tokens[req[r].cred] # None /\ db.tokens[req[r].cred] # None
    BY <1>3, NoneAssumption DEF TokenRow
  <2> QED
    BY <1>3, <2>1 DEF LiveIn
<1>5. RevokedDead(db)'
  BY <1>4 DEF RevokedDead, LiveIn
<1>6. RevokedDead(disk)'
  BY <1>1 DEF RevokedDead
<1>7. RotatingUnrevoked'
  <2>1. \A s \in Req : pc'[s] \in {"rotate_update", "rotate_insert"} =>
          pc[s] \in {"rotate_update", "rotate_insert"}
    BY <1>1 DEF ControlInv, TypeOK
  <2> QED
    BY <1>1, <1>4, <2>1 DEF RotatingUnrevoked, InChain
<1> QED
  BY <1>5, <1>6, <1>7

LEMMA RotateInsertRevoke ==
    ASSUME ForkInv, RevokeInv, NEW r \in Req, RotateInsert(r)
    PROVE  RevokeInv'
<1> DEFINE rw == [client  |-> row[r].client,
                  user    |-> row[r].user,
                  chain   |-> row[r].chain,
                  parent  |-> req[r].cred,
                  scope   |-> row[r].scope,
                  expires |-> seen[r] + RefreshTTL,
                  rotated |-> FALSE,
                  revoked |-> FALSE]
<1> USE DEF ForkInv, TableInv, RevokeInv
<1>1. rw \in TokenRow
  BY TTLAssumption DEF RotateInsert, RefreshGrant, TokenRow, ControlInv,
     TypeOK, StorageTypeOK, Suspended, At, RefreshAwaits
<1>2. /\ db'.tokens[r] = rw
      /\ \A u \in Credential \ {r} : db'.tokens[u] = db.tokens[u]
  BY <1>1, InsertTokenEffect
     DEF RotateInsert, ControlInv, TypeOK, StorageTypeOK, Credential
<1>3. /\ disk' = disk /\ req' = req /\ row' = row
      /\ pc[r] = "rotate_insert" /\ pc' = [pc EXCEPT ![r] = "rotate_commit"]
  BY DEF RotateInsert, At, Goto
<1>4. \A u \in Credential : InChain(db, row[r].chain, u) => ~db.tokens[u].revoked
  BY <1>3 DEF RotatingUnrevoked
<1>5. rw.chain = row[r].chain /\ ~rw.revoked
  OBVIOUS
<1>6. RevokedDead(db)'
  BY <1>2, <1>4, <1>5 DEF RevokedDead, LiveIn, InChain
<1>7. RevokedDead(disk)'
  BY <1>3 DEF RevokedDead
<1>8. RotatingUnrevoked'
  <2>1. \A s \in Req : pc'[s] \notin {"rotate_update", "rotate_insert"}
    BY <1>3, Alone DEF InLock, ControlInv, TypeOK
  <2> QED
    BY <2>1 DEF RotatingUnrevoked
<1> QED
  BY <1>6, <1>7, <1>8

\* A detected reuse leaves no member of the chain live.
LEMMA ReuseUpdateRevoke ==
    ASSUME ForkInv, RevokeInv, NEW r \in Req, ReuseUpdate(r)
    PROVE  RevokeInv'
<1> DEFINE ch == row[r].chain
<1> USE DEF ForkInv, TableInv, RevokeInv
<1>1. \A u \in Credential : InChain(db, ch, u) =>
        /\ db'.tokens[u] = [db.tokens[u] EXCEPT !.revoked = TRUE]
        /\ db'.tokens[u] \in TokenRow
        /\ db.tokens[u] \in TokenRow
  BY UpdateRevokedEffect
     DEF ReuseUpdate, ControlInv, TypeOK, StorageTypeOK, InChain, Database
<1>2. \A u \in Credential : ~InChain(db, ch, u) => db'.tokens[u] = db.tokens[u]
  BY UpdateRevokedEffect DEF ReuseUpdate, ControlInv, TypeOK, StorageTypeOK
<1>3. \A u \in Credential : InChain(db, ch, u) =>
        db'.tokens[u].chain = ch /\ db'.tokens[u].revoked
  BY <1>1 DEF TokenRow, InChain
<1>4. disk' = disk /\ req' = req /\ row' = row /\ pc[r] = "reuse_update"
      /\ pc' = [pc EXCEPT ![r] = "reuse_commit"]
  BY DEF ReuseUpdate, At, Goto
<1>5. RevokedDead(db)'
  BY <1>2, <1>3 DEF RevokedDead, LiveIn, InChain
<1>6. RevokedDead(disk)'
  BY <1>4 DEF RevokedDead
<1>7. RotatingUnrevoked'
  <2>1. \A s \in Req : pc'[s] \notin {"rotate_update", "rotate_insert"}
    BY <1>4, Alone DEF InLock, ControlInv, TypeOK
  <2> QED
    BY <2>1 DEF RotatingUnrevoked
<1> QED
  BY <1>5, <1>6, <1>7

LEMMA CrashRevoke ==
    ASSUME ForkInv, RevokeInv, Crash
    PROVE  RevokeInv'
<1>1. db' = disk /\ disk' = disk
  BY DEF Crash, Reopen
<1>2. \A t \in Req : pc'[t] \notin {"rotate_update", "rotate_insert"}
  BY DEF Crash, InFlight, InLock, OutOfLock, WaitsForLock, Answers,
     ForkInv, ControlInv, TypeOK
<1> QED
  BY <1>1, <1>2 DEF RevokeInv, RevokedDead, RotatingUnrevoked

\* A step that is not a call of revoke_chain keeps RevokeInv.
LEMMA RevokeInvStep ==
    ASSUME ForkInv, RevokeInv, Next, "revoke" \notin Kinds
    PROVE  RevokeInv'
<1>1. CASE Quiet
  BY <1>1, QuietKeepsRevoked
<1>2. CASE Loud
  <2>1. \A r \in Req : ~RevokeUpdate(r)
    BY DEF RevokeUpdate, At, ForkInv, ControlInv, Suspended, RevokeAwaits
  <2> QED
    BY <1>2, <2>1, RootInsertRevoke, RotateSelectRevoke, ReuseUpdateRevoke,
       RotateUpdateRevoke, RotateInsertRevoke, CrashRevoke DEF Loud
<1> QED
  BY <1>1, <1>2, LoudOrQuiet

-----------------------------------------------------------------------------
(* Theorems.                                                                *)

LEMMA InitForkInv == Init => ForkInv
<1> SUFFICES ASSUME Init PROVE ForkInv
  OBVIOUS
<1> USE DEF Init, StorageInit
<1>1. EmptyDatabase \in Database
  BY DEF EmptyDatabase, Database
<1>2. \A t \in Credential : db.tokens[t] = None /\ disk.tokens[t] = None
  BY DEF EmptyDatabase
<1>3. TypeOK
  BY <1>1 DEF TypeOK, StorageTypeOK
<1>4. Suspended
  BY DEF Suspended, RegisterAwaits, AuthorizeAwaits, CodeAwaits, RefreshAwaits,
     RevokeAwaits
<1>5. LockInv
  BY NoneAssumption DEF LockInv, InLock, Client
<1>6. TableInv
  BY <1>2 DEF TableInv, Minted, OneLive, LiveIn, Rotating
<1> QED
  BY <1>3, <1>4, <1>5, <1>6 DEF ForkInv, ControlInv

LEMMA ForkInvStep == ForkInv /\ [Next]_vars => ForkInv'
<1> SUFFICES ASSUME ForkInv, [Next]_vars PROVE ForkInv'
  OBVIOUS
<1>1. CASE Next
  BY <1>1, TypeStep, SuspendedStep, LockStep, TableStep DEF ForkInv, ControlInv
<1>2. CASE UNCHANGED vars
  BY <1>2 DEF vars, storageVars, handlerVars, ForkInv, ControlInv, TypeOK,
     StorageTypeOK, Suspended, LockInv, TableInv, Minted, OneLive, LiveIn,
     Rotating, InChain
<1> QED
  BY <1>1, <1>2

LEMMA ForkInvariance == Spec => []ForkInv
  BY InitForkInv, ForkInvStep, PTL DEF Spec

\* Types are kept by every handler, fault and restart, for any number of
\* requests.
THEOREM TypeCorrectness == Spec => []TypeOK
<1>1. ForkInv => TypeOK
  BY DEF ForkInv, ControlInv
<1> QED
  BY <1>1, ForkInvariance, PTL

\* The sections of consume and rotate that take _lock exclude each other: at
\* most one handler is between the lock and its release.
MutualExclusion ==
    \A r, s \in Req : pc[r] \in InLock /\ pc[s] \in InLock => r = s

THEOREM LockedSections == Spec => []MutualExclusion
<1>1. ForkInv => MutualExclusion
  BY DEF ForkInv, ControlInv, LockInv, MutualExclusion
<1> QED
  BY <1>1, ForkInvariance, PTL

\* No interleaving of requests, failing statements, restarts and calls of
\* revoke_chain leaves two acceptable refresh tokens in one chain.
THEOREM ChainsNeverFork == Spec => []OneLivePerChain
<1>1. ForkInv => OneLivePerChain
  BY DEF ForkInv, TableInv, OneLive, OneLivePerChain, Credential
<1> QED
  BY <1>1, ForkInvariance, PTL

\* While only the HTTP routes use the store, a chain in which a reuse, an
\* expiry or a revocation was recorded has no acceptable token, before and
\* after any restart.
THEOREM RevokedChainsStayDead ==
    ASSUME "revoke" \notin Kinds
    PROVE  Spec => []RevokedChainDead
<1>1. Init => RevokeInv
  <2> SUFFICES ASSUME Init PROVE RevokeInv
    OBVIOUS
  <2>1. \A t \in Credential : db.tokens[t] = None /\ disk.tokens[t] = None
    BY DEF Init, StorageInit, EmptyDatabase
  <2> QED
    BY <2>1 DEF Init, RevokeInv, RevokedDead, RotatingUnrevoked, InChain
<1>2. ForkInv /\ RevokeInv /\ [Next]_vars => RevokeInv'
  <2> SUFFICES ASSUME ForkInv, RevokeInv, [Next]_vars PROVE RevokeInv'
    OBVIOUS
  <2>1. CASE Next
    BY <2>1, RevokeInvStep
  <2>2. CASE UNCHANGED vars
    BY <2>2 DEF vars, storageVars, handlerVars, RevokeInv, RevokedDead, LiveIn,
       RotatingUnrevoked, InChain
  <2> QED
    BY <2>1, <2>2
<1>3. RevokeInv => RevokedChainDead
  BY DEF RevokeInv, RevokedDead, RevokedChainDead, Credential
<1> QED
  BY <1>1, <1>2, <1>3, ForkInvariance, PTL DEF Spec

=============================================================================
