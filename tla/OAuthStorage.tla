---------------------------- MODULE OAuthStorage ----------------------------
(***************************************************************************)
(* The SQLite store of the authorization server (auth/storage.py): clients,*)
(* authorization codes and refresh tokens, reached through ONE aiosqlite   *)
(* connection.  Every coroutine of the process shares its transaction: a   *)
(* statement is visible to all as soon as it has run (db), and whoever     *)
(* commits makes everything run so far durable (disk).                     *)
(*                                                                         *)
(* Client ids, codes, tokens and chain ids are fresh random strings; the   *)
(* one a request mints is named after the request, so Req doubles as their *)
(* name space.  Hashing the stored credentials is injective and left out.  *)
(***************************************************************************)
EXTENDS Integers

CONSTANTS
    Req,          \* HTTP requests (and direct storage calls), one-shot
    Seeded,       \* clients already in the file when the server starts
    Garbage,      \* client ids, codes and tokens this server never issued
    Redirect,     \* redirect URIs
    Verifier,     \* PKCE verifiers; S256 is injective, so also the challenges
    User,         \* e-mail addresses set by the identity proxy
    Scope,        \* scope words
    None,         \* SQL NULL / Python None / no row
    CodeTTL,      \* AUTHORIZATION_CODE_TTL_SECONDS
    RefreshTTL,   \* REFRESH_TOKEN_TTL_SECONDS
    MaxTime       \* bound on the clock

Client == Req \cup Seeded \cup Garbage
Credential == Req \cup Garbage

ASSUME NamesAssumption == Req \cap (Seeded \cup Garbage) = {}
ASSUME TTLAssumption == CodeTTL \in Nat /\ RefreshTTL \in Nat /\ MaxTime \in Nat

VARIABLES
    clock,   \* int(time.time())
    db,      \* the tables as every statement on the connection sees them
    disk,    \* the tables as of the last COMMIT: what a restart finds
    lock,    \* holder of OAuthStorage._lock, or None
    cursor   \* request whose UPDATE..RETURNING is stepped but not finished

storageVars == <<clock, db, disk, lock, cursor>>

-----------------------------------------------------------------------------
(* Tables.  Timestamps consumed_at, rotated_at and revoked_at are only ever *)
(* compared with NULL, so they are flags.                                   *)

CodeRow == [client : Client, user : User, redirect : Redirect,
            challenge : Verifier, scope : SUBSET Scope, expires : Nat,
            consumed : BOOLEAN]

TokenRow == [client : Client, user : User, chain : Req,
             parent : Credential \cup {None}, scope : SUBSET Scope, expires : Nat,
             rotated : BOOLEAN, revoked : BOOLEAN]

\* The sentinel is no row, no client and no credential.
ASSUME NoneAssumption == None \notin Client \cup CodeRow \cup TokenRow

\* clients maps an id to its registered redirect URIs; {} is no row (an empty
\* list is refused by the registration handler).
Database == [clients : [Client -> SUBSET Redirect],
             codes   : [Credential -> CodeRow \cup {None}],
             tokens  : [Credential -> TokenRow \cup {None}]]

EmptyDatabase ==
    [clients |-> [c \in Client |-> IF c \in Seeded THEN Redirect ELSE {}],
     codes   |-> [c \in Credential |-> None],
     tokens  |-> [t \in Credential |-> None]]

StorageInit ==
    /\ clock = 0
    /\ db = EmptyDatabase
    /\ disk = EmptyDatabase
    /\ lock = None
    /\ cursor = None

StorageTypeOK ==
    /\ clock \in Nat
    /\ db \in Database
    /\ disk \in Database
    /\ lock \in Req \cup {None}
    /\ cursor \in Req \cup {None}

-----------------------------------------------------------------------------
(* Predicates of the WHERE clauses.                                         *)

\* Mutant of Consumable: the UPDATE forgets `consumed_at IS NULL'.
ConsumableAgain(c, now) ==
    db.codes[c] # None /\ db.codes[c].expires > now

\* WHERE code_hash = ? AND consumed_at IS NULL AND expires_at > ?
Consumable(c, now) ==
    /\ db.codes[c] # None
    /\ ~db.codes[c].consumed
    /\ db.codes[c].expires > now

\* A refresh token the rotation would still accept, its expiry aside.
LiveIn(d, t) ==
    /\ d.tokens[t] # None
    /\ ~d.tokens[t].rotated
    /\ ~d.tokens[t].revoked

\* WHERE chain_id = ?
InChain(d, ch, t) == d.tokens[t] # None /\ d.tokens[t].chain = ch

-----------------------------------------------------------------------------
(* Statements, one per conn.execute, each atomic in the connection's thread *)

InsertClient(c, uris) == db' = [db EXCEPT !.clients[c] = uris]

InsertCode(c, row) == db' = [db EXCEPT !.codes[c] = row]

InsertToken(t, row) == db' = [db EXCEPT !.tokens[t] = row]

UpdateConsumed(c) == db' = [db EXCEPT !.codes[c].consumed = TRUE]

\* Mutant of UpdateRotated: WHERE names the token, not its hash: no row.
UpdateRotatedPlain(t) == t \in Credential /\ UNCHANGED db

UpdateRotated(t) == db' = [db EXCEPT !.tokens[t].rotated = TRUE]

\* Mutant of UpdateRevoked: only the tokens already replaced are revoked.
UpdateRevokedPast(ch) ==
    db' = [db EXCEPT !.tokens =
             [t \in Credential |-> IF InChain(db, ch, t) /\ db.tokens[t].rotated
                                   THEN [db.tokens[t] EXCEPT !.revoked = TRUE]
                                   ELSE db.tokens[t]]]

UpdateRevoked(ch) ==
    db' = [db EXCEPT !.tokens =
             [t \in Credential |-> IF InChain(db, ch, t)
                                   THEN [db.tokens[t] EXCEPT !.revoked = TRUE]
                                   ELSE db.tokens[t]]]

\* COMMIT makes durable whatever any coroutine has run; SQLite refuses it
\* while a writing statement is still open on the connection.
CommitAllowed == cursor = None

\* Mutant of Commit: the statement is left in the open transaction.
CommitForgotten == CommitAllowed /\ UNCHANGED <<db, disk>>

Commit == CommitAllowed /\ disk' = db /\ UNCHANGED db

\* The process dies and starts again: init() opens the file as committed.
Reopen == db' = disk /\ lock' = None /\ cursor' = None /\ UNCHANGED disk

\* Seconds pass.
Tick == clock < MaxTime /\ clock' = clock + 1
=============================================================================
