----------------------------- MODULE ResultCache -----------------------------
(***************************************************************************)
(* The result cache (cache.py): one SQLite table of results with an expiry *)
(* time, over one connection that all calls share.  A statement takes      *)
(* effect in the open transaction, a commit makes the transaction durable, *)
(* and each is an await of its own.  Cache.purge_expired, which nothing in *)
(* the server calls, is left out.                                          *)
(***************************************************************************)
EXTENDS Naturals

CONSTANTS
    Key,      \* the keys of the rows
    None,     \* a column or argument that is absent, a row that is missing
    MaxTime   \* bound on the clock

ASSUME MaxTimeAssumption == MaxTime \in Nat

VARIABLES
    entries,  \* the table as the next statement sees it
    file,     \* the table as committed
    now       \* time.time()

cacheVars == <<entries, file, now>>

\* Tables of the given results.
Table(Result) == [Key -> [value : Result, expires : Nat] \cup {None}]

CacheTypeOK(Result) ==
    /\ entries \in Table(Result)
    /\ file \in Table(Result)
    /\ now \in Nat

CacheInit ==
    /\ entries = [k \in Key |-> None]
    /\ file = [k \in Key |-> None]
    /\ now = 0

-----------------------------------------------------------------------------

\* Mutant of Expired: a row is served in the second it expires.
ExpiredLate(entry, at) == entry.expires < at

Expired(entry, at) == entry.expires <= at

Delete(k) ==
    /\ entries' = [entries EXCEPT ![k] = None]
    /\ UNCHANGED <<file, now>>

\* Mutant of Upsert: ON CONFLICT DO NOTHING.
InsertIfNone(k, value, expires) ==
    /\ entries' = [entries EXCEPT ![k] =
           IF @ # None THEN @ ELSE [value |-> value, expires |-> expires]]
    /\ UNCHANGED <<file, now>>

\* Mutant of Upsert: DO UPDATE sets the value and forgets expires_at.
UpsertKeepsExpiry(k, value, expires) ==
    /\ entries' = [entries EXCEPT ![k] = [value |-> value,
           expires |-> IF @ # None THEN @.expires ELSE expires]]
    /\ UNCHANGED <<file, now>>

\* INSERT ... ON CONFLICT DO UPDATE.
Upsert(k, value, expires) ==
    /\ entries' = [entries EXCEPT ![k] = [value |-> value, expires |-> expires]]
    /\ UNCHANGED <<file, now>>

\* The connection has one transaction: a commit takes along the statements
\* of every other call.
Commit ==
    /\ file' = entries
    /\ UNCHANGED <<entries, now>>

\* The process died and started again: the open transaction is gone.
Reopen ==
    /\ entries' = file
    /\ UNCHANGED <<file, now>>

Tick ==
    /\ now < MaxTime
    /\ now' = now + 1
    /\ UNCHANGED <<entries, file>>
=============================================================================
