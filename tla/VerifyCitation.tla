--------------------------- MODULE VerifyCitation ---------------------------
(***************************************************************************)
(* verify_citation (server.py) over ResultCache: look in the cache, ask    *)
(* the configured services at the same time, gather, store, answer; any    *)
(* number of calls interleaved on the event loop, one action per await.    *)
(* What a service answers is a choice; how its client paces and retries is *)
(* left to other modules, how candidates are scored is left open: a lookup *)
(* ends in a record that passes the guards or in nothing.                  *)
(***************************************************************************)
EXTENDS ResultCache, FiniteSets

CONSTANTS
    Call,        \* the calls of verify_citation
    Citation,    \* the citations asked about
    Service,     \* the services that are configured
    TTLMatch,    \* _TTL_MATCH
    TTLNoMatch,  \* _TTL_NO_MATCH
    MaxVersion,  \* bound on the changes of what the services hold
    MayRaise,    \* whether Crossref may answer 200 with a body not JSON
    MayFail,     \* whether lookups and statements of the cache may fail
    MayCancel,   \* whether a call may be cancelled
    MayCrash     \* whether the process may die and restart

\* make_cache_key: the DOI if there is one, else title, first author and
\* year, of which `title' here stands for all three.  DOIs and titles are
\* told apart up to normalize_doi and normalize_title.
KeyOf(c) == IF c.doi # None THEN [doi |-> c.doi] ELSE [meta |-> c.title]

ASSUME ServiceAssumption ==
    "crossref" \in Service /\ Service \subseteq
        {"crossref", "pubmed", "openalex", "semantic_scholar", "arxiv"}
ASSUME KeyAssumption == \A c \in Citation : KeyOf(c) \in Key
ASSUME TTLAssumption ==
    TTLMatch \in Nat /\ TTLNoMatch \in Nat /\ TTLNoMatch <= TTLMatch
ASSUME SwitchAssumption == {MayRaise, MayFail, MayCancel, MayCrash} \subseteq BOOLEAN

VARIABLES
    ask,      \* what each call is about: citation and force_refresh
    pc,       \* the await each call is suspended at, or its answer
    seen,     \* the `now' Cache.get has read
    found,    \* how the lookup at each service stands
    asof,     \* version of the services' contents when the last lookup ended
    result,   \* what the call stores and answers
    cached,   \* whether the answer came from the cache
    version,  \* version of the services' contents
    before    \* history: version when the call began, calls that were over by then

callVars == <<ask, pc, seen, found, asof, result, cached, before>>
vars == <<cacheVars, callVars, version>>

\* What a call stores and answers: the citation it was computed for, the
\* services that confirmed it, those that failed, and, as history, how
\* recent it is and when it was stored.
Result == [about : Citation, confirmed : SUBSET Service,
           failed : SUBSET Service, asof : Nat, stored : Nat]
Ask == [citation : Citation, force : BOOLEAN]

ASSUME NoneAssumption ==
    None \notin Ask \cup Result \cup [value : Result, expires : Nat]

Outcome == {"match", "nothing", "limited", "error", "raised"}
InCache == {"cache_get", "cache_delete", "delete_commit", "upsert",
            "upsert_commit"}
InFlight == InCache \cup {"fan_out", "gather"}
\* Success, invalid input, an exception (a tool error, or cancelled), the
\* process died.
Answers == {"ok", "refused", "failed", "lost"}

TypeOK ==
    /\ CacheTypeOK(Result)
    /\ ask \in [Call -> Ask \cup {None}]
    /\ pc \in [Call -> {"new"} \cup InFlight \cup Answers]
    /\ seen \in [Call -> Nat]
    /\ found \in [Call -> [Service -> Outcome \cup {"pending", None}]]
    /\ asof \in [Call -> Nat]
    /\ result \in [Call -> Result \cup {None}]
    /\ cached \in [Call -> BOOLEAN]
    /\ version \in Nat
    /\ before \in [Call -> [version : Nat, done : SUBSET Call]]

NotAsked == [s \in Service |-> None]

Init ==
    /\ CacheInit
    /\ ask = [c \in Call |-> None]
    /\ pc = [c \in Call |-> "new"]
    /\ seen = [c \in Call |-> 0]
    /\ found = [c \in Call |-> NotAsked]
    /\ asof = [c \in Call |-> 0]
    /\ result = [c \in Call |-> None]
    /\ cached = [c \in Call |-> FALSE]
    /\ version = 0
    /\ before = [c \in Call |-> [version |-> 0, done |-> {}]]

-----------------------------------------------------------------------------
At(c, here) == pc[c] = here
Goto(c, there) == pc' = [pc EXCEPT ![c] = there]
\* Mutant of MyKey: the DOI is passed over.
TitleKey(c) == [meta |-> ask[c].citation.title]

MyKey(c) == KeyOf(ask[c].citation)

\* Mutant of FirstAwait: force_refresh is not looked at.
FirstAwaitCached(citation, force) ==
    IF citation.doi = None /\ citation.pmid = None /\ citation.title = None
    THEN "refused"
    ELSE "cache_get"

\* Input validation, then either past the cache or Cache.get.
FirstAwait(citation, force) ==
    IF citation.doi = None /\ citation.pmid = None /\ citation.title = None
    THEN "refused"
    ELSE IF force THEN "fan_out" ELSE "cache_get"

\* The call arrives; Cache.get reads the clock before its SELECT.
Begin(c, citation, force) ==
    /\ At(c, "new")
    /\ ask' = [ask EXCEPT ![c] = [citation |-> citation, force |-> force]]
    /\ before' = [before EXCEPT ![c] =
           [version |-> version, done |-> {d \in Call : pc[d] \in Answers}]]
    /\ seen' = [seen EXCEPT ![c] = now]
    /\ Goto(c, FirstAwait(citation, force))
    /\ UNCHANGED <<cacheVars, found, asof, result, cached, version>>

\* The SELECT of Cache.get and what follows it up to the next await.
CacheGet(c) ==
    /\ At(c, "cache_get")
    /\ LET entry == entries[MyKey(c)] IN
       \/ /\ entry = None
          /\ Goto(c, "fan_out")
          /\ UNCHANGED <<result, cached>>
       \/ /\ entry # None /\ Expired(entry, seen[c])
          /\ Goto(c, "cache_delete")
          /\ UNCHANGED <<result, cached>>
       \/ /\ entry # None /\ ~Expired(entry, seen[c])
          /\ result' = [result EXCEPT ![c] = entry.value]
          /\ cached' = [cached EXCEPT ![c] = TRUE]
          /\ Goto(c, "ok")
    /\ UNCHANGED <<cacheVars, ask, seen, found, asof, version, before>>

\* Cache.delete: by key, whatever the row is by now.
CacheDelete(c) ==
    /\ At(c, "cache_delete")
    /\ Delete(MyKey(c))
    /\ Goto(c, "delete_commit")
    /\ UNCHANGED <<ask, seen, found, asof, result, cached, version, before>>

DeleteCommit(c) ==
    /\ At(c, "delete_commit")
    /\ Commit
    /\ Goto(c, "fan_out")
    /\ UNCHANGED <<ask, seen, found, asof, result, cached, version, before>>

\* The strategy of _fetch_from_db: what service s is asked for.
Strategy(citation, s) ==
    CASE citation.doi # None -> "doi"
      [] citation.doi = None /\ citation.pmid # None
           /\ s \in {"pubmed", "semantic_scholar"} -> "pmid"
      [] citation.doi = None /\ citation.arxiv # None /\ s = "arxiv" -> "arxiv_id"
      [] OTHER -> IF citation.title # None THEN "metadata" ELSE "none"

\* arXiv is consulted only for citations with an arXiv id.
Consulted(citation) ==
    {s \in Service : s = "arxiv" => citation.arxiv # None}

\* The lookups start; one without a strategy ends at once, with nothing.
FanOut(c) ==
    /\ At(c, "fan_out")
    /\ found' = [found EXCEPT ![c] = [s \in Service |->
           IF s \notin Consulted(ask[c].citation) THEN None
           ELSE IF Strategy(ask[c].citation, s) = "none" THEN "nothing"
           ELSE "pending"]]
    /\ asof' = [asof EXCEPT ![c] = version]
    /\ seen' = [seen EXCEPT ![c] = 0]
    /\ Goto(c, "gather")
    /\ UNCHANGED <<cacheVars, ask, result, cached, version, before>>

\* What a lookup may end in: a record that passes the guards of the scorer,
\* none that does, an httpx.HTTPError or RuntimeError; arXiv may tell that
\* it is rate limited; and the decoding of a body raises ValueError, which
\* only CrossrefClient lets through to the gather.
Outcomes(s) ==
    {"match", "nothing"}
        \cup (IF MayFail THEN {"error"} ELSE {})
        \cup (IF s = "arxiv" THEN {"limited"} ELSE {})
        \cup (IF s = "crossref" /\ MayRaise THEN {"raised"} ELSE {})

\* A lookup ends.
Lookup(c, s) ==
    /\ At(c, "gather")
    /\ found[c][s] = "pending"
    /\ \E o \in Outcomes(s) : found' = [found EXCEPT ![c][s] = o]
    /\ asof' = [asof EXCEPT ![c] = version]
    /\ UNCHANGED <<cacheVars, ask, pc, seen, result, cached, version, before>>

\* gather without return_exceptions: the first exception ends the call.
\* The other lookups go on, but nobody reads them.
GatherRaises(c) ==
    /\ At(c, "gather")
    /\ \E s \in Service : found[c][s] = "raised"
    /\ found' = [found EXCEPT ![c] = NotAsked]
    /\ asof' = [asof EXCEPT ![c] = 0]
    /\ Goto(c, "failed")
    /\ UNCHANGED <<cacheVars, ask, seen, result, cached, version, before>>

\* All lookups have ended: the result is put together, its expiry computed
\* from the clock of this moment.
Asked(c, o) == {s \in Service : found[c][s] = o}

Gather(c) ==
    /\ At(c, "gather")
    /\ Asked(c, "pending") \cup Asked(c, "raised") = {}
    /\ result' = [result EXCEPT ![c] =
           [about |-> ask[c].citation, confirmed |-> Asked(c, "match"),
            failed |-> Asked(c, "error"), asof |-> asof[c], stored |-> now]]
    /\ found' = [found EXCEPT ![c] = NotAsked]
    /\ asof' = [asof EXCEPT ![c] = 0]
    /\ Goto(c, "upsert")
    /\ UNCHANGED <<cacheVars, ask, seen, cached, version, before>>

TTL(verdict) == IF verdict.confirmed # {} THEN TTLMatch ELSE TTLNoMatch

\* Cache.set, its statement and its commit.
CacheSet(c) ==
    /\ At(c, "upsert")
    /\ Upsert(MyKey(c), result[c], result[c].stored + TTL(result[c]))
    /\ Goto(c, "upsert_commit")
    /\ UNCHANGED <<ask, seen, found, asof, result, cached, version, before>>

SetCommit(c) ==
    /\ At(c, "upsert_commit")
    /\ Commit
    /\ Goto(c, "ok")
    /\ UNCHANGED <<ask, seen, found, asof, result, cached, version, before>>

\* A statement or a commit of the cache raises (another process has the file
\* locked, the disk is full); nothing catches it.  What was executed
\* before stays in the transaction.
CacheRaises(c) ==
    /\ MayFail
    /\ pc[c] \in InCache
    /\ Goto(c, "failed")
    /\ result' = [result EXCEPT ![c] = None]
    /\ seen' = [seen EXCEPT ![c] = 0]
    /\ UNCHANGED <<cacheVars, ask, found, asof, cached, version, before>>

\* The call is cancelled, by its client or with the batch it belongs to, and
\* its lookups with it.  SQLite's thread executes what it was handed all the
\* same: a row written stays in the open transaction for the next commit.
Cancel(c) ==
    /\ MayCancel
    /\ \/ pc[c] \in {"cache_get", "fan_out", "gather"} /\ UNCHANGED cacheVars
       \/ At(c, "cache_delete") /\ Delete(MyKey(c))
       \/ At(c, "upsert") /\ Upsert(MyKey(c), result[c], result[c].stored + TTL(result[c]))
       \/ pc[c] \in {"delete_commit", "upsert_commit"} /\ Commit
    /\ Goto(c, "failed")
    /\ found' = [found EXCEPT ![c] = NotAsked]
    /\ asof' = [asof EXCEPT ![c] = 0]
    /\ result' = [result EXCEPT ![c] = None]
    /\ seen' = [seen EXCEPT ![c] = 0]
    /\ UNCHANGED <<ask, cached, version, before>>

\* The process dies and starts again, with the table as it was committed.
Crash ==
    /\ MayCrash
    /\ \E c \in Call : pc[c] \in InFlight
    /\ Reopen
    /\ pc' = [c \in Call |-> IF pc[c] \in InFlight THEN "lost" ELSE pc[c]]
    /\ result' = [c \in Call |-> IF pc[c] \in InFlight THEN None ELSE result[c]]
    /\ found' = [c \in Call |-> NotAsked]
    /\ UNCHANGED <<ask, seen, asof, cached, version, before>>

\* The services learn something new.
ContentsChange ==
    /\ version < MaxVersion
    /\ version' = version + 1
    /\ UNCHANGED <<cacheVars, callVars>>

ClockTicks == Tick /\ UNCHANGED <<callVars, version>>

Step(c) ==
    \/ CacheGet(c) \/ CacheDelete(c) \/ DeleteCommit(c)
    \/ FanOut(c) \/ (\E s \in Service : Lookup(c, s)) \/ GatherRaises(c)
    \/ Gather(c) \/ CacheSet(c) \/ SetCommit(c) \/ CacheRaises(c)

Environment == Crash \/ ContentsChange \/ ClockTicks

Next ==
    \/ \E c \in Call, citation \in Citation, force \in BOOLEAN :
           Begin(c, citation, force)
    \/ \E c \in Call : Step(c) \/ Cancel(c)
    \/ Environment

Spec == Init /\ [][Next]_vars
=============================================================================
