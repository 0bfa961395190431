-------------------------- MODULE ResolveIdentifier --------------------------
(***************************************************************************)
(* resolve_identifier (server.py) over ResultCache: one round of lookups   *)
(* by the given identifier, a second one by the DOI it brought up, every   *)
(* record merged into the call's answer at the moment it arrives.  The     *)
(* rows are apart from those of verify_citation, whose keys have another   *)
(* prefix.                                                                 *)
(***************************************************************************)
EXTENDS ResultCache, FiniteSets

CONSTANTS
    Call,        \* the calls of resolve_identifier
    Query,       \* what they ask: an identifier, its type, types wanted
    Service,     \* the services that are configured and enabled
    Value,       \* identifiers that records give
    Records,     \* the records each service may give for a work
    TTLResolve,  \* _TTL_RESOLVE
    MayFail,     \* whether the cache may fail, a lookup raise, a call be cancelled
    MayCrash     \* whether the process may die and restart

Type == {"doi", "pmid", "arxiv", "openalex", "semantic_scholar"}
\* _ids_from_record: the identifiers of a record, some missing.
Ids == [Type -> Value \cup {None}]

ASSUME QueryAssumption ==
    \A q \in Query : q.from \in Type => [from |-> q.from, id |-> q.id] \in Key
ASSUME ServiceAssumption == Service \subseteq
    {"crossref", "pubmed", "openalex", "semantic_scholar", "arxiv"}
ASSUME RecordsAssumption == Records \in [Service -> SUBSET Ids]
ASSUME BoundAssumption == TTLResolve \in Nat
ASSUME SwitchAssumption == {MayFail, MayCrash} \subseteq BOOLEAN

VARIABLES
    ask,      \* what each call is about, and its force_refresh
    pc,       \* the await each call is suspended at, or its answer
    seen,     \* the `now' Cache.get has read
    pending,  \* the services a round waits for
    resolved, \* `resolved', which the lookups of a call share
    queried,  \* databases_queried
    told,     \* history: what records said to the call, by type
    result,   \* what the call stores
    answer    \* what it answers

lookupVars == <<pending, resolved, queried, told>>
callVars == <<ask, pc, seen, lookupVars, result, answer>>
vars == <<cacheVars, callVars>>

Missing == [t \in Type |-> None]
Told == [Type -> SUBSET Value]
Identifier == {q.id : q \in Query}
Resolved == [Type -> Value \cup Identifier \cup {None}]
Result == [about : Key, resolved : Resolved, queried : SUBSET Service,
           told : Told, stored : Nat]
\* The identifiers wanted, of those resolved.
Answer == UNION {[to -> Value \cup Identifier \cup {None}] : to \in SUBSET Type}
Ask == [query : Query, force : BOOLEAN]
Rounds == {"round_one", "round_two"}
InCache == {"cache_get", "cache_delete", "delete_commit", "upsert",
            "upsert_commit"}
InFlight == InCache \cup Rounds
Answers == {"ok", "refused", "failed", "lost"}

TypeOK ==
    /\ CacheTypeOK(Result)
    /\ ask \in [Call -> Ask \cup {None}]
    /\ pc \in [Call -> {"new"} \cup InFlight \cup Answers]
    /\ seen \in [Call -> Nat]
    /\ pending \in [Call -> SUBSET Service]
    /\ resolved \in [Call -> Resolved]
    /\ queried \in [Call -> SUBSET Service]
    /\ told \in [Call -> Told]
    /\ result \in [Call -> Result \cup {None}]
    /\ answer \in [Call -> Answer \cup {None}]

NothingYet(c) ==
    /\ pending' = [pending EXCEPT ![c] = {}]
    /\ resolved' = [resolved EXCEPT ![c] = Missing]
    /\ queried' = [queried EXCEPT ![c] = {}]
    /\ told' = [told EXCEPT ![c] = [t \in Type |-> {}]]

Init ==
    /\ CacheInit
    /\ ask = [c \in Call |-> None]
    /\ pc = [c \in Call |-> "new"]
    /\ seen = [c \in Call |-> 0]
    /\ pending = [c \in Call |-> {}]
    /\ resolved = [c \in Call |-> Missing]
    /\ queried = [c \in Call |-> {}]
    /\ told = [c \in Call |-> [t \in Type |-> {}]]
    /\ result = [c \in Call |-> None]
    /\ answer = [c \in Call |-> None]

-----------------------------------------------------------------------------
At(c, here) == pc[c] = here
Goto(c, there) == pc' = [pc EXCEPT ![c] = there]
\* _resolve_cache_key; identifiers are told apart up to its normalisation.
MyKey(c) == [from |-> ask[c].query.from, id |-> ask[c].query.id]

Valid(query) ==
    query.from \in Type /\ query.id # None /\ query.to \subseteq Type

\* Mutant of Asked: clients that are not configured are called as well.
AskedAll(from) ==
    IF from = "doi" THEN {"crossref", "pubmed", "openalex", "semantic_scholar"}
    ELSE IF from = "pmid" THEN {"pubmed", "semantic_scholar"} ELSE {from}

\* Who can be asked by an identifier of a type.
Asked(from) == Service \cap
    CASE from = "doi" -> {"crossref", "pubmed", "openalex", "semantic_scholar"}
      [] from = "pmid" -> {"pubmed", "semantic_scholar"}
      [] from = "arxiv" -> {"arxiv"}
      [] from = "openalex" -> {"openalex"}
      [] from = "semantic_scholar" -> {"semantic_scholar"}

\* The first lookups of c, with `resolved' holding what was given.
StartRounds(c, query) ==
    /\ pending' = [pending EXCEPT ![c] = Asked(query.from)]
    /\ queried' = [queried EXCEPT ![c] = Asked(query.from)]
    /\ resolved' = [resolved EXCEPT ![c] = [Missing EXCEPT ![query.from] = query.id]]
    /\ UNCHANGED told
    /\ Goto(c, "round_one")

\* The call arrives: validation, then Cache.get or the lookups.
Begin(c, query, force) ==
    /\ At(c, "new")
    /\ ask' = [ask EXCEPT ![c] = [query |-> query, force |-> force]]
    /\ \/ ~Valid(query) /\ Goto(c, "refused") /\ UNCHANGED <<seen, lookupVars>>
       \/ /\ Valid(query) /\ ~force
          /\ seen' = [seen EXCEPT ![c] = now]
          /\ Goto(c, "cache_get") /\ UNCHANGED lookupVars
       \/ Valid(query) /\ force /\ StartRounds(c, query) /\ UNCHANGED seen
    /\ UNCHANGED <<cacheVars, result, answer>>

Wanted(c, ids) == [t \in ask[c].query.to |-> ids[t]]

\* The SELECT of Cache.get and what follows it up to the next await.
CacheGet(c) ==
    /\ At(c, "cache_get")
    /\ LET entry == entries[MyKey(c)] IN
       \/ /\ entry = None
          /\ StartRounds(c, ask[c].query)
          /\ UNCHANGED <<result, answer>>
       \/ /\ entry # None /\ Expired(entry, seen[c])
          /\ Goto(c, "cache_delete")
          /\ UNCHANGED <<lookupVars, result, answer>>
       \/ /\ entry # None /\ ~Expired(entry, seen[c])
          /\ result' = [result EXCEPT ![c] = entry.value]
          /\ answer' = [answer EXCEPT ![c] = Wanted(c, entry.value.resolved)]
          /\ Goto(c, "ok")
          /\ UNCHANGED lookupVars
    /\ UNCHANGED <<cacheVars, ask, seen>>

CacheDelete(c) ==
    /\ At(c, "cache_delete")
    /\ Delete(MyKey(c))
    /\ Goto(c, "delete_commit")
    /\ UNCHANGED <<ask, seen, lookupVars, result, answer>>

DeleteCommit(c) ==
    /\ At(c, "delete_commit")
    /\ Commit
    /\ StartRounds(c, ask[c].query)
    /\ UNCHANGED <<ask, seen, result, answer>>

\* _merge_ids: the first record that arrives counts.
Merge(ids, record) == [t \in Type |-> IF ids[t] = None THEN record[t] ELSE ids[t]]

\* A lookup of c ends, with a record or none: the service has no such
\* work, it failed (databases_failed), or arXiv is rate limited (a warning).
Lookup(c, s) ==
    /\ pc[c] \in Rounds /\ s \in pending[c]
    /\ pending' = [pending EXCEPT ![c] = @ \ {s}]
    /\ \E record \in Records[s] \cup {Missing} :
         /\ resolved' = [resolved EXCEPT ![c] = Merge(@, record)]
         /\ told' = [told EXCEPT ![c] = [t \in Type |-> @[t] \cup ({record[t]} \ {None})]]
    /\ UNCHANGED <<cacheVars, ask, pc, seen, queried, result, answer>>

\* CrossrefClient lets the ValueError of a body that is not JSON through:
\* gather raises, and the call with it; nobody reads what the lookups that
\* go on find.
LookupRaises(c) ==
    /\ MayFail
    /\ pc[c] \in Rounds /\ "crossref" \in pending[c]
    /\ Goto(c, "failed")
    /\ NothingYet(c)
    /\ UNCHANGED <<cacheVars, ask, seen, result, answer>>

Own == [openalex |-> "openalex", pubmed |-> "pmid",
        semantic_scholar |-> "semantic_scholar"]

\* Mutant of FollowUps: at most one more lookup.
OneFollowUp(c) ==
    LET missing == {s \in DOMAIN Own \cap Service : resolved[c][Own[s]] = None}
    IN  IF ask[c].query.from = "doi" \/ resolved[c]["doi"] = None \/ missing = {}
        THEN {} ELSE {CHOOSE s \in missing : TRUE}

\* Who is asked again, by the DOI that turned up: the services whose own
\* identifier is still missing.
FollowUps(c) ==
    IF ask[c].query.from = "doi" \/ resolved[c]["doi"] = None THEN {}
    ELSE {s \in DOMAIN Own \cap Service : resolved[c][Own[s]] = None}

\* All lookups of the first round have ended: a second round, if needed.
RoundTwo(c) ==
    /\ At(c, "round_one") /\ pending[c] = {} /\ FollowUps(c) # {}
    /\ pending' = [pending EXCEPT ![c] = FollowUps(c)]
    /\ queried' = [queried EXCEPT ![c] = @ \cup FollowUps(c)]
    /\ Goto(c, "round_two")
    /\ UNCHANGED <<cacheVars, ask, seen, resolved, told, result, answer>>

\* Mutant of Resolve: the answer is cut down before it is stored.
ResolveCut(c) ==
    /\ pc[c] \in Rounds /\ pending[c] = {}
    /\ At(c, "round_one") => FollowUps(c) = {}
    /\ result' = [result EXCEPT ![c] =
           [about |-> MyKey(c),
            resolved |-> [t \in Type |-> IF t \in ask[c].query.to
                                         THEN resolved[c][t] ELSE None],
            queried |-> queried[c], told |-> told[c], stored |-> now]]
    /\ NothingYet(c)
    /\ Goto(c, "upsert")
    /\ UNCHANGED <<cacheVars, ask, seen, answer>>

\* The result is put together, all of `resolved', whatever types are wanted.
Resolve(c) ==
    /\ pc[c] \in Rounds /\ pending[c] = {}
    /\ At(c, "round_one") => FollowUps(c) = {}
    /\ result' = [result EXCEPT ![c] =
           [about |-> MyKey(c), resolved |-> resolved[c], queried |-> queried[c],
            told |-> told[c], stored |-> now]]
    /\ NothingYet(c)
    /\ Goto(c, "upsert")
    /\ UNCHANGED <<cacheVars, ask, seen, answer>>

CacheSet(c) ==
    /\ At(c, "upsert")
    /\ Upsert(MyKey(c), result[c], result[c].stored + TTLResolve)
    /\ Goto(c, "upsert_commit")
    /\ UNCHANGED <<ask, seen, lookupVars, result, answer>>

SetCommit(c) ==
    /\ At(c, "upsert_commit")
    /\ Commit
    /\ answer' = [answer EXCEPT ![c] = Wanted(c, result[c].resolved)]
    /\ Goto(c, "ok")
    /\ UNCHANGED <<ask, seen, lookupVars, result>>

\* A statement or a commit of the cache raises; nothing catches it.
CacheRaises(c) ==
    /\ MayFail
    /\ pc[c] \in InCache
    /\ Goto(c, "failed")
    /\ result' = [result EXCEPT ![c] = None]
    /\ UNCHANGED <<cacheVars, ask, seen, lookupVars, answer>>

\* The call is cancelled, and its lookups with it; a statement that SQLite's
\* thread was handed is executed all the same.
Cancel(c) ==
    /\ MayFail
    /\ \/ pc[c] \in Rounds \cup {"cache_get"} /\ UNCHANGED cacheVars
       \/ At(c, "cache_delete") /\ Delete(MyKey(c))
       \/ At(c, "upsert") /\ Upsert(MyKey(c), result[c], result[c].stored + TTLResolve)
       \/ pc[c] \in {"delete_commit", "upsert_commit"} /\ Commit
    /\ Goto(c, "failed")
    /\ NothingYet(c)
    /\ result' = [result EXCEPT ![c] = None]
    /\ UNCHANGED <<ask, seen, answer>>

\* The process dies and starts again, with the table as it was committed.
Crash ==
    /\ MayCrash
    /\ \E c \in Call : pc[c] \in InFlight
    /\ Reopen
    /\ pc' = [c \in Call |-> IF pc[c] \in InFlight THEN "lost" ELSE pc[c]]
    /\ result' = [c \in Call |-> IF pc[c] \in InFlight THEN None ELSE result[c]]
    /\ pending' = [c \in Call |-> {}]
    /\ resolved' = [c \in Call |-> Missing]
    /\ queried' = [c \in Call |-> {}]
    /\ told' = [c \in Call |-> [t \in Type |-> {}]]
    /\ UNCHANGED <<ask, seen, answer>>

ClockTicks == Tick /\ UNCHANGED callVars

Step(c) ==
    \/ CacheGet(c) \/ CacheDelete(c) \/ DeleteCommit(c)
    \/ (\E s \in Service : Lookup(c, s)) \/ LookupRaises(c)
    \/ RoundTwo(c) \/ Resolve(c) \/ CacheSet(c) \/ SetCommit(c) \/ CacheRaises(c)

Next ==
    \/ \E c \in Call, query \in Query, force \in BOOLEAN : Begin(c, query, force)
    \/ \E c \in Call : Step(c) \/ Cancel(c)
    \/ Crash \/ ClockTicks

Spec == Init /\ [][Next]_vars

-----------------------------------------------------------------------------
\* "returns the corresponding identifiers in each requested target system"
\* (server.py:134-136): an answer, from the cache or not, has for each type
\* wanted what some record said in the lookups it goes back to, and nothing
\* only where no record said anything; what was given comes back as it was.
\* So while the records agree, it does not matter who was faster.
AnsweredAsTold ==
    \A c \in Call : pc[c] = "ok" =>
        /\ result[c].about = MyKey(c)
        /\ DOMAIN answer[c] = ask[c].query.to
        /\ \A t \in ask[c].query.to :
             IF t = ask[c].query.from THEN answer[c][t] = ask[c].query.id
             ELSE IF result[c].told[t] = {} THEN answer[c][t] = None
             ELSE answer[c][t] \in result[c].told[t]

\* With a DOI in hand, each service whose own identifier is missing in the
\* answer was asked (server.py:672-673).
NoServiceForgotten ==
    \A c \in Call : pc[c] = "ok" /\ result[c].resolved["doi"] # None =>
        \A s \in DOMAIN Own \cap Service :
            result[c].resolved[Own[s]] = None => s \in result[c].queried

-----------------------------------------------------------------------------
\* The inductive invariant behind AnsweredAsTold and NoServiceForgotten.

\* What was given came back, and of the rest what some record said.
TellsAll(ids, said, key) ==
    /\ ids[key.from] = key.id
    /\ \A t \in Type \ {key.from} :
         IF said[t] = {} THEN ids[t] = None ELSE ids[t] \in said[t]

NobodyMissed(ids, asked) ==
    \A s \in DOMAIN Own \cap Service : ids[Own[s]] = None => s \in asked

ValueInv(value) ==
    /\ TellsAll(value.resolved, value.told, value.about)
    /\ value.resolved["doi"] # None => NobodyMissed(value.resolved, value.queried)

RowsInv(table) == \A k \in Key : table[k] # None =>
    table[k].value.about = k /\ ValueInv(table[k].value)

\* A round has heard what it was told; given a DOI, all were asked in the
\* first round, and in the second all that it leaves missing.
RoundInv(c) ==
    /\ pc[c] \notin Rounds => told[c] = [t \in Type |-> {}]
    /\ pc[c] \in Rounds => TellsAll(resolved[c], told[c], MyKey(c))
    /\ pc[c] = "round_one" /\ ask[c].query.from = "doi" =>
         DOMAIN Own \cap Service \subseteq queried[c]
    /\ pc[c] = "round_two" => NobodyMissed(resolved[c], queried[c])

CallInv(c) ==
    /\ pc[c] # "new" => ask[c] \in Ask
    /\ pc[c] \notin {"new", "refused"} => Valid(ask[c].query)
    /\ RoundInv(c)
    /\ pc[c] \in {"upsert", "upsert_commit", "ok"} =>
         result[c] \in Result /\ result[c].about = MyKey(c) /\ ValueInv(result[c])
    /\ pc[c] = "ok" => answer[c] = Wanted(c, result[c].resolved)

ResolveInv ==
    /\ TypeOK
    /\ RowsInv(entries)
    /\ RowsInv(file)
    /\ \A c \in Call : CallInv(c)
=============================================================================
