---------------------------- MODULE ResolveProofs ----------------------------
(***************************************************************************)
(* What resolve_identifier answers, for any number of calls, any services, *)
(* records in any order and disagreement, and any failures, restarts and   *)
(* expiry.                                                                 *)
(***************************************************************************)
EXTENDS ResolveIdentifier, TLAPS

LEMMA MyKeyIsKey ==
    ASSUME NEW c \in Call, ask[c] \in Ask, Valid(ask[c].query)
    PROVE  MyKey(c) \in Key /\ MyKey(c).from = ask[c].query.from /\ MyKey(c).id = ask[c].query.id
BY QueryAssumption DEF MyKey, Ask, Valid

\* A result stays what it is whatever happens to the row it came from.
LEMMA RowsKept ==
    ASSUME NEW table, NEW k \in Key, RowsInv(table),
           NEW value, value.about = k, ValueInv(value), NEW expires,
           table \in Table(Result)
    PROVE  /\ RowsInv([table EXCEPT ![k] = None])
           /\ RowsInv([table EXCEPT ![k] = [value |-> value, expires |-> expires]])
BY DEF RowsInv, Table

\* What an action of another call leaves of a call.
Untouched(d) ==
    /\ ask'[d] = ask[d] /\ pc'[d] = pc[d] /\ resolved'[d] = resolved[d]
    /\ queried'[d] = queried[d] /\ told'[d] = told[d]
    /\ result'[d] = result[d] /\ answer'[d] = answer[d]

LEMMA UntouchedKeeps ==
    ASSUME NEW d \in Call, CallInv(d), Untouched(d)
    PROVE  CallInv(d)'
<1>1. MyKey(d)' = MyKey(d)
  BY DEF Untouched, MyKey
<1>2. RoundInv(d)'
  BY <1>1 DEF Untouched, CallInv, RoundInv
<1> QED
  BY <1>1, <1>2 DEF Untouched, CallInv, Wanted

LEMMA MissingIsIds == Missing \in Ids /\ Missing \in Resolved
BY DEF Missing, Ids, Resolved

LEMMA WantedIsAnswer ==
    ASSUME NEW c \in Call, ask[c] \in Ask, Valid(ask[c].query), NEW ids \in Resolved
    PROVE  Wanted(c, ids) \in Answer
<1> DEFINE to == ask[c].query.to
<1>1. to \in SUBSET Type
  BY DEF Valid
<1>2. Wanted(c, ids) \in [to -> Value \cup Identifier \cup {None}]
  BY <1>1 DEF Wanted, Resolved
<1> QED
  BY <1>1, <1>2 DEF Answer

\* The first lookups: by then only what was given is resolved.
LEMMA Starts ==
    ASSUME TypeOK, NEW c \in Call, NEW query \in Query, Valid(query), StartRounds(c, query),
           told[c] = [t \in Type |-> {}]
    PROVE  /\ pc' = [pc EXCEPT ![c] = "round_one"] /\ UNCHANGED told
           /\ pending' \in [Call -> SUBSET Service]
           /\ resolved' \in [Call -> Resolved] /\ queried' \in [Call -> SUBSET Service]
           /\ TellsAll(resolved'[c], told[c], [from |-> query.from, id |-> query.id])
           /\ query.from = "doi" => DOMAIN Own \cap Service \subseteq queried'[c]
           /\ \A d \in Call \ {c} : resolved'[d] = resolved[d] /\ queried'[d] = queried[d]
<1> DEFINE given == [Missing EXCEPT ![query.from] = query.id]
<1>1. query.from \in Type /\ query.id \in Identifier
  BY DEF Valid, Identifier
<1>2. given \in Resolved /\ given[query.from] = query.id
      /\ \A t \in Type \ {query.from} : given[t] = None
  BY <1>1 DEF Missing, Resolved
<1>3. Asked(query.from) \in SUBSET Service
  BY DEF Asked
<1>4. DOMAIN Own = {"openalex", "pubmed", "semantic_scholar"}
  BY DEF Own
<1>5. query.from = "doi" => DOMAIN Own \cap Service \subseteq Asked(query.from)
  BY <1>4 DEF Asked
<1>6. TellsAll(given, told[c], [from |-> query.from, id |-> query.id])
  BY <1>2 DEF TellsAll
<1> QED
  BY <1>2, <1>3, <1>5, <1>6 DEF StartRounds, Goto, TypeOK

-----------------------------------------------------------------------------
LEMMA InvInit == Init => ResolveInv
<1> SUFFICES ASSUME Init PROVE ResolveInv
  OBVIOUS
<1>1. TypeOK
  BY MissingIsIds DEF Init, CacheInit, TypeOK, CacheTypeOK, Table, Told
<1>2. RowsInv(entries) /\ RowsInv(file)
  BY DEF Init, CacheInit, RowsInv
<1>3. \A c \in Call : CallInv(c)
  BY DEF Init, CallInv, RoundInv, Rounds
<1> QED
  BY <1>1, <1>2, <1>3 DEF ResolveInv

LEMMA BeginKeeps ==
    ASSUME ResolveInv, NEW c \in Call, NEW query \in Query, NEW force \in BOOLEAN,
           Begin(c, query, force)
    PROVE  ResolveInv'
<1> USE DEF ResolveInv
<1>1. /\ pc[c] = "new" /\ told[c] = [t \in Type |-> {}]
      /\ UNCHANGED <<entries, file, now, result, answer>>
      /\ ask' = [ask EXCEPT ![c] = [query |-> query, force |-> force]]
  BY DEF Begin, At, CallInv, RoundInv, Rounds, cacheVars
<1>2. ask' \in [Call -> Ask \cup {None}] /\ ask'[c].query = query /\ ask'[c] \in Ask
      /\ \A d \in Call \ {c} : ask'[d] = ask[d]
  BY <1>1 DEF TypeOK, Ask
<1>3. RowsInv(entries)' /\ RowsInv(file)'
  BY <1>1 DEF RowsInv
<1>4. CASE ~Valid(query) /\ Goto(c, "refused") /\ UNCHANGED <<seen, lookupVars>>
  <2>1. TypeOK'
    BY <1>1, <1>2, <1>4 DEF TypeOK, CacheTypeOK, Goto, lookupVars, Answers
  <2>2. CallInv(c)'
    BY <1>1, <1>2, <1>4 DEF TypeOK, Goto, lookupVars, CallInv, RoundInv, Rounds
  <2>3. ASSUME NEW d \in Call \ {c} PROVE CallInv(d)'
    BY <1>1, <1>2, <1>4, UntouchedKeeps DEF TypeOK, Goto, lookupVars, Untouched
  <2> QED
    BY <1>3, <2>1, <2>2, <2>3
<1>5. CASE Valid(query) /\ ~force /\ seen' = [seen EXCEPT ![c] = now]
           /\ Goto(c, "cache_get") /\ UNCHANGED lookupVars
  <2>1. TypeOK'
    BY <1>1, <1>2, <1>5 DEF TypeOK, CacheTypeOK, Goto, lookupVars, InFlight, InCache
  <2>2. CallInv(c)'
    BY <1>1, <1>2, <1>5 DEF TypeOK, Goto, lookupVars, CallInv, RoundInv, Rounds
  <2>3. ASSUME NEW d \in Call \ {c} PROVE CallInv(d)'
    BY <1>1, <1>2, <1>5, UntouchedKeeps DEF TypeOK, Goto, lookupVars, Untouched
  <2> QED
    BY <1>3, <2>1, <2>2, <2>3
<1>6. CASE Valid(query) /\ StartRounds(c, query) /\ UNCHANGED seen
  <2>1. /\ pc' = [pc EXCEPT ![c] = "round_one"] /\ UNCHANGED told
        /\ pending' \in [Call -> SUBSET Service]
        /\ resolved' \in [Call -> Resolved] /\ queried' \in [Call -> SUBSET Service]
        /\ TellsAll(resolved'[c], told[c], [from |-> query.from, id |-> query.id])
        /\ query.from = "doi" => DOMAIN Own \cap Service \subseteq queried'[c]
        /\ \A d \in Call \ {c} : resolved'[d] = resolved[d] /\ queried'[d] = queried[d]
    BY <1>1, <1>6, Starts
  <2>2. TypeOK'
    BY <1>1, <1>2, <1>6, <2>1 DEF TypeOK, CacheTypeOK, InFlight, Rounds
  <2>3. MyKey(c)' = [from |-> query.from, id |-> query.id]
    BY <1>2 DEF MyKey
  <2>4. RoundInv(c)'
    BY <1>2, <2>1, <2>3 DEF TypeOK, RoundInv, Rounds
  <2>5. CallInv(c)'
    BY <1>2, <1>6, <2>1, <2>4 DEF TypeOK, CallInv
  <2>6. ASSUME NEW d \in Call \ {c} PROVE CallInv(d)'
    BY <1>1, <1>2, <2>1, UntouchedKeeps DEF TypeOK, Untouched
  <2> QED
    BY <1>3, <2>2, <2>5, <2>6
<1> QED
  BY <1>4, <1>5, <1>6 DEF Begin

\* The lookups of a call start after its rows were looked at, too.
LEMMA StartsKeeps ==
    ASSUME TypeOK, NEW c \in Call, CallInv(c), StartRounds(c, ask[c].query),
           pc[c] \in InCache, UNCHANGED <<ask, result, answer>>
    PROVE  /\ pc' \in [Call -> {"new"} \cup InFlight \cup Answers]
           /\ pending' \in [Call -> SUBSET Service]
           /\ resolved' \in [Call -> Resolved] /\ queried' \in [Call -> SUBSET Service]
           /\ told' \in [Call -> Told]
           /\ CallInv(c)'
           /\ \A d \in Call \ {c} : Untouched(d)
<1>1. /\ told[c] = [t \in Type |-> {}] /\ Valid(ask[c].query) /\ ask[c] \in Ask
      /\ pc[c] # "new"
  BY DEF CallInv, RoundInv, Rounds, InCache
<1>2. ask[c].query \in Query
  BY <1>1 DEF Ask
<1>3. /\ pc' = [pc EXCEPT ![c] = "round_one"] /\ UNCHANGED told
      /\ pending' \in [Call -> SUBSET Service]
      /\ resolved' \in [Call -> Resolved] /\ queried' \in [Call -> SUBSET Service]
      /\ TellsAll(resolved'[c], told[c], MyKey(c))
      /\ ask[c].query.from = "doi" => DOMAIN Own \cap Service \subseteq queried'[c]
      /\ \A d \in Call \ {c} : resolved'[d] = resolved[d] /\ queried'[d] = queried[d]
  BY <1>1, <1>2, Starts DEF MyKey
<1>4. MyKey(c)' = MyKey(c) /\ pc'[c] = "round_one"
  BY <1>3 DEF MyKey, TypeOK
<1>5. RoundInv(c)'
  BY <1>3, <1>4 DEF RoundInv, Rounds
<1>6. CallInv(c)'
  BY <1>1, <1>4, <1>5 DEF CallInv
<1> QED
  BY <1>3, <1>6 DEF TypeOK, InFlight, Rounds, Untouched

LEMMA CacheGetKeeps ==
    ASSUME ResolveInv, NEW c \in Call, CacheGet(c)
    PROVE  ResolveInv'
<1> USE DEF ResolveInv
<1> DEFINE entry == entries[MyKey(c)]
<1>1. /\ pc[c] = "cache_get" /\ ask[c] \in Ask /\ Valid(ask[c].query)
      /\ told[c] = [t \in Type |-> {}]
      /\ UNCHANGED <<entries, file, now, ask, seen>>
  BY DEF CacheGet, At, CallInv, RoundInv, Rounds, cacheVars
<1>2. MyKey(c) \in Key
  BY <1>1, MyKeyIsKey
<1>3. RowsInv(entries)' /\ RowsInv(file)'
  BY <1>1 DEF RowsInv
<1>4. CASE StartRounds(c, ask[c].query) /\ UNCHANGED <<result, answer>>
  <2>1. pc[c] \in InCache
    BY <1>1 DEF InCache
  <2>2. /\ pc' \in [Call -> {"new"} \cup InFlight \cup Answers]
        /\ pending' \in [Call -> SUBSET Service]
        /\ resolved' \in [Call -> Resolved] /\ queried' \in [Call -> SUBSET Service]
        /\ told' \in [Call -> Told]
        /\ CallInv(c)'
        /\ \A d \in Call \ {c} : Untouched(d)
    BY <1>1, <1>4, <2>1, StartsKeeps
  <2>3. \A d \in Call \ {c} : CallInv(d)'
    BY <2>2, UntouchedKeeps
  <2>4. TypeOK'
    BY <1>1, <1>4, <2>2 DEF TypeOK, CacheTypeOK
  <2> QED
    BY <1>3, <2>2, <2>3, <2>4
<1>5. CASE Goto(c, "cache_delete") /\ UNCHANGED <<lookupVars, result, answer>>
  <2>1. TypeOK'
    BY <1>1, <1>5 DEF TypeOK, CacheTypeOK, Goto, lookupVars, InFlight, InCache
  <2>2. CallInv(c)'
    BY <1>1, <1>5 DEF TypeOK, Goto, lookupVars, CallInv, RoundInv, Rounds
  <2>3. ASSUME NEW d \in Call \ {c} PROVE CallInv(d)'
    BY <1>1, <1>5, UntouchedKeeps DEF TypeOK, Goto, lookupVars, Untouched
  <2> QED
    BY <1>3, <2>1, <2>2, <2>3
<1>6. CASE /\ entry # None /\ UNCHANGED lookupVars
           /\ result' = [result EXCEPT ![c] = entry.value]
           /\ answer' = [answer EXCEPT ![c] = Wanted(c, entry.value.resolved)]
           /\ Goto(c, "ok")
  <2>1. /\ entry.value \in Result /\ entry.value.about = MyKey(c) /\ ValueInv(entry.value)
    BY <1>2, <1>6 DEF TypeOK, CacheTypeOK, Table, RowsInv
  <2>2. Wanted(c, entry.value.resolved) \in Answer
    BY <1>1, <2>1, WantedIsAnswer DEF Result
  <2>3. TypeOK'
    BY <1>1, <1>6, <2>1, <2>2 DEF TypeOK, CacheTypeOK, Goto, lookupVars, Answers
  <2>4. /\ result'[c] = entry.value /\ answer'[c] = Wanted(c, entry.value.resolved)
        /\ pc'[c] = "ok" /\ MyKey(c)' = MyKey(c) /\ told' = told
    BY <1>1, <1>6 DEF TypeOK, Goto, MyKey, lookupVars
  <2>5. CallInv(c)'
    BY <1>1, <2>1, <2>4 DEF CallInv, RoundInv, Rounds, Wanted
  <2>6. ASSUME NEW d \in Call \ {c} PROVE CallInv(d)'
    BY <1>1, <1>6, UntouchedKeeps DEF TypeOK, Goto, lookupVars, Untouched
  <2> QED
    BY <1>3, <2>3, <2>5, <2>6
<1> QED
  BY <1>4, <1>5, <1>6 DEF CacheGet

LEMMA CacheDeleteKeeps ==
    ASSUME ResolveInv, NEW c \in Call, CacheDelete(c)
    PROVE  ResolveInv'
<1> USE DEF ResolveInv
<1>1. /\ pc[c] = "cache_delete" /\ MyKey(c) \in Key
      /\ pc' = [pc EXCEPT ![c] = "delete_commit"]
      /\ entries' = [entries EXCEPT ![MyKey(c)] = None]
      /\ UNCHANGED <<file, now, ask, seen, pending, resolved, queried, told, result, answer>>
  BY MyKeyIsKey DEF CacheDelete, Delete, At, Goto, CallInv, lookupVars
<1>2. TypeOK'
  BY <1>1 DEF TypeOK, CacheTypeOK, Table, InFlight, InCache
<1>3. RowsInv(entries)' /\ RowsInv(file)'
  BY <1>1 DEF RowsInv, TypeOK, CacheTypeOK, Table
<1>4. CallInv(c)'
  BY <1>1 DEF TypeOK, CallInv, RoundInv, Rounds
<1>5. ASSUME NEW d \in Call \ {c} PROVE CallInv(d)'
  BY <1>1, UntouchedKeeps DEF TypeOK, Untouched
<1> QED
  BY <1>2, <1>3, <1>4, <1>5

LEMMA DeleteCommitKeeps ==
    ASSUME ResolveInv, NEW c \in Call, DeleteCommit(c)
    PROVE  ResolveInv'
<1> USE DEF ResolveInv
<1>1. /\ file' = entries /\ entries' = entries /\ now' = now
      /\ UNCHANGED <<ask, seen, result, answer>>
      /\ StartRounds(c, ask[c].query) /\ pc[c] \in InCache
  BY DEF DeleteCommit, Commit, At, InCache
<1>2. /\ pc' \in [Call -> {"new"} \cup InFlight \cup Answers]
      /\ pending' \in [Call -> SUBSET Service]
      /\ resolved' \in [Call -> Resolved] /\ queried' \in [Call -> SUBSET Service]
      /\ told' \in [Call -> Told]
      /\ CallInv(c)'
      /\ \A d \in Call \ {c} : Untouched(d)
  BY <1>1, StartsKeeps
<1>3. \A d \in Call \ {c} : CallInv(d)'
  BY <1>2, UntouchedKeeps
<1>4. TypeOK'
  BY <1>1, <1>2 DEF TypeOK, CacheTypeOK
<1>5. RowsInv(entries)' /\ RowsInv(file)'
  BY <1>1 DEF RowsInv
<1> QED
  BY <1>2, <1>3, <1>4, <1>5

\* What a record says is heard once, and overrides nothing.
LEMMA MergeTells ==
    ASSUME NEW ids \in Resolved, NEW said \in Told, NEW record \in Ids, NEW key,
           key.from \in Type, key.id # None, TellsAll(ids, said, key)
    PROVE  /\ Merge(ids, record) \in Resolved
           /\ [t \in Type |-> said[t] \cup ({record[t]} \ {None})] \in Told
           /\ TellsAll(Merge(ids, record), [t \in Type |-> said[t] \cup ({record[t]} \ {None})], key)
           /\ \A t \in Type : ids[t] # None => Merge(ids, record)[t] # None
<1>1. \A t \in Type : Merge(ids, record)[t] = IF ids[t] = None THEN record[t] ELSE ids[t]
  BY DEF Merge
<1>2. Merge(ids, record) \in Resolved
  BY DEF Merge, Resolved, Ids
<1>3. [t \in Type |-> said[t] \cup ({record[t]} \ {None})] \in Told
  BY DEF Told, Ids
<1>4. Merge(ids, record)[key.from] = key.id
  BY <1>1 DEF TellsAll
<1> QED
  BY <1>1, <1>2, <1>3, <1>4 DEF TellsAll

LEMMA LookupKeeps ==
    ASSUME ResolveInv, NEW c \in Call, NEW s \in Service, Lookup(c, s)
    PROVE  ResolveInv'
<1> USE DEF ResolveInv
<1>1. PICK record \in Records[s] \cup {Missing} :
        /\ resolved' = [resolved EXCEPT ![c] = Merge(@, record)]
        /\ told' = [told EXCEPT ![c] = [t \in Type |-> @[t] \cup ({record[t]} \ {None})]]
  BY DEF Lookup
<1>2. record \in Ids
  BY RecordsAssumption, MissingIsIds
<1> DEFINE ids == Merge(resolved[c], record)
           said == [t \in Type |-> told[c][t] \cup ({record[t]} \ {None})]
<1>3. /\ pc[c] \in Rounds /\ pending' = [pending EXCEPT ![c] = @ \ {s}]
      /\ UNCHANGED <<entries, file, now, ask, pc, seen, queried, result, answer>>
  BY DEF Lookup, cacheVars
<1>4. MyKey(c).from \in Type /\ MyKey(c).id # None /\ TellsAll(resolved[c], told[c], MyKey(c))
  BY <1>3 DEF CallInv, RoundInv, Rounds, Valid, MyKey
<1>5. resolved[c] \in Resolved /\ told[c] \in Told
  BY DEF TypeOK
<1>6. /\ ids \in Resolved /\ said \in Told /\ TellsAll(ids, said, MyKey(c))
      /\ \A t \in Type : resolved[c][t] # None => ids[t] # None
  BY <1>2, <1>4, <1>5, MergeTells
<1>7. resolved'[c] = ids /\ told'[c] = said
      /\ \A d \in Call \ {c} : resolved'[d] = resolved[d] /\ told'[d] = told[d]
  BY <1>1 DEF TypeOK
<1>8. TypeOK'
  BY <1>1, <1>3, <1>6 DEF TypeOK, CacheTypeOK
<1>9. RowsInv(entries)' /\ RowsInv(file)'
  BY <1>3 DEF RowsInv
<1>10. \A t \in DOMAIN Own : Own[t] \in Type
  BY DEF Own, Type
<1>11. CallInv(c)'
  <2>1. MyKey(c)' = MyKey(c)
    BY <1>3 DEF MyKey
  <2>2. NobodyMissed(resolved[c], queried[c]) => NobodyMissed(ids, queried[c])
    BY <1>6, <1>10 DEF NobodyMissed
  <2>3. RoundInv(c)'
    BY <1>3, <1>6, <1>7, <2>1, <2>2 DEF CallInv, RoundInv
  <2> QED
    BY <1>3, <2>1, <2>3 DEF CallInv, Wanted
<1>12. ASSUME NEW d \in Call \ {c} PROVE CallInv(d)'
  BY <1>3, <1>7, UntouchedKeeps DEF Untouched
<1> QED
  BY <1>8, <1>9, <1>11, <1>12

LEMMA LookupRaisesKeeps ==
    ASSUME ResolveInv, NEW c \in Call, LookupRaises(c)
    PROVE  ResolveInv'
<1> USE DEF ResolveInv
<1>1. TypeOK'
  BY MissingIsIds DEF LookupRaises, NothingYet, Goto, cacheVars, TypeOK, CacheTypeOK, Told, Answers
<1>2. RowsInv(entries)' /\ RowsInv(file)'
  BY DEF LookupRaises, cacheVars, RowsInv
<1>3. CallInv(c)'
  BY DEF LookupRaises, NothingYet, Goto, TypeOK, CallInv, RoundInv, Rounds
<1>4. ASSUME NEW d \in Call \ {c} PROVE CallInv(d)'
  BY UntouchedKeeps DEF LookupRaises, NothingYet, Goto, TypeOK, Untouched
<1> QED
  BY <1>1, <1>2, <1>3, <1>4

LEMMA RoundTwoKeeps ==
    ASSUME ResolveInv, NEW c \in Call, RoundTwo(c)
    PROVE  ResolveInv'
<1> USE DEF ResolveInv
<1>1. FollowUps(c) \in SUBSET Service
      /\ \A s \in DOMAIN Own \cap Service : resolved[c][Own[s]] = None => s \in FollowUps(c)
  BY DEF RoundTwo, FollowUps
<1>2. /\ pc[c] = "round_one" /\ pc' = [pc EXCEPT ![c] = "round_two"]
      /\ pending' = [pending EXCEPT ![c] = FollowUps(c)]
      /\ queried' = [queried EXCEPT ![c] = @ \cup FollowUps(c)]
      /\ UNCHANGED <<entries, file, now, ask, seen, resolved, told, result, answer>>
  BY DEF RoundTwo, At, Goto, cacheVars
<1>3. TypeOK'
  BY <1>1, <1>2 DEF TypeOK, CacheTypeOK, InFlight, Rounds
<1>4. RowsInv(entries)' /\ RowsInv(file)'
  BY <1>2 DEF RowsInv
<1>5. CallInv(c)'
  <2>1. MyKey(c)' = MyKey(c) /\ pc'[c] = "round_two" /\ NobodyMissed(resolved[c], queried'[c])
    BY <1>1, <1>2 DEF MyKey, TypeOK, NobodyMissed
  <2> QED
    BY <1>2, <2>1 DEF CallInv, RoundInv, Rounds
<1>6. ASSUME NEW d \in Call \ {c} PROVE CallInv(d)'
  BY <1>2, UntouchedKeeps DEF TypeOK, Untouched
<1> QED
  BY <1>3, <1>4, <1>5, <1>6

LEMMA ResolveKeeps ==
    ASSUME ResolveInv, NEW c \in Call, Resolve(c)
    PROVE  ResolveInv'
<1> USE DEF ResolveInv
<1> DEFINE verdict == [about |-> MyKey(c), resolved |-> resolved[c], queried |-> queried[c],
                       told |-> told[c], stored |-> now]
<1>1. /\ pc[c] \in Rounds /\ (pc[c] = "round_one" => FollowUps(c) = {})
      /\ result' = [result EXCEPT ![c] = verdict]
      /\ pc' = [pc EXCEPT ![c] = "upsert"] /\ NothingYet(c)
      /\ UNCHANGED <<entries, file, now, ask, seen, answer>>
  BY DEF Resolve, At, Goto, cacheVars
<1>2. Valid(ask[c].query) /\ ask[c] \in Ask /\ MyKey(c) \in Key
      /\ TellsAll(resolved[c], told[c], MyKey(c))
  BY <1>1, MyKeyIsKey DEF CallInv, RoundInv, Rounds
<1>3. verdict \in Result
  BY <1>2 DEF TypeOK, CacheTypeOK, Result
<1>4. resolved[c]["doi"] # None => NobodyMissed(resolved[c], queried[c])
  <2>1. CASE pc[c] = "round_one" /\ ask[c].query.from = "doi"
    BY <2>1 DEF CallInv, RoundInv, NobodyMissed
  <2>2. CASE pc[c] = "round_one" /\ ask[c].query.from # "doi"
    BY <1>1, <2>2 DEF FollowUps, NobodyMissed
  <2>3. CASE pc[c] = "round_two"
    BY <2>3 DEF CallInv, RoundInv
  <2> QED
    BY <1>1, <2>1, <2>2, <2>3 DEF Rounds
<1>5. ValueInv(verdict)
  BY <1>2, <1>4 DEF ValueInv
<1>6. TypeOK'
  BY <1>1, <1>3, MissingIsIds DEF NothingYet, TypeOK, CacheTypeOK, Told, InFlight, InCache
<1>7. RowsInv(entries)' /\ RowsInv(file)'
  BY <1>1 DEF RowsInv
<1>8. CallInv(c)'
  <2>1. MyKey(c)' = MyKey(c) /\ pc'[c] = "upsert" /\ result'[c] = verdict
        /\ told'[c] = [t \in Type |-> {}] /\ pc[c] \notin {"new", "refused"}
    BY <1>1 DEF MyKey, TypeOK, NothingYet, Rounds
  <2> HIDE DEF verdict
  <2>2. verdict.about = MyKey(c)
    BY DEF verdict
  <2> QED
    BY <1>1, <1>2, <1>3, <1>5, <2>1, <2>2 DEF CallInv, RoundInv, Rounds
<1>9. ASSUME NEW d \in Call \ {c} PROVE CallInv(d)'
  BY <1>1, UntouchedKeeps DEF NothingYet, TypeOK, Untouched
<1> QED
  BY <1>6, <1>7, <1>8, <1>9

LEMMA CacheSetKeeps ==
    ASSUME ResolveInv, NEW c \in Call, CacheSet(c)
    PROVE  ResolveInv'
<1> USE DEF ResolveInv
<1>1. /\ pc[c] = "upsert" /\ MyKey(c) \in Key /\ result[c] \in Result
      /\ result[c].about = MyKey(c) /\ ValueInv(result[c])
      /\ pc' = [pc EXCEPT ![c] = "upsert_commit"]
      /\ entries' = [entries EXCEPT ![MyKey(c)] =
             [value |-> result[c], expires |-> result[c].stored + TTLResolve]]
      /\ UNCHANGED <<file, now, ask, seen, pending, resolved, queried, told, result, answer>>
  BY MyKeyIsKey DEF CacheSet, Upsert, At, Goto, CallInv, lookupVars
<1>2. result[c].stored + TTLResolve \in Nat
  BY <1>1, BoundAssumption DEF Result
<1>3. TypeOK'
  BY <1>1, <1>2 DEF TypeOK, CacheTypeOK, Table, InFlight, InCache
<1>4. RowsInv(entries)' /\ RowsInv(file)'
  BY <1>1, RowsKept DEF TypeOK, CacheTypeOK
<1>5. CallInv(c)'
  <2>1. MyKey(c)' = MyKey(c) /\ pc'[c] = "upsert_commit"
    BY <1>1 DEF MyKey, TypeOK
  <2> QED
    BY <1>1, <2>1 DEF CallInv, RoundInv, Rounds
<1>6. ASSUME NEW d \in Call \ {c} PROVE CallInv(d)'
  BY <1>1, UntouchedKeeps DEF TypeOK, Untouched
<1> QED
  BY <1>3, <1>4, <1>5, <1>6

LEMMA SetCommitKeeps ==
    ASSUME ResolveInv, NEW c \in Call, SetCommit(c)
    PROVE  ResolveInv'
<1> USE DEF ResolveInv
<1>1. /\ pc[c] = "upsert_commit" /\ result[c] \in Result
      /\ ask[c] \in Ask /\ Valid(ask[c].query)
      /\ pc' = [pc EXCEPT ![c] = "ok"]
      /\ answer' = [answer EXCEPT ![c] = Wanted(c, result[c].resolved)]
      /\ file' = entries /\ entries' = entries
      /\ UNCHANGED <<now, ask, seen, pending, resolved, queried, told, result>>
  BY DEF SetCommit, Commit, At, Goto, CallInv, lookupVars
<1>2. Wanted(c, result[c].resolved) \in Answer
  BY <1>1, WantedIsAnswer DEF Result
<1>3. TypeOK'
  BY <1>1, <1>2 DEF TypeOK, CacheTypeOK, Answers
<1>4. RowsInv(entries)' /\ RowsInv(file)'
  BY <1>1 DEF RowsInv
<1>5. CallInv(c)'
  <2>1. MyKey(c)' = MyKey(c) /\ pc'[c] = "ok" /\ answer'[c] = Wanted(c, result[c].resolved)
        /\ Wanted(c, result[c].resolved)' = Wanted(c, result[c].resolved)
    BY <1>1 DEF MyKey, TypeOK, Wanted
  <2> QED
    BY <1>1, <2>1 DEF CallInv, RoundInv, Rounds, Wanted
<1>6. ASSUME NEW d \in Call \ {c} PROVE CallInv(d)'
  BY <1>1, UntouchedKeeps DEF TypeOK, Untouched
<1> QED
  BY <1>3, <1>4, <1>5, <1>6

LEMMA CacheRaisesKeeps ==
    ASSUME ResolveInv, NEW c \in Call, CacheRaises(c)
    PROVE  ResolveInv'
<1> USE DEF ResolveInv
<1>1. /\ pc[c] \in InCache /\ pc' = [pc EXCEPT ![c] = "failed"]
      /\ result' = [result EXCEPT ![c] = None]
      /\ UNCHANGED <<entries, file, now, ask, seen, pending, resolved, queried, told, answer>>
  BY DEF CacheRaises, Goto, cacheVars, lookupVars
<1>2. TypeOK'
  BY <1>1 DEF TypeOK, CacheTypeOK, Answers
<1>3. RowsInv(entries)' /\ RowsInv(file)'
  BY <1>1 DEF RowsInv
<1>4. CallInv(c)'
  BY <1>1 DEF TypeOK, CallInv, RoundInv, Rounds, InCache
<1>5. ASSUME NEW d \in Call \ {c} PROVE CallInv(d)'
  BY <1>1, UntouchedKeeps DEF TypeOK, Untouched
<1> QED
  BY <1>2, <1>3, <1>4, <1>5

\* A cancelled call has its statement executed, on the row of its key.
LEMMA CancelKeeps ==
    ASSUME ResolveInv, NEW c \in Call, Cancel(c)
    PROVE  ResolveInv'
<1> USE DEF ResolveInv
<1>1. /\ pc[c] \in InFlight /\ pc' = [pc EXCEPT ![c] = "failed"] /\ NothingYet(c)
      /\ result' = [result EXCEPT ![c] = None]
      /\ UNCHANGED <<ask, seen, answer>>
  BY DEF Cancel, At, Goto, InFlight, InCache, Rounds
<1>2. /\ CacheTypeOK(Result)' /\ RowsInv(entries)' /\ RowsInv(file)'
  <2>1. CASE UNCHANGED cacheVars
    BY <2>1 DEF TypeOK, CacheTypeOK, cacheVars, RowsInv
  <2>2. CASE Commit
    BY <2>2 DEF Commit, TypeOK, CacheTypeOK, RowsInv
  <2>3. CASE At(c, "cache_delete") /\ Delete(MyKey(c))
    <3>1. MyKey(c) \in Key
      BY <2>3, MyKeyIsKey DEF At, CallInv
    <3> QED
      BY <2>3, <3>1 DEF Delete, TypeOK, CacheTypeOK, Table, RowsInv
  <2>4. CASE At(c, "upsert") /\ Upsert(MyKey(c), result[c], result[c].stored + TTLResolve)
    <3>1. MyKey(c) \in Key /\ result[c] \in Result
          /\ result[c].about = MyKey(c) /\ ValueInv(result[c])
      BY <2>4, MyKeyIsKey DEF At, CallInv
    <3>2. result[c].stored + TTLResolve \in Nat
      BY <3>1, BoundAssumption DEF Result
    <3>3. RowsInv(entries)' /\ RowsInv(file)'
      BY <2>4, <3>1, RowsKept DEF Upsert, TypeOK, CacheTypeOK
    <3> QED
      BY <2>4, <3>1, <3>2, <3>3 DEF Upsert, TypeOK, CacheTypeOK, Table
  <2> QED
    BY <2>1, <2>2, <2>3, <2>4 DEF Cancel
<1>3. TypeOK'
  BY <1>1, <1>2, MissingIsIds DEF NothingYet, TypeOK, Told, Answers
<1>4. CallInv(c)'
  BY <1>1 DEF NothingYet, TypeOK, CallInv, RoundInv, Rounds, InFlight, InCache
<1>5. ASSUME NEW d \in Call \ {c} PROVE CallInv(d)'
  BY <1>1, UntouchedKeeps DEF NothingYet, TypeOK, Untouched
<1> QED
  BY <1>2, <1>3, <1>4, <1>5

LEMMA CrashKeeps == ResolveInv /\ Crash => ResolveInv'
<1> SUFFICES ASSUME ResolveInv, Crash PROVE ResolveInv'
  OBVIOUS
<1> USE DEF ResolveInv
<1>1. TypeOK'
  BY MissingIsIds DEF Crash, Reopen, TypeOK, CacheTypeOK, Told, Answers, InFlight, InCache, Rounds
<1>2. RowsInv(entries)' /\ RowsInv(file)'
  BY DEF Crash, Reopen, RowsInv
<1>3. ASSUME NEW c \in Call PROVE CallInv(c)'
  <2>1. /\ UNCHANGED <<ask, answer>> /\ told'[c] = [t \in Type |-> {}]
        /\ pc'[c] = IF pc[c] \in InFlight THEN "lost" ELSE pc[c]
        /\ result'[c] = IF pc[c] \in InFlight THEN None ELSE result[c]
    BY DEF Crash
  <2>2. pc'[c] \notin InFlight
    BY <2>1 DEF InFlight, InCache, Rounds
  <2>3. MyKey(c)' = MyKey(c)
    BY <2>1 DEF MyKey
  <2>4. RoundInv(c)'
    BY <2>1, <2>2 DEF RoundInv, InFlight, Rounds
  <2>5. CASE pc[c] \in InFlight
    BY <2>1, <2>4, <2>5 DEF CallInv, InFlight, InCache, Rounds
  <2>6. CASE pc[c] \notin InFlight
    BY <2>1, <2>3, <2>4, <2>6 DEF CallInv, Wanted
  <2> QED
    BY <2>5, <2>6
<1> QED
  BY <1>1, <1>2, <1>3

LEMMA InvNext == ResolveInv /\ [Next]_vars => ResolveInv'
<1> SUFFICES ASSUME ResolveInv, [Next]_vars PROVE ResolveInv'
  OBVIOUS
<1>1. ASSUME UNCHANGED <<entries, file, callVars>>, now' \in Nat PROVE ResolveInv'
  <2>1. \A d \in Call : CallInv(d)'
    BY <1>1, UntouchedKeeps DEF ResolveInv, callVars, lookupVars, Untouched
  <2> QED
    BY <1>1, <2>1 DEF ResolveInv, callVars, lookupVars, TypeOK, CacheTypeOK, RowsInv
<1>2. CASE UNCHANGED vars
  BY <1>1, <1>2 DEF vars, cacheVars, ResolveInv, TypeOK, CacheTypeOK
<1>3. CASE ClockTicks
  BY <1>1, <1>3 DEF ClockTicks, Tick, ResolveInv, TypeOK, CacheTypeOK
<1>4. ASSUME NEW c \in Call, Step(c) PROVE ResolveInv'
  BY <1>4, CacheGetKeeps, CacheDeleteKeeps, DeleteCommitKeeps, LookupKeeps, LookupRaisesKeeps,
     RoundTwoKeeps, ResolveKeeps, CacheSetKeeps, SetCommitKeeps, CacheRaisesKeeps DEF Step
<1> QED
  BY <1>2, <1>3, <1>4, BeginKeeps, CancelKeeps, CrashKeeps DEF Next

-----------------------------------------------------------------------------
\* Rows and results are for their key and tell what records said, whatever
\* call stored them, over expiry, failures, cancellation and restarts.
THEOREM ResolveIsConsistent == Spec => []ResolveInv
BY InvInit, InvNext, PTL DEF Spec

\* Types of the cache's rows and of what each call knows.
THEOREM ResolveTypes == Spec => []TypeOK
<1>1. ResolveInv => TypeOK
  BY DEF ResolveInv
<1> QED
  BY <1>1, ResolveIsConsistent, PTL

\* AnsweredAsTold, for any order in which the records arrive: an answer has
\* for each type wanted what was given or what a record said
\* (server.py:134-136).
THEOREM AnswersAreTold == Spec => []AnsweredAsTold
<1>1. ASSUME ResolveInv PROVE AnsweredAsTold
  <2> SUFFICES ASSUME NEW c \in Call, pc[c] = "ok"
               PROVE  /\ result[c].about = MyKey(c)
                      /\ DOMAIN answer[c] = ask[c].query.to
                      /\ \A t \in ask[c].query.to :
                           IF t = ask[c].query.from THEN answer[c][t] = ask[c].query.id
                           ELSE IF result[c].told[t] = {} THEN answer[c][t] = None
                           ELSE answer[c][t] \in result[c].told[t]
    BY DEF AnsweredAsTold
  <2>1. /\ result[c].about = MyKey(c) /\ Valid(ask[c].query)
        /\ TellsAll(result[c].resolved, result[c].told, MyKey(c))
        /\ answer[c] = [t \in ask[c].query.to |-> result[c].resolved[t]]
    BY <1>1 DEF ResolveInv, CallInv, ValueInv, Wanted
  <2> QED
    BY <2>1 DEF TellsAll, MyKey, Valid
<1> QED
  BY <1>1, ResolveIsConsistent, PTL

\* NoServiceForgotten, for any services and records: the second round leaves
\* out nobody who could still tell something (server.py:672-673).
THEOREM NobodyIsForgotten == Spec => []NoServiceForgotten
<1>1. ResolveInv => NoServiceForgotten
  BY DEF ResolveInv, CallInv, ValueInv, NobodyMissed, NoServiceForgotten
<1> QED
  BY <1>1, ResolveIsConsistent, PTL
=============================================================================
