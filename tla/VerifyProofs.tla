---------------------------- MODULE VerifyProofs ----------------------------
(***************************************************************************)
(* What VerifyProperties says of one answer, for any number of calls, any  *)
(* citations and services, and any failures, restarts and expiry.          *)
(***************************************************************************)
EXTENDS BulkVerify, SequenceTheorems, FiniteSetTheorems, TLAPS

\* A result stays what it is whatever happens to the row it came from.
LEMMA RowsKept ==
    ASSUME NEW table, NEW k \in Key, RowsInv(table),
           NEW value, KeyOf(value.about) = k,
           table \in Table(Result)
    PROVE  /\ RowsInv([table EXCEPT ![k] = None])
           /\ RowsInv([table EXCEPT ![k] =
                 [value |-> value, expires |-> value.stored + TTL(value)]])
BY DEF RowsInv, Table

LEMMA MyKeyIsKey ==
    ASSUME NEW c \in Call, ask[c] \in Ask
    PROVE  MyKey(c) \in Key
BY KeyAssumption DEF MyKey, Ask

LEMMA TTLIsNat == ASSUME NEW verdict PROVE TTL(verdict) \in Nat
BY TTLAssumption DEF TTL

\* What an action of another call leaves of a call.
Untouched(d) ==
    /\ ask'[d] = ask[d] /\ pc'[d] = pc[d] /\ seen'[d] = seen[d]
    /\ asof'[d] = asof[d] /\ result'[d] = result[d]
    /\ cached'[d] = cached[d] /\ before'[d] = before[d]

LEMMA UntouchedKeeps ==
    ASSUME NEW d \in Call, CallInv(d), Untouched(d), version' = version
    PROVE  CallInv(d)'
BY DEF Untouched, CallInv, ResultInv, CachedInv, ForcedInv, MyKey

-----------------------------------------------------------------------------
LEMMA InvInit == Init => VerifyInv
<1> SUFFICES ASSUME Init PROVE VerifyInv
  OBVIOUS
<1>1. TypeOK
  BY DEF Init, CacheInit, TypeOK, CacheTypeOK, Table, NotAsked
<1>2. RowsInv(entries) /\ RowsInv(file)
  BY DEF Init, CacheInit, RowsInv
<1>3. \A c \in Call : CallInv(c)
  BY NoneAssumption DEF Init, CallInv, ResultInv, CachedInv, ForcedInv
<1> QED
  BY <1>1, <1>2, <1>3 DEF VerifyInv

LEMMA BeginKeeps ==
    ASSUME NEW c \in Call, NEW citation \in Citation, NEW force \in BOOLEAN,
           VerifyInv, Begin(c, citation, force)
    PROVE  VerifyInv'
<1> USE DEF VerifyInv
<1>1. TypeOK'
  BY DEF Begin, Goto, At, TypeOK, CacheTypeOK, cacheVars, FirstAwait, InCache, InFlight, Answers, Ask
<1>2. RowsInv(entries)' /\ RowsInv(file)'
  BY DEF Begin, RowsInv, cacheVars
<1>3. ASSUME NEW d \in Call PROVE CallInv(d)'
  <2>1. CASE d = c
    BY <2>1, NoneAssumption DEF Begin, Goto, At, TypeOK, CacheTypeOK, FirstAwait, CallInv,
       ResultInv, CachedInv, ForcedInv, Ask
  <2>2. CASE d # c
    BY <2>2, UntouchedKeeps DEF Begin, Goto, TypeOK, Untouched
  <2> QED
    BY <2>1, <2>2
<1> QED
  BY <1>1, <1>2, <1>3

LEMMA CacheGetKeeps ==
    ASSUME NEW c \in Call, VerifyInv, CacheGet(c)
    PROVE  VerifyInv'
<1> USE DEF VerifyInv
<1> DEFINE entry == entries[MyKey(c)]
           Hit == entry # None /\ ~Expired(entry, seen[c])
<1>1. ask[c] \in Ask /\ MyKey(c) \in Key
  BY MyKeyIsKey DEF CacheGet, At, CallInv
<1>2. entry # None => entry \in [value : Result, expires : Nat]
  BY <1>1 DEF TypeOK, CacheTypeOK, Table
<1>3. UNCHANGED <<entries, file, now, ask, seen, found, asof, version, before>>
  BY DEF CacheGet, cacheVars
<1>4. RowsInv(entries)' /\ RowsInv(file)'
  BY <1>3 DEF RowsInv
<1>5. CASE Hit
  <2>1. /\ pc' = [pc EXCEPT ![c] = "ok"]
        /\ result' = [result EXCEPT ![c] = entry.value]
        /\ cached' = [cached EXCEPT ![c] = TRUE]
    BY <1>5 DEF CacheGet, Goto
  <2>2. TypeOK'
    BY <1>2, <1>3, <1>5, <2>1 DEF TypeOK, CacheTypeOK, InCache, InFlight, Answers
  <2>3. CallInv(c)'
    BY <1>1, <1>2, <1>3, <1>5, <2>1
       DEF CacheGet, At, TypeOK, CallInv, ResultInv, CachedInv, ForcedInv, MyKey, RowsInv, Expired
  <2>4. ASSUME NEW d \in Call \ {c} PROVE CallInv(d)'
    BY <1>3, <2>1, UntouchedKeeps DEF TypeOK, Untouched
  <2> QED
    BY <1>4, <2>2, <2>3, <2>4
<1>6. CASE ~Hit
  <2>1. /\ \E there \in {"fan_out", "cache_delete"} : pc' = [pc EXCEPT ![c] = there]
        /\ UNCHANGED <<result, cached>>
    BY <1>6 DEF CacheGet, Goto
  <2>2. TypeOK'
    BY <1>3, <2>1 DEF TypeOK, CacheTypeOK, InCache, InFlight, Answers
  <2>3. CallInv(c)'
    BY <1>1, <1>3, <2>1 DEF CacheGet, At, TypeOK, CallInv, ResultInv, CachedInv, ForcedInv, MyKey
  <2>4. ASSUME NEW d \in Call \ {c} PROVE CallInv(d)'
    BY <1>3, <2>1, UntouchedKeeps DEF TypeOK, Untouched
  <2> QED
    BY <1>4, <2>2, <2>3, <2>4
<1> QED
  BY <1>5, <1>6

LEMMA CacheDeleteKeeps ==
    ASSUME NEW c \in Call, VerifyInv, CacheDelete(c)
    PROVE  VerifyInv'
<1> USE DEF VerifyInv
<1>1. MyKey(c) \in Key
  BY MyKeyIsKey DEF CacheDelete, At, CallInv
<1>2. TypeOK'
  BY <1>1 DEF CacheDelete, Delete, Goto, TypeOK, CacheTypeOK, Table, InCache, InFlight, Answers
<1>3. RowsInv(entries)' /\ RowsInv(file)'
  BY <1>1 DEF CacheDelete, Delete, RowsInv, TypeOK, CacheTypeOK, Table
<1>4. CallInv(c)'
  BY DEF CacheDelete, At, Goto, TypeOK, CallInv, ResultInv, CachedInv, ForcedInv, MyKey
<1>5. ASSUME NEW d \in Call \ {c} PROVE CallInv(d)'
  BY UntouchedKeeps DEF CacheDelete, Goto, TypeOK, Untouched
<1> QED
  BY <1>2, <1>3, <1>4, <1>5

LEMMA DeleteCommitKeeps ==
    ASSUME NEW c \in Call, VerifyInv, DeleteCommit(c)
    PROVE  VerifyInv'
<1> USE DEF VerifyInv
<1>1. TypeOK'
  BY DEF DeleteCommit, Commit, Goto, TypeOK, CacheTypeOK, InCache, InFlight, Answers
<1>2. RowsInv(entries)' /\ RowsInv(file)'
  BY DEF DeleteCommit, Commit, RowsInv
<1>3. CallInv(c)'
  BY DEF DeleteCommit, At, Goto, TypeOK, CallInv, ResultInv, CachedInv, ForcedInv, MyKey
<1>4. ASSUME NEW d \in Call \ {c} PROVE CallInv(d)'
  BY UntouchedKeeps DEF DeleteCommit, Goto, TypeOK, Untouched
<1> QED
  BY <1>1, <1>2, <1>3, <1>4

LEMMA FanOutKeeps ==
    ASSUME NEW c \in Call, VerifyInv, FanOut(c)
    PROVE  VerifyInv'
<1> USE DEF VerifyInv
<1>1. TypeOK'
  BY DEF FanOut, Goto, TypeOK, CacheTypeOK, cacheVars, Outcome, InCache, InFlight, Answers
<1>2. RowsInv(entries)' /\ RowsInv(file)'
  BY DEF FanOut, cacheVars, RowsInv
<1>3. CallInv(c)'
  BY DEF FanOut, At, Goto, TypeOK, CallInv, ResultInv, CachedInv, ForcedInv, MyKey
<1>4. ASSUME NEW d \in Call \ {c} PROVE CallInv(d)'
  BY UntouchedKeeps DEF FanOut, Goto, TypeOK, Untouched
<1> QED
  BY <1>1, <1>2, <1>3, <1>4

LEMMA LookupKeeps ==
    ASSUME NEW c \in Call, NEW s \in Service, VerifyInv, Lookup(c, s)
    PROVE  VerifyInv'
<1> USE DEF VerifyInv
<1>1. PICK o \in Outcomes(s) : found' = [found EXCEPT ![c][s] = o]
  BY DEF Lookup
<1>2. o \in Outcome
  BY DEF Outcomes, Outcome
<1>3. TypeOK'
  BY <1>1, <1>2 DEF Lookup, TypeOK, CacheTypeOK, cacheVars
<1>4. RowsInv(entries)' /\ RowsInv(file)'
  BY DEF Lookup, cacheVars, RowsInv
<1>5. CallInv(c)'
  BY DEF Lookup, At, TypeOK, CallInv, ResultInv, CachedInv, ForcedInv, MyKey
<1>6. ASSUME NEW d \in Call \ {c} PROVE CallInv(d)'
  BY UntouchedKeeps DEF Lookup, TypeOK, Untouched
<1> QED
  BY <1>3, <1>4, <1>5, <1>6

LEMMA GatherRaisesKeeps ==
    ASSUME NEW c \in Call, VerifyInv, GatherRaises(c)
    PROVE  VerifyInv'
<1> USE DEF VerifyInv
<1>1. TypeOK'
  BY DEF GatherRaises, Goto, NotAsked, TypeOK, CacheTypeOK, cacheVars, InCache, InFlight, Answers
<1>2. RowsInv(entries)' /\ RowsInv(file)'
  BY DEF GatherRaises, cacheVars, RowsInv
<1>3. CallInv(c)'
  BY DEF GatherRaises, At, Goto, TypeOK, CallInv, ResultInv, CachedInv, ForcedInv, MyKey
<1>4. ASSUME NEW d \in Call \ {c} PROVE CallInv(d)'
  BY UntouchedKeeps DEF GatherRaises, Goto, TypeOK, Untouched
<1> QED
  BY <1>1, <1>2, <1>3, <1>4

\* The result is put together for the citation and from the lookups of c.
LEMMA GatherKeeps ==
    ASSUME NEW c \in Call, VerifyInv, Gather(c)
    PROVE  VerifyInv'
<1> USE DEF VerifyInv
<1> DEFINE new == [about |-> ask[c].citation, confirmed |-> Asked(c, "match"),
                   failed |-> Asked(c, "error"), asof |-> asof[c], stored |-> now]
<1>1. ask[c] \in Ask
  BY DEF Gather, At, CallInv
<1>2. result' = [result EXCEPT ![c] = new]
  BY DEF Gather
<1>3. new \in Result
  BY <1>1 DEF Asked, Ask, Result, TypeOK, CacheTypeOK
<1>4. new.about = ask[c].citation /\ new.asof = asof[c]
  OBVIOUS
<1> HIDE DEF new
<1>5. TypeOK'
  BY <1>2, <1>3
     DEF Gather, Goto, NotAsked, TypeOK, CacheTypeOK, cacheVars, InCache, InFlight, Answers
<1>6. RowsInv(entries)' /\ RowsInv(file)'
  BY DEF Gather, cacheVars, RowsInv
<1>7. CallInv(c)'
  BY <1>1, <1>2, <1>3, <1>4
     DEF Gather, At, Goto, TypeOK, CallInv, ResultInv, CachedInv, ForcedInv, MyKey
<1>8. ASSUME NEW d \in Call \ {c} PROVE CallInv(d)'
  BY <1>2, UntouchedKeeps DEF Gather, Goto, TypeOK, Untouched
<1> QED
  BY <1>5, <1>6, <1>7, <1>8

LEMMA CacheSetKeeps ==
    ASSUME NEW c \in Call, VerifyInv, CacheSet(c)
    PROVE  VerifyInv'
<1> USE DEF VerifyInv
<1>1. MyKey(c) \in Key /\ result[c] \in Result /\ KeyOf(result[c].about) = MyKey(c)
  BY MyKeyIsKey DEF CacheSet, At, CallInv, ResultInv
<1>2. result[c].stored + TTL(result[c]) \in Nat
  BY <1>1, TTLIsNat DEF Result
<1>3. TypeOK'
  BY <1>1, <1>2
     DEF CacheSet, Upsert, Goto, TypeOK, CacheTypeOK, Table, InCache, InFlight, Answers
<1>4. RowsInv(entries)' /\ RowsInv(file)'
  BY <1>1, RowsKept DEF CacheSet, Upsert, RowsInv, TypeOK, CacheTypeOK
<1>5. CallInv(c)'
  BY DEF CacheSet, At, Goto, TypeOK, CallInv, ResultInv, CachedInv, ForcedInv, MyKey
<1>6. ASSUME NEW d \in Call \ {c} PROVE CallInv(d)'
  BY UntouchedKeeps DEF CacheSet, Goto, TypeOK, Untouched
<1> QED
  BY <1>3, <1>4, <1>5, <1>6

LEMMA SetCommitKeeps ==
    ASSUME NEW c \in Call, VerifyInv, SetCommit(c)
    PROVE  VerifyInv'
<1> USE DEF VerifyInv
<1>1. TypeOK'
  BY DEF SetCommit, Commit, Goto, TypeOK, CacheTypeOK, InCache, InFlight, Answers
<1>2. RowsInv(entries)' /\ RowsInv(file)'
  BY DEF SetCommit, Commit, RowsInv
<1>3. CallInv(c)'
  BY DEF SetCommit, At, Goto, TypeOK, CallInv, ResultInv, CachedInv, ForcedInv, MyKey
<1>4. ASSUME NEW d \in Call \ {c} PROVE CallInv(d)'
  BY UntouchedKeeps DEF SetCommit, Goto, TypeOK, Untouched
<1> QED
  BY <1>1, <1>2, <1>3, <1>4

LEMMA CacheRaisesKeeps ==
    ASSUME NEW c \in Call, VerifyInv, CacheRaises(c)
    PROVE  VerifyInv'
<1> USE DEF VerifyInv
<1>1. TypeOK'
  BY DEF CacheRaises, Goto, TypeOK, CacheTypeOK, cacheVars, InCache, InFlight, Answers
<1>2. RowsInv(entries)' /\ RowsInv(file)'
  BY DEF CacheRaises, cacheVars, RowsInv
<1>3. CallInv(c)'
  BY DEF CacheRaises, InCache, Goto, TypeOK, CallInv, ResultInv, CachedInv, ForcedInv, MyKey
<1>4. ASSUME NEW d \in Call \ {c} PROVE CallInv(d)'
  BY UntouchedKeeps DEF CacheRaises, Goto, TypeOK, Untouched
<1> QED
  BY <1>1, <1>2, <1>3, <1>4

\* What the thread still executes of a cancelled call is what the call would
\* have done, so the rows are none the worse for it.
LEMMA CancelKeeps ==
    ASSUME NEW c \in Call, VerifyInv, Cancel(c)
    PROVE  VerifyInv'
<1> USE DEF VerifyInv
<1>1. pc[c] \in InFlight /\ MyKey(c) \in Key
  BY MyKeyIsKey DEF Cancel, At, CallInv, InCache, InFlight
<1>2. /\ entries' \in Table(Result) /\ file' \in Table(Result) /\ now' = now
      /\ RowsInv(entries)' /\ RowsInv(file)'
  <2>1. CASE pc[c] \in {"cache_get", "fan_out", "gather"} /\ UNCHANGED cacheVars
    BY <2>1 DEF cacheVars, RowsInv, TypeOK, CacheTypeOK
  <2>2. CASE At(c, "cache_delete") /\ Delete(MyKey(c))
    BY <1>1, <2>2 DEF Delete, RowsInv, TypeOK, CacheTypeOK, Table
  <2>3. CASE At(c, "upsert") /\ Upsert(MyKey(c), result[c], result[c].stored + TTL(result[c]))
    <3>1. result[c] \in Result /\ KeyOf(result[c].about) = MyKey(c)
      BY <2>3 DEF At, CallInv, ResultInv
    <3>2. result[c].stored + TTL(result[c]) \in Nat
      BY <3>1, TTLIsNat DEF Result
    <3>3. entries' \in Table(Result) /\ UNCHANGED <<file, now>>
      BY <1>1, <2>3, <3>1, <3>2 DEF Upsert, TypeOK, CacheTypeOK, Table
    <3> QED
      BY <1>1, <2>3, <3>1, <3>3, RowsKept DEF Upsert, RowsInv, TypeOK, CacheTypeOK
  <2>4. CASE Commit
    BY <2>4 DEF Commit, RowsInv, TypeOK, CacheTypeOK
  <2> QED
    BY <2>1, <2>2, <2>3, <2>4 DEF Cancel
<1>3. TypeOK'
  BY <1>2 DEF Cancel, Goto, NotAsked, TypeOK, CacheTypeOK, InCache, InFlight, Answers
<1>4. CallInv(c)'
  BY <1>1 DEF Cancel, Goto, TypeOK, InCache, InFlight, CallInv, ResultInv, CachedInv,
             ForcedInv, MyKey
<1>5. ASSUME NEW d \in Call \ {c} PROVE CallInv(d)'
  BY UntouchedKeeps DEF Cancel, Goto, TypeOK, Untouched
<1> QED
  BY <1>2, <1>3, <1>4, <1>5

LEMMA CrashKeeps ==
    ASSUME VerifyInv, Crash
    PROVE  VerifyInv'
<1> USE DEF VerifyInv
<1>1. TypeOK'
  BY DEF Crash, Reopen, NotAsked, TypeOK, CacheTypeOK, InCache, InFlight, Answers
<1>2. RowsInv(entries)' /\ RowsInv(file)'
  BY DEF Crash, Reopen, RowsInv
<1>3. ASSUME NEW d \in Call PROVE CallInv(d)'
  BY DEF Crash, InCache, InFlight, Answers, TypeOK, CallInv, ResultInv, CachedInv, ForcedInv, MyKey
<1> QED
  BY <1>1, <1>2, <1>3

LEMMA ContentsChangeKeeps ==
    ASSUME VerifyInv, ContentsChange
    PROVE  VerifyInv'
<1> USE DEF VerifyInv
<1>1. TypeOK'
  BY DEF ContentsChange, TypeOK, CacheTypeOK, cacheVars, callVars
<1>2. RowsInv(entries)' /\ RowsInv(file)'
  BY DEF ContentsChange, cacheVars, RowsInv
<1>3. ASSUME NEW d \in Call PROVE CallInv(d)'
  BY DEF ContentsChange, callVars, TypeOK, CallInv, ResultInv, CachedInv, ForcedInv, MyKey
<1> QED
  BY <1>1, <1>2, <1>3

LEMMA ClockTicksKeeps ==
    ASSUME VerifyInv, ClockTicks
    PROVE  VerifyInv'
<1> USE DEF VerifyInv
<1>1. TypeOK'
  BY DEF ClockTicks, Tick, TypeOK, CacheTypeOK, callVars
<1>2. RowsInv(entries)' /\ RowsInv(file)'
  BY DEF ClockTicks, Tick, RowsInv
<1>3. ASSUME NEW d \in Call PROVE CallInv(d)'
  BY UntouchedKeeps DEF ClockTicks, callVars, Untouched
<1> QED
  BY <1>1, <1>2, <1>3

-----------------------------------------------------------------------------
LEMMA InvNext == VerifyInv /\ [Next]_vars => VerifyInv'
<1> SUFFICES ASSUME VerifyInv, [Next]_vars PROVE VerifyInv'
  OBVIOUS
<1>1. CASE \E c \in Call, citation \in Citation, force \in BOOLEAN :
               Begin(c, citation, force)
  BY <1>1, BeginKeeps
<1>2. ASSUME NEW c \in Call, Step(c) \/ Cancel(c) PROVE VerifyInv'
  BY <1>2, CacheGetKeeps, CacheDeleteKeeps, DeleteCommitKeeps, FanOutKeeps, LookupKeeps,
     GatherRaisesKeeps, GatherKeeps, CacheSetKeeps, SetCommitKeeps, CacheRaisesKeeps,
     CancelKeeps DEF Step
<1>3. CASE Environment
  BY <1>3, CrashKeeps, ContentsChangeKeeps, ClockTicksKeeps DEF Environment
<1>4. CASE UNCHANGED vars
  BY <1>4 DEF vars, cacheVars, callVars, VerifyInv, TypeOK, CacheTypeOK, RowsInv, CallInv,
     ResultInv, CachedInv, ForcedInv, MyKey
<1> QED
  BY <1>1, <1>2, <1>3, <1>4 DEF Next

\* The rows of the cache and the calls under way always fit together.
THEOREM VerifyIsConsistent == Spec => []VerifyInv
BY InvInit, InvNext, PTL DEF Spec

\* The variables of verify_citation keep their types.
THEOREM VerifyTypes == Spec => []TypeOK
<1>1. VerifyInv => TypeOK
  BY DEF VerifyInv
<1> QED
  BY <1>1, VerifyIsConsistent, PTL

\* An answer is about a citation with the cache key of the one asked, over
\* deletions, overwriting, failures and restarts.
THEOREM AnswersAreKeyed == Spec => []KeyedAnswer
<1>1. VerifyInv => KeyedAnswer
  BY DEF VerifyInv, CallInv, ResultInv, KeyedAnswer
<1> QED
  BY <1>1, VerifyIsConsistent, PTL

\* An answer from the cache is younger than its time to live, however late
\* its row was committed, deleted or read.
THEOREM AnswersAreInTime == Spec => []WithinTTL
<1>1. VerifyInv => WithinTTL
  BY DEF VerifyInv, CallInv, CachedInv, TTL, WithinTTL
<1> QED
  BY <1>1, VerifyIsConsistent, PTL

\* A forced answer is no older than its call, and about the citation asked.
THEOREM ForcedIsFresh == Spec => []ForcedFresh
<1>1. VerifyInv => ForcedFresh
  <2> SUFFICES ASSUME VerifyInv, NEW c \in Call, pc[c] = "ok", ask[c].force
               PROVE  /\ result[c].asof >= before[c].version
                      /\ result[c].about = ask[c].citation
    BY DEF ForcedFresh
  <2>1. ask[c] # None
    BY NoneAssumption DEF VerifyInv, CallInv
  <2> QED
    BY <2>1 DEF VerifyInv, CallInv, ForcedInv, ResultInv, Result, TypeOK
<1> QED
  BY <1>1, VerifyIsConsistent, PTL

-----------------------------------------------------------------------------
(* What an undisturbed forced answer leaves behind.                         *)

Acts(c) == \/ \E citation \in Citation, force \in BOOLEAN : Begin(c, citation, force)
           \/ Step(c) \/ Cancel(c)

\* What the row of its key becomes in an action of c, and what a commit does.
RowStep(c) ==
    \/ entries' = entries
    \/ MyKey(c) \in Key /\ entries' = [entries EXCEPT ![MyKey(c)] = None]
    \/ /\ MyKey(c) \in Key /\ pc[c] = "upsert"
       /\ entries' = [entries EXCEPT ![MyKey(c)] =
              [value |-> result[c], expires |-> result[c].stored + TTL(result[c])]]

FileStep == file' = file \/ (file' = entries /\ entries' = entries)

\* Where c comes from when it gets to an await or an answer, and what of it
\* is settled.
Course(c) ==
    /\ pc[c] \notin Answers /\ pc'[c] # "new"
    /\ pc[c] = "new" => \E citation \in Citation, force \in BOOLEAN : Begin(c, citation, force)
    /\ pc[c] # "new" => ask'[c] = ask[c] /\ before'[c] = before[c]
    /\ pc'[c] = "gather" => FanOut(c) \/ \E s \in Service : Lookup(c, s)
    /\ pc'[c] = "upsert" => Gather(c)
    /\ pc'[c] = "upsert_commit" => CacheSet(c)
    /\ pc'[c] = "ok" => SetCommit(c) \/ CacheGet(c)
    /\ cached'[c] # cached[c] => CacheGet(c)
    /\ pc[c] \in {"upsert", "upsert_commit"} =>
           pc'[c] \in {"upsert_commit", "ok", "failed"}

LEMMA OneActs ==
    ASSUME NEW c \in Call, VerifyInv, Acts(c)
    PROVE  /\ version' = version /\ RowStep(c) /\ FileStep /\ Course(c)
           /\ \A d \in Call \ {c} : Untouched(d)
<1> USE DEF VerifyInv, TypeOK, CacheTypeOK, At, Goto, InCache, InFlight, Answers, Untouched, FileStep, Course
<1>1. ASSUME NEW citation \in Citation, NEW force \in BOOLEAN, Begin(c, citation, force)
      PROVE  /\ version' = version /\ RowStep(c) /\ FileStep /\ Course(c)
             /\ \A d \in Call \ {c} : Untouched(d)
  BY <1>1 DEF Begin, cacheVars, FirstAwait, RowStep
<1>2. CASE CacheGet(c)
  BY <1>2 DEF CacheGet, cacheVars, RowStep
<1>3. CASE CacheDelete(c)
  <2>1. MyKey(c) \in Key
    BY <1>3, MyKeyIsKey DEF CacheDelete, CallInv
  <2> QED
    BY <1>3, <2>1 DEF CacheDelete, Delete, RowStep
<1>4. CASE DeleteCommit(c)
  BY <1>4 DEF DeleteCommit, Commit, RowStep
<1>5. CASE FanOut(c)
  BY <1>5 DEF FanOut, cacheVars, RowStep
<1>6. ASSUME NEW s \in Service, Lookup(c, s)
      PROVE  /\ version' = version /\ RowStep(c) /\ FileStep /\ Course(c)
             /\ \A d \in Call \ {c} : Untouched(d)
  BY <1>6 DEF Lookup, cacheVars, RowStep
<1>7. CASE GatherRaises(c)
  BY <1>7 DEF GatherRaises, cacheVars, RowStep
<1>8. CASE Gather(c)
  BY <1>8 DEF Gather, cacheVars, RowStep
<1>9. CASE CacheSet(c)
  <2>1. MyKey(c) \in Key
    BY <1>9, MyKeyIsKey DEF CacheSet, CallInv
  <2> QED
    BY <1>9, <2>1 DEF CacheSet, Upsert, RowStep
<1>10. CASE SetCommit(c)
  BY <1>10 DEF SetCommit, Commit, RowStep
<1>11. CASE CacheRaises(c)
  BY <1>11 DEF CacheRaises, cacheVars, RowStep
<1>12. CASE Cancel(c)
  <2>1. MyKey(c) \in Key
    BY <1>12, MyKeyIsKey DEF Cancel, CallInv
  <2>2. RowStep(c) /\ FileStep
    BY <1>12, <2>1 DEF Cancel, Delete, Upsert, Commit, cacheVars, RowStep
  <2> QED
    BY <1>12, <2>2 DEF Cancel
<1> QED
  BY <1>1, <1>2, <1>3, <1>4, <1>5, <1>6, <1>7, <1>8, <1>9, <1>10, <1>11, <1>12 DEF Acts, Step

LEMMA WhoActs ==
    ASSUME [Next]_vars
    PROVE  \/ \E c \in Call : Acts(c)
           \/ Crash
           \/ ContentsChange \/ ClockTicks \/ UNCHANGED vars
  BY DEF Next, Acts, Environment

\* What happens to those who do not act.
LEMMA Unmoved ==
    ASSUME VerifyInv, ContentsChange \/ ClockTicks \/ UNCHANGED vars
    PROVE  /\ entries' = entries /\ file' = file /\ UNCHANGED callVars
           /\ version' \in Nat /\ version <= version'
  BY DEF VerifyInv, TypeOK, ContentsChange, ClockTicks, Tick, vars, cacheVars, callVars

LEMMA Crashed ==
    ASSUME VerifyInv, Crash
    PROVE  /\ entries' = file /\ file' = file /\ version' = version
           /\ UNCHANGED <<ask, cached, before>>
           /\ \A c \in Call : /\ pc'[c] = pc[c] \/ pc'[c] = "lost"
                              /\ pc'[c] \in {"new"} \cup Answers
                              /\ pc[c] \in Answers => pc'[c] = pc[c] /\ result'[c] = result[c]
                              /\ pc[c] # "new" => pc'[c] # "new"
  BY DEF VerifyInv, TypeOK, Crash, Reopen, InCache, InFlight, Answers

\* A call that is over stays as it is.
LEMMA OverStays ==
    ASSUME VerifyInv, [Next]_vars, NEW d \in Call, pc[d] \in Answers
    PROVE  /\ pc'[d] = pc[d] /\ ask'[d] = ask[d] /\ result'[d] = result[d]
           /\ cached'[d] = cached[d] /\ before'[d] = before[d]
<1>1. ASSUME NEW c \in Call, Acts(c)
      PROVE  Untouched(d)
  BY <1>1, OneActs DEF Course
<1>2. CASE Crash
  BY <1>2, Crashed
<1>3. CASE ContentsChange \/ ClockTicks \/ UNCHANGED vars
  BY <1>3, Unmoved DEF callVars
<1> QED
  BY <1>1, <1>2, <1>3, WhoActs DEF Untouched

\* One conjunct of OrderInv is about the calls that were over, the others are
\* about the call alone.
Behind(c) == \A d \in before[c].done :
    /\ pc[d] \in Answers
    /\ pc[d] = "ok" /\ ask[d].force => result[d].asof <= before[c].version

LEMMA BehindStays ==
    ASSUME VerifyInv, [Next]_vars, NEW e \in Call, Behind(e), before'[e] = before[e]
    PROVE  Behind(e)'
<1>1. ASSUME NEW d \in before[e].done
      PROVE  /\ pc'[d] \in Answers
             /\ pc'[d] = "ok" /\ ask'[d].force => result'[d].asof <= before[e].version
  <2>1. d \in Call /\ pc[d] \in Answers
    BY DEF Behind, VerifyInv, TypeOK
  <2> QED
    BY <2>1, OverStays DEF Behind
<1> QED
  BY <1>1 DEF Behind

LEMMA OrderBegins ==
    ASSUME VerifyInv, \A d \in Call : OrderInv(d), [Next]_vars,
           NEW c \in Call, NEW citation \in Citation, NEW force \in BOOLEAN,
           Begin(c, citation, force)
    PROVE  OrderInv(c)'
<1> USE DEF VerifyInv
<1>1. before'[c] = [version |-> version, done |-> {d \in Call : pc[d] \in Answers}]
  BY DEF Begin, TypeOK
<1>2. ASSUME NEW d \in before'[c].done
      PROVE  /\ pc'[d] \in Answers
             /\ pc'[d] = "ok" /\ ask'[d].force => result'[d].asof <= before'[c].version
  <2>1. d \in Call /\ pc[d] \in Answers
    BY <1>1
  <2>2. ask[d] \in Ask /\ ask[d] # None
    BY <2>1, NoneAssumption DEF CallInv, Answers
  <2>3. pc[d] = "ok" /\ ask[d].force => result[d].asof \in before[d].version .. version
    BY <2>1, <2>2 DEF OrderInv
  <2>4. pc[d] = "ok" /\ ask[d].force => result[d].asof <= version
    BY <2>1, <2>3 DEF TypeOK
  <2> QED
    BY <1>1, <2>1, <2>4, OverStays
<1>3. ~cached[c] /\ cached' = cached /\ pc[c] = "new" /\ pc'[c] \in {"refused", "fan_out", "cache_get"}
  BY DEF Begin, At, Goto, FirstAwait, CallInv, CachedInv, TypeOK
<1>4. c \notin before'[c].done
  BY <1>1, <1>3 DEF Answers
<1> QED
  BY <1>2, <1>3, <1>4 DEF OrderInv

\* The other actions of a call leave before and ask alone.
LEMMA OrderGoesOn ==
    ASSUME VerifyInv, \A d \in Call : OrderInv(d), [Next]_vars,
           NEW c \in Call, Step(c) \/ Cancel(c)
    PROVE  OrderInv(c)'
<1> USE DEF VerifyInv, At, Goto
<1>1. pc[c] # "new" /\ pc'[c] # "new" /\ ask'[c] = ask[c] /\ before'[c] = before[c]
      /\ version' = version
  <2>1. pc[c] # "new"
    BY DEF Step, Cancel, CacheGet, CacheDelete, DeleteCommit, FanOut, Lookup, GatherRaises,
       Gather, CacheSet, SetCommit, CacheRaises, InCache
  <2> QED
    BY <2>1, OneActs DEF Acts, Course
<1>2. Behind(c)'
  BY <1>1, BehindStays DEF OrderInv, Behind
<1>3. /\ c \notin before[c].done /\ version \in Nat /\ before[c].version \in Nat
      /\ before[c].version <= version
  BY DEF OrderInv, TypeOK, CallInv, ForcedInv
<1>4. pc'[c] = "gather" => asof'[c] \in before[c].version .. version
  <2>1. CASE FanOut(c) \/ \E s \in Service : Lookup(c, s)
    BY <2>1, <1>3 DEF FanOut, Lookup, TypeOK
  <2> QED
    BY <2>1, OneActs DEF Acts, Course
<1>5. pc'[c] \in {"upsert", "upsert_commit"} \/ (pc'[c] = "ok" /\ ~cached'[c]) =>
        result'[c].asof \in before[c].version .. version
  <2>1. CASE Gather(c)
    BY <2>1 DEF Gather, OrderInv, TypeOK
  <2>2. CASE CacheSet(c) \/ SetCommit(c)
    BY <2>2 DEF CacheSet, SetCommit, OrderInv
  <2>3. CASE CacheGet(c)
    BY <2>3 DEF CacheGet, TypeOK
  <2> QED
    BY <2>1, <2>2, <2>3, OneActs DEF Acts, Course
<1>6. ask[c] # None /\ ask[c].force => ~cached'[c]
  <2>1. CASE CacheGet(c)
    BY <2>1 DEF CacheGet, CallInv, ForcedInv
  <2> QED
    BY <2>1, OneActs DEF Acts, Course, OrderInv
<1> QED
  BY <1>1, <1>2, <1>3, <1>4, <1>5, <1>6 DEF OrderInv, Behind

LEMMA OrderNext ==
    ASSUME VerifyInv, \A d \in Call : OrderInv(d), [Next]_vars, NEW e \in Call
    PROVE  OrderInv(e)'
<1>1. CASE Acts(e)
  BY <1>1, OrderBegins, OrderGoesOn DEF Acts
<1>2. ASSUME NEW c \in Call \ {e}, Acts(c) PROVE OrderInv(e)'
  <2>1. Untouched(e) /\ version' = version
    BY <1>2, OneActs
  <2>2. Behind(e)'
    BY <2>1, BehindStays DEF Untouched, OrderInv, Behind
  <2> QED
    BY <2>1, <2>2 DEF OrderInv, Behind, Untouched
<1>3. CASE Crash
  <2>1. Behind(e)'
    BY <1>3, Crashed, BehindStays DEF OrderInv, Behind
  <2> QED
    BY <1>3, <2>1, Crashed DEF OrderInv, Behind, Answers
<1>4. CASE ContentsChange \/ ClockTicks \/ UNCHANGED vars
  <2>1. UNCHANGED callVars /\ version' \in Nat /\ version <= version'
    BY <1>4, Unmoved
  <2>2. Behind(e)'
    BY <2>1, BehindStays DEF OrderInv, Behind, callVars
  <2>3. ASSUME NEW n \in before[e].version .. version PROVE n \in before[e].version .. version'
    BY <2>1 DEF VerifyInv, TypeOK
  <2> QED
    BY <2>1, <2>2, <2>3 DEF OrderInv, Behind, callVars
<1> QED
  BY <1>1, <1>2, <1>3, <1>4, WhoActs

\* A call that has begun asks what it asked and began when it began, so that
\* who was disturbed remains disturbed.
LEMMA Settled ==
    ASSUME VerifyInv, [Next]_vars, NEW c \in Call, pc[c] # "new"
    PROVE  pc'[c] # "new" /\ ask'[c] = ask[c] /\ before'[c] = before[c]
<1>1. ASSUME NEW d \in Call, Acts(d)
      PROVE  pc'[c] # "new" /\ ask'[c] = ask[c] /\ before'[c] = before[c]
  BY <1>1, OneActs DEF Course, Untouched
<1>2. CASE Crash
  BY <1>2, Crashed
<1>3. CASE ContentsChange \/ ClockTicks \/ UNCHANGED vars
  BY <1>3, Unmoved DEF callVars
<1> QED
  BY <1>1, <1>2, <1>3, WhoActs

LEMMA StoredStays ==
    ASSUME VerifyInv, [Next]_vars, NEW e \in Call, pc[e] # "new", ~StoredNothing(e)
    PROVE  ~StoredNothing(e)'
<1>1. pc[e] \in {"upsert_commit", "ok", "failed", "lost"} /\ ~cached[e]
  BY DEF StoredNothing, VerifyInv, TypeOK, InFlight, InCache, Answers
<1>2. ASSUME NEW c \in Call, Acts(c)
      PROVE  ~StoredNothing(e)'
  <2>1. CASE c = e
    <3>1. pc[e] = "upsert_commit" /\ pc'[e] \in {"upsert_commit", "ok", "failed"}
      BY <1>1, <1>2, <2>1, OneActs DEF Course, Answers
    <3>2. cached'[e] = cached[e]
      BY <1>2, <2>1, <3>1, OneActs DEF Course, CacheGet, At
    <3> QED
      BY <1>1, <3>1, <3>2 DEF StoredNothing
  <2>2. CASE c # e
    BY <1>1, <1>2, <2>2, OneActs DEF Untouched, StoredNothing
  <2> QED
    BY <2>1, <2>2
<1>3. CASE Crash
  BY <1>1, <1>3, Crashed DEF StoredNothing
<1>4. CASE ContentsChange \/ ClockTicks \/ UNCHANGED vars
  BY <1>1, <1>4, Unmoved DEF callVars, StoredNothing
<1> QED
  BY <1>2, <1>3, <1>4, WhoActs

LEMMA DisturbedStays ==
    ASSUME VerifyInv, RefreshInv, [Next]_vars, NEW d \in Call, pc[d] # "new", Undisturbed(d)'
    PROVE  Undisturbed(d)
<1>1. ASSUME NEW e \in Call \ {d}, ask[e] # None, MyKey(e) = MyKey(d)
      PROVE  e \in before[d].done \/ d \in before[e].done \/ StoredNothing(e)
  <2>1. pc[e] # "new"
    BY <1>1 DEF RefreshInv, OrderInv
  <2>2. /\ ask'[e] = ask[e] /\ before'[e] = before[e]
        /\ ask'[d] = ask[d] /\ before'[d] = before[d]
    BY <2>1, Settled
  <2>3. ~StoredNothing(e) => ~StoredNothing(e)'
    BY <2>1, StoredStays
  <2>4. e \in before'[d].done \/ d \in before'[e].done \/ StoredNothing(e)'
    BY <1>1, <2>2 DEF Undisturbed, MyKey
  <2> QED
    BY <2>2, <2>3, <2>4
<1> QED
  BY <1>1 DEF Undisturbed

\* A call for d's key that stores, d being undisturbed still, began after it.
LEMMA StoresLater ==
    ASSUME VerifyInv, RefreshInv, [Next]_vars, NEW d \in Call, pc[d] # "new",
           Undisturbed(d)', NEW c \in Call, c # d, Acts(c), pc[c] = "upsert",
           MyKey(c) = MyKey(d), pc[d] \in Answers \cup {"upsert_commit"}
    PROVE  d \in before[c].done
<1>1. pc'[c] \in {"upsert_commit", "ok", "failed"} /\ cached'[c] = cached[c]
  BY OneActs DEF Course, CacheGet, At
<1>2. ~StoredNothing(c)'
  BY <1>1 DEF StoredNothing, VerifyInv, CallInv, CachedInv
<1>3. /\ ask'[c] = ask[c] /\ before'[c] = before[c]
      /\ ask'[d] = ask[d] /\ before'[d] = before[d] /\ ask[c] # None
  BY Settled, NoneAssumption DEF VerifyInv, CallInv
<1>4. c \in before'[d].done \/ d \in before'[c].done
  BY <1>2, <1>3 DEF Undisturbed, MyKey
<1>5. c \notin before[d].done
  BY DEF RefreshInv, OrderInv, Answers
<1> QED
  BY <1>3, <1>4, <1>5

\* A call that began after a forced one was over finds out no less.
LEMMA LaterOne ==
    ASSUME VerifyInv, RefreshInv, NEW c \in Call, NEW d \in Call,
           ask[d].force, pc[d] \in {"upsert_commit", "ok"},
           d \in before[c].done
    PROVE  /\ pc[d] = "ok" /\ result[d].asof <= before[c].version
           /\ pc[c] \in {"upsert", "upsert_commit"} => result[c].asof >= result[d].asof
<1>1. pc[d] = "ok" /\ result[d].asof <= before[c].version
  BY DEF RefreshInv, OrderInv, Answers
<1>2. result[d].asof \in Nat /\ before[c].version \in Nat /\ version \in Nat
  BY <1>1 DEF VerifyInv, TypeOK, CallInv, ResultInv, Result
<1>3. pc[c] \in {"upsert", "upsert_commit"} => result[c].asof \in before[c].version .. version
  BY DEF RefreshInv, OrderInv
<1> QED
  BY <1>1, <1>2, <1>3

Refreshed(d) == ask[d] # None /\ ask[d].force /\ Undisturbed(d)

\* The rows: of d itself, of another call, and after a restart.
LEMMA RowsNotOlder ==
    ASSUME VerifyInv, RefreshInv, [Next]_vars, NEW d \in Call, pc[d] # "new", Refreshed(d),
           Undisturbed(d)'
    PROVE  /\ pc'[d] \in {"upsert_commit", "ok"} => NoOlder(entries, d)'
           /\ pc'[d] = "ok" => NoOlder(file, d)'
<1>1. /\ pc[d] \in {"upsert_commit", "ok"} => NoOlder(entries, d)
      /\ pc[d] = "ok" => NoOlder(file, d)
  BY DEF RefreshInv, StickInv, Refreshed
<1>2. CASE Acts(d)
  <2>1. Course(d) /\ MyKey(d)' = MyKey(d)
    BY <1>2, OneActs DEF Course, MyKey
  <2>2. CASE pc'[d] = "upsert_commit"
    <3>1. CacheSet(d)
      BY <2>1, <2>2 DEF Course
    <3>2. result' = result /\ entries'[MyKey(d)].value = result[d] /\ result[d].asof \in Nat
      BY <3>1, MyKeyIsKey
         DEF CacheSet, At, Upsert, VerifyInv, TypeOK, CacheTypeOK, Table, CallInv, ResultInv, Result
    <3> QED
      BY <2>1, <2>2, <3>2 DEF NoOlder
  <2>3. CASE pc'[d] = "ok"
    <3>1. SetCommit(d)
      BY <2>1, <2>3 DEF Course, CacheGet, At, VerifyInv, CallInv, ForcedInv, Refreshed
    <3>2. pc[d] = "upsert_commit" /\ result' = result /\ entries' = entries /\ file' = entries
      BY <3>1 DEF SetCommit, At, Commit
    <3> QED
      BY <1>1, <2>1, <3>2 DEF NoOlder
  <2> QED
    BY <2>2, <2>3
<1>3. ASSUME NEW c \in Call, Acts(c), c # d
      PROVE  /\ pc'[d] \in {"upsert_commit", "ok"} => NoOlder(entries, d)'
             /\ pc'[d] = "ok" => NoOlder(file, d)'
  <2>1. RowStep(c) /\ FileStep /\ MyKey(d)' = MyKey(d) /\ pc'[d] = pc[d] /\ result'[d] = result[d]
    BY <1>3, OneActs DEF Untouched, MyKey
  <2>2. ASSUME pc[d] \in {"upsert_commit", "ok"}
        PROVE  NoOlder(entries, d)'
    <3>1. CASE entries' = entries
      BY <1>1, <2>1, <2>2, <3>1 DEF NoOlder
    <3>2. CASE MyKey(c) \in Key /\ entries' = [entries EXCEPT ![MyKey(c)] = None]
      BY <1>1, <2>1, <2>2, <3>2 DEF NoOlder, VerifyInv, TypeOK, CacheTypeOK, Table
    <3>3. CASE /\ MyKey(c) \in Key /\ pc[c] = "upsert"
               /\ entries' = [entries EXCEPT ![MyKey(c)] =
                      [value |-> result[c], expires |-> result[c].stored + TTL(result[c])]]
      <4>1. MyKey(c) = MyKey(d) => result[c].asof >= result[d].asof
        BY <1>3, <2>2, <3>3, StoresLater, LaterOne DEF Refreshed, Answers
      <4> QED
        BY <1>1, <2>1, <2>2, <3>3, <4>1 DEF NoOlder, VerifyInv, TypeOK, CacheTypeOK, Table
    <3> QED
      BY <2>1, <3>1, <3>2, <3>3 DEF RowStep
  <2>3. pc[d] = "ok" => NoOlder(file, d)'
    BY <1>1, <2>1 DEF FileStep, NoOlder
  <2> QED
    BY <2>1, <2>2, <2>3
<1>4. CASE Crash
  <2>1. pc'[d] \in {"upsert_commit", "ok"} => pc[d] = "ok" /\ pc'[d] = "ok" /\ result'[d] = result[d]
    BY <1>4, Crashed DEF Answers
  <2>2. MyKey(d)' = MyKey(d) /\ entries' = file /\ file' = file
    BY <1>4, Crashed DEF MyKey
  <2> QED
    BY <1>1, <2>1, <2>2 DEF NoOlder
<1>5. CASE ContentsChange \/ ClockTicks \/ UNCHANGED vars
  BY <1>1, <1>5, Unmoved DEF NoOlder, callVars, MyKey
<1> QED
  BY <1>2, <1>3, <1>4, <1>5, WhoActs

\* The answers that come later: a call for the key gathers them itself, or
\* reads the row.
LEMMA AnswersNotOlder ==
    ASSUME VerifyInv, RefreshInv, [Next]_vars, NEW d \in Call, pc[d] # "new", Refreshed(d),
           pc'[d] = "ok", NEW c \in Call, OrderInv(c)', d \in before'[c].done
    PROVE  AtLeastAsRecent(c, d)'
<1>1. c # d
  BY DEF OrderInv
<1> SUFFICES ASSUME pc'[c] = "ok", MyKey(c)' = MyKey(d)'
             PROVE  result'[c].asof >= result'[d].asof
  BY DEF AtLeastAsRecent
<1>2. CASE pc[c] \in Answers
  <2>1. /\ pc[c] = "ok" /\ ask'[c] = ask[c] /\ result'[c] = result[c] /\ before'[c] = before[c]
    BY <1>2, OverStays
  <2>2. pc[d] \in Answers
    BY <2>1 DEF RefreshInv, OrderInv
  <2>3. pc[d] = "ok" /\ ask'[d] = ask[d] /\ result'[d] = result[d]
    BY <2>2, OverStays
  <2>4. AtLeastAsRecent(c, d)
    BY <2>1, <2>3 DEF RefreshInv, StickInv, Refreshed
  <2> QED
    BY <2>1, <2>3, <2>4 DEF AtLeastAsRecent, MyKey, Refreshed
<1>3. CASE pc[c] \notin Answers
  <2>1. Acts(c)
    <3>1. ASSUME NEW e \in Call, Acts(e), e # c PROVE FALSE
      BY <1>3, <3>1, OneActs DEF Untouched, Answers
    <3>2. CASE Crash
      BY <1>3, <3>2, Crashed DEF Answers
    <3>3. CASE ContentsChange \/ ClockTicks \/ UNCHANGED vars
      BY <1>3, <3>3, Unmoved DEF callVars, Answers
    <3> QED
      BY <3>1, <3>2, <3>3, WhoActs
  <2>2. SetCommit(c) \/ CacheGet(c)
    BY <2>1, OneActs DEF Course
  <2>3. pc[c] \in {"upsert_commit", "cache_get"} /\ pc[c] \in InFlight
    BY <2>2 DEF SetCommit, CacheGet, At, InFlight, InCache
  <2>4. /\ ask'[c] = ask[c] /\ before'[c] = before[c]
        /\ ask'[d] = ask[d] /\ before'[d] = before[d] /\ pc'[d] = pc[d] /\ result'[d] = result[d]
    BY <1>1, <2>1, <2>3, OneActs, Settled DEF Untouched
  <2>5. MyKey(c) = MyKey(d) /\ pc[d] = "ok"
    BY <2>4 DEF MyKey
  <2>6. CASE SetCommit(c)
    <3>1. pc[c] = "upsert_commit" /\ result' = result
      BY <2>6 DEF SetCommit, At
    <3> QED
      BY <2>4, <2>5, <3>1, LaterOne DEF Refreshed
  <2>7. CASE CacheGet(c)
    <3>1. /\ entries[MyKey(c)] # None /\ result'[c] = entries[MyKey(c)].value
      BY <2>7 DEF CacheGet, Goto, VerifyInv, TypeOK
    <3>2. NoOlder(entries, d)
      BY <2>5 DEF RefreshInv, StickInv, Refreshed
    <3> QED
      BY <2>4, <2>5, <3>1, <3>2 DEF NoOlder
  <2> QED
    BY <2>2, <2>6, <2>7
<1> QED
  BY <1>2, <1>3

LEMMA StickNext ==
    ASSUME VerifyInv, RefreshInv, [Next]_vars, NEW d \in Call, \A c \in Call : OrderInv(c)'
    PROVE  StickInv(d)'
<1>1. CASE pc[d] = "new"
  <2>1. pc'[d] \notin {"upsert_commit", "ok"}
    <3>1. ASSUME NEW c \in Call, Acts(c) PROVE pc'[d] \notin {"upsert_commit", "ok"}
      BY <1>1, <3>1, OneActs DEF Course, Untouched, CacheSet, SetCommit, CacheGet, At
    <3>2. CASE Crash
      BY <1>1, <3>2, Crashed
    <3>3. CASE ContentsChange \/ ClockTicks \/ UNCHANGED vars
      BY <1>1, <3>3, Unmoved DEF callVars
    <3> QED
      BY <3>1, <3>2, <3>3, WhoActs
  <2> QED
    BY <2>1 DEF StickInv
<1>2. CASE pc[d] # "new"
  <2> SUFFICES ASSUME Refreshed(d)'
               PROVE  /\ pc'[d] \in {"upsert_commit", "ok"} => NoOlder(entries, d)'
                      /\ pc'[d] = "ok" =>
                           /\ NoOlder(file, d)'
                           /\ \A c \in Call : d \in before'[c].done => AtLeastAsRecent(c, d)'
    BY DEF StickInv, Refreshed
  <2>1. Refreshed(d)
    BY <1>2, Settled, DisturbedStays DEF Refreshed
  <2> QED
    BY <1>2, <2>1, RowsNotOlder, AnswersNotOlder DEF Refreshed
<1> QED
  BY <1>1, <1>2

LEMMA RefreshInit == Init => RefreshInv
<1> SUFFICES ASSUME Init, NEW c \in Call PROVE OrderInv(c) /\ StickInv(c)
  BY DEF RefreshInv
<1> QED
  BY DEF Init, OrderInv, StickInv

\* Once a forced call beside which none for its key stored or failed has
\* answered, the row of the key, in the transaction and in the file, and every later answer
\* for it are no older, whatever is deleted, expires, fails, is cancelled or
\* restarted.
THEOREM RefreshIsConsistent == Spec => []RefreshInv
<1>1. VerifyInv /\ RefreshInv /\ [Next]_vars => RefreshInv'
  <2> SUFFICES ASSUME VerifyInv, RefreshInv, [Next]_vars, NEW c \in Call
               PROVE  OrderInv(c)' /\ StickInv(c)'
    BY DEF RefreshInv
  <2>1. \A d \in Call : OrderInv(d)'
    BY OrderNext DEF RefreshInv
  <2> QED
    BY <2>1, StickNext
<1> QED
  BY <1>1, RefreshInit, VerifyIsConsistent, PTL DEF Spec

\* UndisturbedRefreshSticks, for any calls, citations and services: the use of
\* force_refresh the tool's description promises (server.py:113-116).
THEOREM UndisturbedRefreshesStick == Spec => []UndisturbedRefreshSticks
<1>1. VerifyInv /\ RefreshInv => UndisturbedRefreshSticks
  <2> SUFFICES ASSUME VerifyInv, RefreshInv, NEW c \in Call, NEW d \in Call,
                      d \in before[c].done, Undisturbed(d), pc[d] = "ok", ask[d].force
               PROVE  AtLeastAsRecent(c, d)
    BY DEF UndisturbedRefreshSticks, AtLeastAsRecent
  <2>1. ask[d] # None
    BY NoneAssumption DEF VerifyInv, CallInv
  <2> QED
    BY <2>1 DEF RefreshInv, StickInv
<1> QED
  BY <1>1, VerifyIsConsistent, RefreshIsConsistent, PTL

-----------------------------------------------------------------------------
(* Batches.                                                                 *)

\* What a step does to the calls it does to them outside a batch too, as long
\* as what the batch ordered is there.
LEMMA BulkStepIsStep ==
    ASSUME BatchTypeOK, [BulkNext]_allVars
    PROVE  [Next]_vars
<1>1. ASSUME NEW b \in Bulk, NEW i, SlotBegin(b, i), i \in DOMAIN Slots[b]
      PROVE  Next
  <2>1. /\ order[b] \in [list : Seq(Citation), force : BOOLEAN]
        /\ i \in 1..Len(order[b].list)
    BY <1>1 DEF SlotBegin, BatchTypeOK
  <2>2. order[b].list[i] \in Citation /\ order[b].force \in BOOLEAN
    BY <2>1, ElementOfSeq
  <2>3. Slots[b] \in Seq(Call)
    BY BulkAssumption
  <2>4. Slots[b][i] \in Call
    BY <1>1, <2>3, LenProperties
  <2> QED
    BY <1>1, <2>2, <2>4 DEF SlotBegin, Next
<1>2. ASSUME NEW b \in Bulk, BulkStep(b)
      PROVE  [Next]_vars
  BY <1>1, <1>2 DEF BulkStep, BulkRaises, BulkReturn
<1>3. ASSUME NEW c \in Call, CallStep(c)
      PROVE  Next
  BY <1>3 DEF CallStep, Next
<1>4. Single \subseteq Call
  BY DEF Single
<1> QED
  BY <1>2, <1>3, <1>4 DEF BulkNext, BulkBegin, BulkCancel, BulkCrash, Next, Environment, allVars

\* A batch that has begun keeps its order.
LEMMA BatchGoesOn ==
    ASSUME BatchTypeOK, [BulkNext]_allVars
    PROVE  /\ BatchTypeOK'
           /\ \A b \in Bulk : batch[b] # "new" =>
                /\ batch'[b] # "new" /\ order'[b] = order[b]
                /\ batch'[b] \notin {"new", "refused"} => batch[b] \notin {"new", "refused"}
<1> USE DEF BatchTypeOK, Answers
<1> DEFINE Goal == /\ BatchTypeOK'
                   /\ \A b \in Bulk : batch[b] # "new" =>
                        /\ batch'[b] # "new" /\ order'[b] = order[b]
                        /\ batch'[b] \notin {"new", "refused"} => batch[b] \notin {"new", "refused"}
<1>1. ASSUME NEW b \in Bulk, NEW force \in BOOLEAN, NEW n \in 0..(MaxCitations + 1),
             NEW list \in [1..n -> Citation], BulkBegin(b, list, force)
      PROVE  Goal
  <2>1. list \in Seq(Citation)
    BY <1>1, SeqDef, BulkAssumption
  <2>2. [list |-> list, force |-> force] \in [list : Seq(Citation), force : BOOLEAN]
    BY <2>1
  <2> QED
    BY <1>1, <2>2, NoOrderAssumption DEF BulkBegin
<1>2. ASSUME UNCHANGED bulkVars PROVE Goal
  BY <1>2 DEF bulkVars
<1>3. ASSUME NEW b \in Bulk, BulkStep(b) PROVE Goal
  BY <1>2, <1>3 DEF BulkStep, BulkRaises, BulkReturn, SlotBegin
<1>4. ASSUME NEW b \in Bulk, BulkCancel(b) PROVE Goal
  BY <1>4 DEF BulkCancel
<1>5. CASE BulkCrash
  BY <1>5 DEF BulkCrash
<1> QED
  BY <1>1, <1>2, <1>3, <1>4, <1>5 DEF BulkNext, allVars

\* A call has one place, in one batch.
LEMMA SlotsDiffer ==
    /\ \A b \in Bulk : DOMAIN Slots[b] = 1..MaxCitations /\ Slots[b] \in [1..MaxCitations -> Call]
    /\ \A a, b \in Bulk : \A i \in DOMAIN Slots[a], j \in DOMAIN Slots[b] :
         Slots[a][i] = Slots[b][j] => a = b /\ i = j
<1>1. ASSUME NEW b \in Bulk
      PROVE  DOMAIN Slots[b] = 1..MaxCitations /\ Slots[b] \in [1..MaxCitations -> Call]
  <2>1. Slots[b] \in Seq(Call) /\ Len(Slots[b]) = MaxCitations
    BY BulkAssumption
  <2> QED
    BY <2>1, LenProperties
<1>2. ASSUME NEW b \in Bulk, NEW i \in DOMAIN Slots[b], NEW j \in DOMAIN Slots[b],
             Slots[b][i] = Slots[b][j]
      PROVE  i = j
  <2> DEFINE N == 1..MaxCitations
  <2>1. MaxCitations \in Nat /\ Cardinality(SlotsOf(b)) = MaxCitations
    BY BulkAssumption
  <2>2. IsFiniteSet(N) /\ Cardinality(N) = MaxCitations
    BY <2>1, FS_Interval
  <2>3. Slots[b] \in Surjection(N, SlotsOf(b))
    BY <1>1 DEF Surjection, SlotsOf
  <2>4. Slots[b] \in Injection(N, SlotsOf(b))
    BY <2>1, <2>2, <2>3, FS_Surjection
  <2> QED
    BY <1>1, <1>2, <2>4 DEF Injection, IsInjective
<1>3. ASSUME NEW a \in Bulk, NEW b \in Bulk, NEW i \in DOMAIN Slots[a], NEW j \in DOMAIN Slots[b],
             Slots[a][i] = Slots[b][j]
      PROVE  a = b
  <2>1. Slots[a][i] \in SlotsOf(a) /\ Slots[a][i] \in SlotsOf(b)
    BY <1>3 DEF SlotsOf
  <2> QED
    BY <2>1, BulkAssumption
<1> QED
  BY <1>1, <1>2, <1>3

LEMMA SlotIsCall ==
    ASSUME NEW b \in Bulk, NEW i \in DOMAIN Slots[b]
    PROVE  Slots[b][i] \in Call /\ Slots[b][i] \in SlotsOf(b)
<1>1. DOMAIN Slots[b] = 1..MaxCitations /\ Slots[b] \in [1..MaxCitations -> Call]
  BY SlotsDiffer
<1> QED
  BY <1>1 DEF SlotsOf

\* A call that begins asks for a citation, and is refused if that has no
\* identifier.
LEMMA NamedNext ==
    ASSUME VerifyInv, [Next]_vars, NEW c \in Call, NamedInv(c)
    PROVE  NamedInv(c)'
<1> USE DEF VerifyInv, NamedInv
<1>1. CASE Acts(c) /\ pc[c] = "new"
  <2>1. PICK citation \in Citation, force \in BOOLEAN : Begin(c, citation, force)
    BY <1>1, OneActs DEF Course
  <2>2. ask'[c].citation = citation /\ pc'[c] = FirstAwait(citation, force)
    BY <2>1 DEF Begin, Goto, TypeOK
  <2> QED
    BY <2>2 DEF FirstAwait, Nameless
<1>2. CASE Acts(c) /\ pc[c] # "new"
  <2>1. ask'[c] = ask[c] /\ pc[c] \notin Answers /\ pc'[c] # "new"
    BY <1>2, OneActs DEF Course
  <2>2. pc'[c] # "refused"
    BY <1>2 DEF Acts, At, Goto, Begin, Step, Cancel, CacheGet, CacheDelete, DeleteCommit, FanOut, Lookup,
       GatherRaises, Gather, CacheSet, SetCommit, CacheRaises, TypeOK
  <2> QED
    BY <1>2, <2>1, <2>2 DEF Answers
<1>3. ASSUME NEW d \in Call, Acts(d), d # c PROVE NamedInv(c)'
  BY <1>3, OneActs DEF Untouched
<1>4. CASE Crash
  BY <1>4, Crashed DEF Answers, InFlight, InCache, Crash, TypeOK
<1>5. CASE ContentsChange \/ ClockTicks \/ UNCHANGED vars
  BY <1>5, Unmoved DEF callVars
<1> QED
  BY <1>1, <1>2, <1>3, <1>4, <1>5, WhoActs

\* Only its batch begins a call of a batch.
LEMMA WhoBegins ==
    ASSUME VerifyInv, BatchTypeOK, [BulkNext]_allVars, NEW b \in Bulk, NEW i \in DOMAIN Slots[b],
           pc[Slots[b][i]] = "new", pc'[Slots[b][i]] # "new"
    PROVE  SlotBegin(b, i)
<1> DEFINE c == Slots[b][i]
<1>1. c \in Call /\ c \in SlotsOf(b)
  BY SlotIsCall
<1>2. ASSUME NEW d \in Call, Step(d) \/ Cancel(d) PROVE FALSE
  <2>1. c # d
    BY <1>2 DEF At, Step, Cancel, CacheGet, CacheDelete, DeleteCommit, FanOut, Lookup, GatherRaises,
       Gather, CacheSet, SetCommit, CacheRaises, InCache
  <2> QED
    BY <1>1, <1>2, <2>1, OneActs DEF Acts, Untouched
<1>3. ASSUME NEW d \in Call, NEW citation, NEW force, Begin(d, citation, force) PROVE d = c
  BY <1>1, <1>3 DEF Begin, Goto, VerifyInv, TypeOK
<1>4. ASSUME NEW d \in Single, NEW citation, NEW force, Begin(d, citation, force) PROVE FALSE
  BY <1>1, <1>3, <1>4 DEF Single
<1>5. ASSUME UNCHANGED vars \/ ContentsChange \/ ClockTicks PROVE FALSE
  BY <1>5, Unmoved DEF callVars
<1>6. ~Crash
  <2>1. Crash => pc' = [d \in Call |-> IF pc[d] \in InFlight THEN "lost" ELSE pc[d]]
    BY DEF Crash
  <2> QED
    BY <1>1, <2>1 DEF InFlight, InCache
<1>7. ASSUME NEW a \in Bulk, NEW j \in DOMAIN Slots[a], SlotBegin(a, j) PROVE SlotBegin(b, i)
  <2>1. Slots[a][j] \in Call
    BY SlotIsCall
  <2>2. Slots[a][j] = c
    BY <1>3, <1>7, <2>1 DEF SlotBegin
  <2>3. a = b /\ j = i
    BY <2>2, SlotsDiffer
  <2> QED
    BY <1>7, <2>3
<1>8. Single \subseteq Call
  BY DEF Single
<1>9. ASSUME NEW a \in Bulk, BulkStep(a) PROVE SlotBegin(b, i)
  BY <1>5, <1>7, <1>9 DEF BulkStep, BulkRaises, BulkReturn
<1> QED
  BY <1>2, <1>4, <1>5, <1>6, <1>8, <1>9
     DEF BulkNext, BulkBegin, BulkCancel, BulkCrash, CallStep, allVars

LEMMA SlotNext ==
    ASSUME VerifyInv, BatchTypeOK, [BulkNext]_allVars, NEW b \in Bulk, NEW i \in DOMAIN Slots[b],
           SlotInv(b, i)
    PROVE  SlotInv(b, i)'
<1> DEFINE c == Slots[b][i]
<1>1. c \in Call
  BY SlotIsCall
<1>2. CASE pc[c] # "new"
  <2>1. pc'[c] # "new" /\ ask'[c] = ask[c]
    BY <1>1, <1>2, BulkStepIsStep, Settled
  <2>2. batch[b] # "new" => batch'[b] # "new" /\ order'[b] = order[b]
    BY BatchGoesOn
  <2> QED
    BY <1>2, <2>1, <2>2 DEF SlotInv
<1>3. CASE pc[c] = "new" /\ pc'[c] # "new"
  <2>1. SlotBegin(b, i)
    BY <1>3, WhoBegins
  <2>2. Begin(c, order[b].list[i], order[b].force) /\ i \in 1..Len(order[b].list)
        /\ batch[b] \in {"running", "failed"} /\ UNCHANGED bulkVars
    BY <2>1 DEF SlotBegin
  <2>3. ask'[c] = [citation |-> order[b].list[i], force |-> order[b].force]
    BY <1>1, <2>2 DEF Begin, VerifyInv, TypeOK
  <2>4. i <= Len(order[b].list)
    <3>1. order[b] \in [list : Seq(Citation), force : BOOLEAN]
      BY <2>2 DEF BatchTypeOK
    <3> QED
      BY <2>2, <3>1, LenProperties
  <2> QED
    BY <2>2, <2>3, <2>4 DEF SlotInv, bulkVars
<1> QED
  BY <1>2, <1>3 DEF SlotInv

\* When a batch answers, its calls are over, and stay so.
LEMMA ReturnNext ==
    ASSUME VerifyInv, RefreshInv, BatchTypeOK, BulkInv, summary \in [Bulk -> Summary \cup {None}],
           [BulkNext]_allVars, NEW b \in Bulk
    PROVE  ReturnInv(b)'
<1> USE DEF Answers
<1>1. ASSUME NEW c \in Call, pc[c] \in Answers PROVE pc'[c] = pc[c]
  BY <1>1, BulkStepIsStep, OverStays
<1>2. Calls(b) \subseteq Call
  BY SlotIsCall DEF Calls
<1>3. ASSUME NEW force \in BOOLEAN, NEW n \in 0..(MaxCitations + 1),
             NEW list \in [1..n -> Citation], BulkBegin(b, list, force)
      PROVE  ReturnInv(b)'
  <2>1. Len(list) \in Nat /\ MaxCitations \in Nat
    BY SeqDef, LenProperties, BulkAssumption
  <2>2. order'[b].list = list
    BY <1>3 DEF BulkBegin, BatchTypeOK
  <2> QED
    BY <1>3, <2>1, <2>2 DEF BulkBegin, BatchTypeOK, ReturnInv
<1>4. CASE BulkReturn(b)
  <2>1. /\ batch[b] = "running" /\ order' = order /\ pc' = pc /\ cached' = cached
        /\ summary'[b].hits = Cardinality(CacheHits(b))
        /\ \A c \in Calls(b) : pc[c] \in {"ok", "refused"}
    BY <1>4 DEF BulkReturn, vars, callVars
  <2>2. ASSUME order[b].force PROVE CacheHits(b) = {}
    <3>1. ASSUME NEW c \in Calls(b) PROVE ~cached[c]
      <4>1. PICK i \in DOMAIN Slots[b] : c = Slots[b][i]
        BY DEF Calls
      <4>2. SlotInv(b, i) /\ pc[c] # "new" /\ c \in Call
        BY <2>1, <4>1, SlotIsCall DEF BulkInv
      <4>3. ask[c] # None /\ ask[c].force
        BY <2>2, <4>1, <4>2, NoneAssumption DEF SlotInv, VerifyInv, CallInv
      <4> QED
        BY <4>2, <4>3 DEF RefreshInv, OrderInv
    <3> QED
      BY <3>1 DEF CacheHits
  <2>3. Calls(b)' = Calls(b)
    BY <2>1 DEF Calls
  <2> QED
    BY <2>1, <2>2, <2>3, FS_EmptySet DEF ReturnInv, BulkInv
<1>5. ASSUME batch'[b] = batch[b] \/ batch'[b] \in {"failed", "cancelled", "lost"},
             batch[b] \in {"new", "refused"} => batch'[b] = batch[b],
             order'[b] = order[b], summary'[b] = summary[b]
      PROVE  ReturnInv(b)'
  <2>1. Calls(b)' = Calls(b)
    BY <1>5 DEF Calls
  <2> QED
    BY <1>1, <1>2, <1>5, <2>1 DEF ReturnInv, BulkInv
<1>6. ASSUME NEW a \in Bulk, NEW force \in BOOLEAN, NEW n \in 0..(MaxCitations + 1),
             NEW list \in [1..n -> Citation], BulkBegin(a, list, force)
      PROVE  ReturnInv(b)'
  BY <1>3, <1>5, <1>6 DEF BulkBegin, BatchTypeOK
<1>7. ASSUME UNCHANGED bulkVars PROVE ReturnInv(b)'
  BY <1>5, <1>7 DEF bulkVars
<1>8. ASSUME NEW a \in Bulk, BulkStep(a) \/ BulkCancel(a) PROVE ReturnInv(b)'
  BY <1>4, <1>5, <1>7, <1>8 DEF BulkStep, BulkRaises, BulkReturn, SlotBegin, BulkCancel, BatchTypeOK
<1>9. CASE BulkCrash
  BY <1>5, <1>9 DEF BulkCrash
<1> QED
  BY <1>6, <1>7, <1>8, <1>9 DEF BulkNext, allVars

\* The summary counts members of a finite set.
LEMMA SummaryNext ==
    ASSUME BatchTypeOK, summary \in [Bulk -> Summary \cup {None}], [BulkNext]_allVars
    PROVE  (summary \in [Bulk -> Summary \cup {None}])'
<1>1. ASSUME NEW b \in Bulk, BulkReturn(b) PROVE (summary \in [Bulk -> Summary \cup {None}])'
  <2>1. IsFiniteSet(SlotsOf(b))
    <3>1. IsFiniteSet(1..MaxCitations)
      BY BulkAssumption, FS_Interval
    <3>2. DOMAIN Slots[b] = 1..MaxCitations /\ Slots[b] \in [1..MaxCitations -> Call]
      BY SlotsDiffer
    <3>3. Slots[b] \in Surjection(1..MaxCitations, SlotsOf(b))
      BY <3>2 DEF Surjection, SlotsOf
    <3> QED
      BY <3>1, <3>3, FS_Surjection
  <2>2. Verified(b) \in SUBSET SlotsOf(b) /\ CacheHits(b) \in SUBSET SlotsOf(b)
    BY DEF Verified, CacheHits, Calls, SlotsOf
  <2>3. Cardinality(Verified(b)) \in Nat /\ Cardinality(CacheHits(b)) \in Nat
    BY <2>1, <2>2, FS_Subset, FS_CardinalityType
  <2>4. order[b] \in [list : Seq(Citation), force : BOOLEAN]
    BY <1>1 DEF BulkReturn, BatchTypeOK
  <2>5. Len(order[b].list) \in Nat
    BY <2>4, LenProperties
  <2> QED
    BY <1>1, <2>3, <2>5 DEF BulkReturn, Summary
<1> QED
  BY <1>1 DEF BulkNext, BulkBegin, BulkStep, BulkRaises, SlotBegin, BulkCancel, BulkCrash, bulkVars, allVars

\* What is settled about batches, for any of them, of any size, over any
\* failure, cancellation and restart.
BatchesInv == BatchTypeOK /\ summary \in [Bulk -> Summary \cup {None}] /\ BulkInv

LEMMA BulkInit0 == BulkInit => Init /\ BatchesInv
<1> SUFFICES ASSUME BulkInit PROVE Init /\ BatchesInv
  OBVIOUS
<1>1. BatchTypeOK /\ summary \in [Bulk -> Summary \cup {None}]
  BY DEF BulkInit, BatchTypeOK
<1>2. \A c \in Call : NamedInv(c)
  BY DEF BulkInit, Init, NamedInv
<1>3. \A b \in Bulk : \A i \in DOMAIN Slots[b] : SlotInv(b, i)
  BY SlotIsCall DEF BulkInit, Init, SlotInv
<1>4. \A b \in Bulk : ReturnInv(b)
  BY DEF BulkInit, ReturnInv
<1> QED
  BY <1>1, <1>2, <1>3, <1>4 DEF BulkInit, BatchesInv, BulkInv

LEMMA BulkNextKeeps ==
    ASSUME VerifyInv, RefreshInv, BatchesInv, [BulkNext]_allVars
    PROVE  BatchesInv'
<1> USE DEF BatchesInv
<1>1. BatchTypeOK'
  BY BatchGoesOn
<1>2. (summary \in [Bulk -> Summary \cup {None}])'
  BY SummaryNext
<1>3. ASSUME NEW c \in Call PROVE NamedInv(c)'
  BY BulkStepIsStep, NamedNext DEF BulkInv
<1>4. ASSUME NEW b \in Bulk, NEW i \in DOMAIN Slots[b] PROVE SlotInv(b, i)'
  BY SlotNext DEF BulkInv
<1>5. ASSUME NEW b \in Bulk PROVE ReturnInv(b)'
  BY ReturnNext DEF BulkInv
<1> QED
  BY <1>1, <1>2, <1>3, <1>4, <1>5 DEF BulkInv

\* What a batch does to its calls, callers of verify_citation may do too: so
\* all that is proved of single calls holds of the calls of batches.
THEOREM BatchesImplementCalls == BulkSpec => Spec
<1>1. BatchTypeOK /\ [BulkNext]_allVars => BatchTypeOK'
  BY BatchGoesOn
<1>2. BulkInit => BatchTypeOK /\ Init
  BY BulkInit0 DEF BatchesInv
<1>3. BatchTypeOK /\ [BulkNext]_allVars => [Next]_vars
  BY BulkStepIsStep
<1> QED
  BY <1>1, <1>2, <1>3, PTL DEF BulkSpec, Spec

\* In a batch too, no later answer is older than an undisturbed forced one.
THEOREM BatchedRefreshesStick == BulkSpec => []UndisturbedRefreshSticks
BY BatchesImplementCalls, UndisturbedRefreshesStick, PTL

LEMMA BatchesAreConsistent == BulkSpec => []BatchesInv
<1>1. BulkSpec => []VerifyInv /\ []RefreshInv
  BY BatchesImplementCalls, VerifyIsConsistent, RefreshIsConsistent, PTL
<1> QED
  BY <1>1, BulkInit0, BulkNextKeeps, PTL DEF BulkSpec

\* Types, of batches and of their calls.
THEOREM BatchTypes == BulkSpec => []BulkTypeOK
<1>1. VerifyInv /\ BatchesInv => BulkTypeOK
  BY DEF VerifyInv, BatchesInv, BatchTypeOK, BulkTypeOK
<1> QED
  BY <1>1, BatchesAreConsistent, BatchesImplementCalls, VerifyIsConsistent, PTL

\* InInputOrder: one result per citation, at its place, whichever calls were
\* answered first or shared a row; none of them from the cache if the batch
\* was forced (server.py:122-128).
THEOREM BatchesAnswerInOrder == BulkSpec => []InInputOrder
<1>1. ASSUME VerifyInv, BatchesInv PROVE InInputOrder
  <2> SUFFICES ASSUME NEW b \in Bulk, batch[b] = "ok", NEW i \in 1..Len(order[b].list)
               PROVE  IF Nameless(order[b].list[i]) THEN pc[Slots[b][i]] = "refused"
                      ELSE /\ pc[Slots[b][i]] = "ok"
                           /\ KeyOf(result[Slots[b][i]].about) = KeyOf(order[b].list[i])
    BY <1>1 DEF InInputOrder, Nameless, BatchesInv, BulkInv, ReturnInv
  <2> DEFINE c == Slots[b][i]
  <2>1. /\ Len(order[b].list) <= MaxCitations
        /\ \A d \in Calls(b) : pc[d] \in {"ok", "refused"}
    BY <1>1 DEF BatchesInv, BulkInv, ReturnInv
  <2>2. /\ order[b] # None /\ order[b] \in [list : Seq(Citation), force : BOOLEAN]
    BY <1>1 DEF BatchesInv, BatchTypeOK
  <2>3. Len(order[b].list) \in Nat
    BY <2>2, LenProperties
  <2>4. i \in DOMAIN Slots[b]
    BY <2>1, <2>3, BulkAssumption, SlotsDiffer
  <2>5. c \in Call /\ pc[c] \in {"ok", "refused"}
    BY <2>1, <2>2, <2>4, SlotIsCall DEF Calls
  <2>6. ask[c].citation = order[b].list[i]
    <3>1. SlotInv(b, i) /\ pc[c] # "new"
      BY <1>1, <2>4, <2>5 DEF BatchesInv, BulkInv
    <3> QED
      BY <3>1 DEF SlotInv
  <2>7. pc[c] = "refused" <=> Nameless(ask[c].citation)
    BY <1>1, <2>5 DEF BatchesInv, BulkInv, NamedInv
  <2>8. pc[c] = "ok" => KeyOf(result[c].about) = KeyOf(ask[c].citation)
    BY <1>1, <2>5 DEF VerifyInv, CallInv, ResultInv, MyKey
  <2> QED
    BY <2>5, <2>6, <2>7, <2>8
<1> QED
  BY <1>1, BatchesAreConsistent, BatchesImplementCalls, VerifyIsConsistent, PTL
=============================================================================
