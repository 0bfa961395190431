-------------------------- MODULE VerifyProperties --------------------------
(***************************************************************************)
(* What verify_citation promises about its answers, cached or fresh.       *)
(***************************************************************************)
EXTENDS VerifyCitation

\* An answer is about a citation with the cache key of the one asked, also
\* when rows are deleted, overwritten and lost under a call that read them.
KeyedAnswer ==
    \A c \in Call : pc[c] = "ok" => KeyOf(result[c].about) = MyKey(c)

\* An answer from the cache is younger than its time to live when the row
\* is looked up: a day if no service confirmed, whatever the reason, two
\* weeks if one did (server.py:40-42), whichever call stored it over what.
WithinTTL ==
    \A c \in Call : cached[c] =>
        seen[c] < result[c].stored
                    + (IF result[c].confirmed = {} THEN TTLNoMatch ELSE TTLMatch)

\* With force_refresh the answer is what the services held after the call
\* began, and about the very citation asked (server.py:113-116).
ForcedFresh ==
    \A c \in Call : pc[c] = "ok" /\ ask[c].force =>
        /\ result[c].asof >= before[c].version
        /\ result[c].about = ask[c].citation

\* A forced answer d and a call c that began later: does c answer with what
\* the services held then, or with something more recent?
AtLeastAsRecent(c, d) ==
    /\ d \in before[c].done /\ pc[d] = "ok" /\ pc[c] = "ok"
    /\ ask[d].force /\ MyKey(c) = MyKey(d)
    => result[c].asof >= result[d].asof

\* A call that certainly has put nothing in the table, whatever it read or
\* deleted there: not yet, or because the cache had the answer.  One that
\* failed or was lost may have.
StoredNothing(e) ==
    \/ pc[e] \in {"refused", "cache_get", "cache_delete", "delete_commit",
                  "fan_out", "gather", "upsert"}
    \/ cached[e]

\* Of all other calls for that key, those that were under way beside d have
\* stored nothing, and none of them failed, was cancelled or lost.
Undisturbed(d) ==
    \A e \in Call \ {d} : ask[e] # None /\ MyKey(e) = MyKey(d) =>
        e \in before[d].done \/ d \in before[e].done \/ StoredNothing(e)

\* If no other call for the key that ran beside a forced one stores or fails,
\* no later call answers with something older, over expiry, restarts, failures
\* and what cancelled calls leave in the transaction before and after it, and
\* calls beside it that delete its row for the expired one they had read.
UndisturbedRefreshSticks ==
    \A c, d \in Call :
        d \in before[c].done /\ Undisturbed(d) => AtLeastAsRecent(c, d)

\* "Provide at least one of doi, pmid, or title" (server.py:110-111): the
\* answer is about the citation that these name.
AnswersWhatWasAsked ==
    \A c \in Call : pc[c] = "ok" =>
        \A id \in {"doi", "pmid", "title"} :
            result[c].about[id] = ask[c].citation[id]

\* No call is in flight for ever: each is answered, fails, or is lost with the
\* process.
Answered == []<>(\A c \in Call : pc[c] \notin InFlight)

-----------------------------------------------------------------------------
\* The inductive invariant behind KeyedAnswer, WithinTTL and ForcedFresh.

\* Every row is for its key and expires when its value says, so that it
\* does not matter which call a row was read or stored by.
RowsInv(table) == \A k \in Key : table[k] # None =>
    /\ KeyOf(table[k].value.about) = k
    /\ table[k].expires = table[k].value.stored + TTL(table[k].value)

\* A call that has a result has one for its key.
ResultInv(c) == pc[c] \in {"upsert", "upsert_commit", "ok"} =>
    result[c] \in Result /\ KeyOf(result[c].about) = MyKey(c)

CachedInv(c) == cached[c] =>
    pc[c] = "ok" /\ seen[c] < result[c].stored + TTL(result[c])

\* A forced call stays clear of the rows, and what it gathers is at least as
\* recent as its beginning.
ForcedInv(c) ==
    /\ before[c].version <= version
    /\ pc[c] = "gather" => before[c].version <= asof[c]
    /\ ask[c] # None /\ ask[c].force =>
         /\ pc[c] \notin {"cache_get", "cache_delete", "delete_commit"}
         /\ pc[c] \in {"upsert", "upsert_commit", "ok"} =>
              /\ before[c].version <= result[c].asof
              /\ result[c].about = ask[c].citation

CallInv(c) ==
    /\ pc[c] # "new" => ask[c] \in Ask
    /\ ResultInv(c)
    /\ CachedInv(c)
    /\ ForcedInv(c)

VerifyInv ==
    /\ TypeOK
    /\ RowsInv(entries)
    /\ RowsInv(file)
    /\ \A c \in Call : CallInv(c)

-----------------------------------------------------------------------------
\* The inductive invariant behind UndisturbedRefreshSticks.

\* The calls that were over when c began are over still, and what c finds out
\* is at least as recent as what the forced ones among them answered.
OrderInv(c) ==
    /\ pc[c] = "new" => ask[c] = None
    /\ c \notin before[c].done
    /\ \A d \in before[c].done :
         /\ pc[d] \in Answers
         /\ pc[d] = "ok" /\ ask[d].force => result[d].asof <= before[c].version
    /\ pc[c] = "gather" => asof[c] \in before[c].version .. version
    /\ pc[c] \in {"upsert", "upsert_commit"} \/ (pc[c] = "ok" /\ ~cached[c]) =>
         result[c].asof \in before[c].version .. version
    /\ ask[c] # None /\ ask[c].force => ~cached[c]

\* From its UPSERT on the row of an undisturbed forced call d, and from its
\* answer on also the one in the file and every later answer, is no older.
NoOlder(table, d) ==
    table[MyKey(d)] # None => table[MyKey(d)].value.asof >= result[d].asof

StickInv(d) ==
    ask[d] # None /\ ask[d].force /\ Undisturbed(d) =>
        /\ pc[d] \in {"upsert_commit", "ok"} => NoOlder(entries, d)
        /\ pc[d] = "ok" =>
             /\ NoOlder(file, d)
             /\ \A c \in Call : d \in before[c].done => AtLeastAsRecent(c, d)

RefreshInv == \A c \in Call : OrderInv(c) /\ StickInv(c)
=============================================================================
