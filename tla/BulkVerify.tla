----------------------------- MODULE BulkVerify -----------------------------
(***************************************************************************)
(* bulk_verify_citations (server.py) over verify_citation: a batch starts  *)
(* one call per citation, as many at a time as its semaphore lets, gathers *)
(* them in input order and sums them up.  Single calls run beside it.      *)
(***************************************************************************)
EXTENDS VerifyProperties, Sequences

CONSTANTS
    Bulk,         \* the calls of bulk_verify_citations
    Slots,        \* per bulk call, the calls of verify_citation it may make
    Concurrency,  \* _BULK_CONCURRENCY
    MaxCitations  \* _BULK_MAX_CITATIONS

SlotsOf(b) == {Slots[b][i] : i \in DOMAIN Slots[b]}

ASSUME BulkAssumption ==
    /\ Slots \in [Bulk -> Seq(Call)]
    /\ \A b \in Bulk : Cardinality(SlotsOf(b)) = Len(Slots[b])
    /\ \A a, b \in Bulk : a # b => SlotsOf(a) \cap SlotsOf(b) = {}
    /\ Concurrency \in Nat \ {0} /\ MaxCitations \in Nat
    /\ \A b \in Bulk : Len(Slots[b]) = MaxCitations
ASSUME NoOrderAssumption == None \notin [list : Seq(Citation), force : BOOLEAN]

VARIABLES
    batch,    \* how each bulk call stands
    order,    \* its citations, its force_refresh
    summary   \* the summary it answers

bulkVars == <<batch, order, summary>>
allVars == <<vars, bulkVars>>

Summary == [total : Nat, verified : Nat, hits : Nat]

BulkTypeOK ==
    /\ TypeOK
    /\ batch \in [Bulk -> {"new", "running", "cancelled"} \cup Answers]
    /\ order \in [Bulk -> [list : Seq(Citation), force : BOOLEAN] \cup {None}]
    /\ summary \in [Bulk -> Summary \cup {None}]

BulkInit ==
    /\ Init
    /\ batch = [b \in Bulk |-> "new"]
    /\ order = [b \in Bulk |-> None]
    /\ summary = [b \in Bulk |-> None]

-----------------------------------------------------------------------------
\* The calls of b that were ordered.
Calls(b) == {Slots[b][i] : i \in
    {j \in DOMAIN Slots[b] : order[b] # None /\ j <= Len(order[b].list)}}
\* Mutant of HoldingPermit: a refused citation keeps its permit.
HoldingPermitLost(b) == {c \in SlotsOf(b) : pc[c] \in InFlight \cup {"refused"}}

HoldingPermit(b) == {c \in SlotsOf(b) : pc[c] \in InFlight}

BulkBegin(b, list, force) ==
    /\ batch[b] = "new"
    /\ batch' = [batch EXCEPT ![b] =
           IF list = <<>> \/ Len(list) > MaxCitations THEN "refused" ELSE "running"]
    /\ order' = [order EXCEPT ![b] = [list |-> list, force |-> force]]
    /\ UNCHANGED <<summary, vars>>

\* `async with sem': permits are granted in the order of the citations.
\* The tasks of a batch whose gather has raised are not cancelled: those
\* not yet begun still begin.
Permitted(b, i) ==
    /\ Cardinality(HoldingPermit(b)) < Concurrency
    /\ \A j \in 1..(i - 1) : pc[Slots[b][j]] # "new"

\* Mutant of SlotBegin: force_refresh is not handed on.
SlotBeginUnforced(b, i) ==
    /\ batch[b] \in {"running", "failed"}
    /\ i \in 1..Len(order[b].list)
    /\ Permitted(b, i)
    /\ Begin(Slots[b][i], order[b].list[i], FALSE)
    /\ UNCHANGED bulkVars

SlotBegin(b, i) ==
    /\ batch[b] \in {"running", "failed"}
    /\ i \in 1..Len(order[b].list)
    /\ Permitted(b, i)
    /\ Begin(Slots[b][i], order[b].list[i], order[b].force)
    /\ UNCHANGED bulkVars

\* gather without return_exceptions: it raises as soon as one call does.
BulkRaises(b) ==
    /\ batch[b] = "running"
    /\ \E c \in Calls(b) : pc[c] = "failed"
    /\ batch' = [batch EXCEPT ![b] = "failed"]
    /\ UNCHANGED <<order, summary, vars>>

Verified(b) == {c \in Calls(b) : pc[c] = "ok" /\ result[c].confirmed # {}}
CacheHits(b) == {c \in Calls(b) : cached[c]}

\* The batch is cancelled, and through its gather the calls under way; those
\* that wait for a permit never begin.
BulkCancel(b) ==
    /\ MayCancel
    /\ batch[b] = "running"
    /\ batch' = [batch EXCEPT ![b] = "cancelled"]
    /\ UNCHANGED <<order, summary, vars>>

\* Calls to which the next thing to happen is that they are cancelled.
Doomed == UNION {SlotsOf(b) : b \in {a \in Bulk : batch[a] = "cancelled"}}

\* Mutant of CallStep: calls of a cancelled batch are forgotten.
CallStepAlone(c) == c \notin Doomed /\ Step(c)

\* A call goes on, or hears that its batch was cancelled.
CallStep(c) == (c \notin Doomed /\ Step(c)) \/ (c \in Doomed /\ Cancel(c))

\* A citation that verify_citation refused is a result too, with an error
\* in place of a verdict.
BulkReturn(b) ==
    /\ batch[b] = "running"
    /\ \A c \in Calls(b) : pc[c] \in {"ok", "refused"}
    /\ batch' = [batch EXCEPT ![b] = "ok"]
    /\ summary' = [summary EXCEPT ![b] =
           [total |-> Len(order[b].list),
            verified |-> Cardinality(Verified(b)),
            hits |-> Cardinality(CacheHits(b))]]
    /\ UNCHANGED <<order, vars>>

\* A restart loses the batches under way, their calls begun or not, and what
\* is left of those that have failed.
BulkCrash ==
    /\ Crash
    /\ batch' = [b \in Bulk |-> IF batch[b] \in {"running", "failed"}
                                THEN "lost" ELSE batch[b]]
    /\ UNCHANGED <<order, summary>>

BulkStep(b) ==
    \/ BulkRaises(b) \/ BulkReturn(b)
    \/ \E i \in DOMAIN Slots[b] : SlotBegin(b, i)

Single == Call \ UNION {SlotsOf(b) : b \in Bulk}

BulkNext ==
    \/ \E b \in Bulk, force \in BOOLEAN :
         \E n \in 0..(MaxCitations + 1) : \E list \in [1..n -> Citation] :
           BulkBegin(b, list, force)
    \/ \E b \in Bulk : BulkStep(b)
    \/ \E c \in Single, citation \in Citation, force \in BOOLEAN :
         Begin(c, citation, force) /\ UNCHANGED bulkVars
    \/ \E c \in Call : CallStep(c) /\ UNCHANGED bulkVars
    \/ \E c \in Single : Cancel(c) /\ UNCHANGED bulkVars
    \/ \E b \in Bulk : BulkCancel(b)
    \/ (ContentsChange \/ ClockTicks) /\ UNCHANGED bulkVars
    \/ BulkCrash

BulkSpec == BulkInit /\ [][BulkNext]_allVars

\* The event loop always runs some coroutine that is ready, and a request to a
\* service ends by its timeout at the latest.
BulkFairSpec ==
    /\ BulkSpec
    /\ WF_allVars(\/ \E c \in Call : CallStep(c) /\ UNCHANGED bulkVars
                  \/ \E b \in Bulk : BulkStep(b))

-----------------------------------------------------------------------------
\* A batch answers with one result per citation, in input order: each for
\* the cache key of its citation, or an error if that has no identifier; and
\* a forced batch, whatever runs beside it or was asked twice in it, has no
\* result from the cache (server.py:122-128).
InInputOrder ==
    \A b \in Bulk : batch[b] = "ok" =>
        /\ \A i \in 1..Len(order[b].list) :
             LET c == Slots[b][i] IN
             IF \A id \in {"doi", "pmid", "title"} : order[b].list[i][id] = None
             THEN pc[c] = "refused"
             ELSE /\ pc[c] = "ok"
                  /\ KeyOf(result[c].about) = KeyOf(order[b].list[i])
        /\ order[b].force => summary[b].hits = 0

\* No batch runs for ever, and if it has failed, restarts apart, none of its
\* calls does: no permit is lost (server.py:490-504).
BatchEnds ==
    []<>(\A b \in Bulk : /\ batch[b] # "running"
                         /\ batch[b] = "failed" => \A c \in Calls(b) : pc[c] \in Answers)
-----------------------------------------------------------------------------
\* The inductive invariant behind InInputOrder.

Nameless(citation) == \A id \in {"doi", "pmid", "title"} : citation[id] = None

BatchTypeOK ==
    /\ batch \in [Bulk -> {"new", "running", "cancelled"} \cup Answers]
    /\ order \in [Bulk -> [list : Seq(Citation), force : BOOLEAN] \cup {None}]
    /\ \A b \in Bulk : order[b] = None => batch[b] = "new"

\* A call is refused if its citation has no identifier, and only then.
NamedInv(c) == pc[c] # "new" => (pc[c] = "refused" <=> Nameless(ask[c].citation))

\* A call of a batch that has begun asks what the batch ordered at its place.
SlotInv(b, i) == pc[Slots[b][i]] # "new" =>
    /\ batch[b] # "new"
    /\ i <= Len(order[b].list)
    /\ ask[Slots[b][i]] = [citation |-> order[b].list[i], force |-> order[b].force]

\* A batch that has answered had all its answers, and if it was forced, none
\* from the cache.
ReturnInv(b) ==
    /\ batch[b] \notin {"new", "refused"} => Len(order[b].list) <= MaxCitations
    /\ batch[b] = "ok" =>
         /\ \A c \in Calls(b) : pc[c] \in {"ok", "refused"}
         /\ order[b].force => summary[b].hits = 0

BulkInv ==
    /\ \A c \in Call : NamedInv(c)
    /\ \A b \in Bulk : \A i \in DOMAIN Slots[b] : SlotInv(b, i)
    /\ \A b \in Bulk : ReturnInv(b)
=============================================================================
