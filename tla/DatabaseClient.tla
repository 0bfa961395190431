--------------------------- MODULE DatabaseClient ---------------------------
(***************************************************************************)
(* The request loops of the five service clients (databases/*.py): how a   *)
(* request is admitted, retried and ended.                                 *)
(*   arXiv: every attempt takes the spacing lock, sleeps until the minimum *)
(*     interval since the end of the last GET is over, and sends.          *)
(*   PubMed: a request takes a permit, then waits once for the pacer, then *)
(*     makes all its attempts.                                             *)
(*   OpenAlex and Semantic Scholar: a permit, then all attempts.           *)
(*   Crossref: no admission; a pause after a response that says that its   *)
(*     rate limit is nearly used up.                                       *)
(* Time is relative: ages of what has happened, which stop counting at the *)
(* horizon, and countdowns of sleeps, which may take longer than asked.    *)
(***************************************************************************)
EXTENDS Integers, Sequences, FiniteSets

CONSTANTS
    Request,     \* calls of _request, of one service
    None,        \* nobody, never
    Services,    \* the services considered
    Horizon,     \* _MIN_INTERVAL_SECONDS, the pacer's window
    Permits,     \* of the semaphore, and of the pacer in a window
    MaxRetries,  \* _MAX_RETRIES
    Delay        \* of a retry: backoff with jitter, Retry-After, capped

ASSUME NoneAssumption == None \notin Request /\ None \notin Nat
ASSUME ServicesAssumption == Services \subseteq
    {"arxiv", "pubmed", "openalex", "semantic_scholar", "crossref"}
ASSUME HorizonAssumption == Horizon \in Nat
ASSUME PermitsAssumption == Permits \in Nat \ {0}
ASSUME RetriesAssumption == MaxRetries \in Nat
ASSUME DelayAssumption == Delay \subseteq Nat

VARIABLES
    service,  \* whose client this is
    pc,       \* the await each request is suspended at, or its outcome
    attempt,  \* the loop variable of _request
    sleep,    \* what is left of the sleep of a request
    lock,     \* who holds _spacing_lock, or the lock of the pacer
    lastEnd,  \* age of arXiv's _last_request_at
    stamps,   \* ages of the pacer's _timestamps
    sent      \* history: age of each GET, by request and attempt

vars == <<service, pc, attempt, sleep, lock, lastEnd, stamps, sent>>

Attempt == 0..MaxRetries
Age == Nat \cup {None}
Waiting == {"permit", "lock", "spacing", "get", "courtesy", "backoff"}
\* A response that the caller looks at, ArxivRateLimited, another exception,
\* CancelledError.
Outcome == {"response", "limited", "error", "cancelled"}

TypeOK ==
    /\ service \in Services
    /\ pc \in [Request -> {"new"} \cup Waiting \cup Outcome]
    /\ attempt \in [Request -> Attempt]
    /\ sleep \in [Request -> Nat]
    /\ lock \in Request \cup {None}
    /\ lastEnd \in Age
    /\ stamps \in Seq(Nat)
    /\ sent \in [Request \X Attempt -> Age]

Init ==
    /\ service \in Services
    /\ pc = [r \in Request |-> "new"]
    /\ attempt = [r \in Request |-> 0]
    /\ sleep = [r \in Request |-> 0]
    /\ lock = None
    /\ lastEnd = None
    /\ stamps = <<>>
    /\ sent = [p \in Request \X Attempt |-> None]

-----------------------------------------------------------------------------
Goto(r, there) == pc' = [pc EXCEPT ![r] = there]
Sleep(r, time) == sleep' = [sleep EXCEPT ![r] = time]
Send(r) ==
    /\ sent' = [sent EXCEPT ![<<r, attempt[r]>>] = 0]
    /\ Goto(r, "get")

Recent(age) == age # None /\ age < Horizon

Arrive(r) ==
    /\ pc[r] = "new"
    /\ CASE service = "crossref" -> Send(r)
         [] service = "arxiv"    -> Goto(r, "lock") /\ UNCHANGED sent
         [] OTHER                -> Goto(r, "permit") /\ UNCHANGED sent
    /\ UNCHANGED <<service, attempt, sleep, lock, lastEnd, stamps>>

\* Mutant of HoldingPermit: the permit is given back during a backoff.
HoldingPermitAwake == {r \in Request : pc[r] \in {"lock", "spacing", "get"}}

\* Requests inside `async with self._semaphore', retries included.
HoldingPermit ==
    {r \in Request : pc[r] \in {"lock", "spacing", "get", "backoff"}}

TakePermit(r) ==
    /\ pc[r] = "permit"
    /\ Cardinality(HoldingPermit) < Permits
    /\ IF service = "pubmed" THEN Goto(r, "lock") /\ UNCHANGED sent ELSE Send(r)
    /\ UNCHANGED <<service, attempt, sleep, lock, lastEnd, stamps>>

\* The lock of arXiv is free: send, and keep the lock for the GET, or sleep.
ArxivLock(r) ==
    /\ service = "arxiv" /\ pc[r] = "lock" /\ lock = None
    /\ lock' = r
    /\ IF Recent(lastEnd)
       THEN Sleep(r, Horizon - lastEnd) /\ Goto(r, "spacing") /\ UNCHANGED sent
       ELSE Send(r) /\ UNCHANGED sleep
    /\ UNCHANGED <<service, attempt, lastEnd, stamps>>

ArxivWake(r) ==
    /\ service = "arxiv" /\ pc[r] = "spacing" /\ sleep[r] = 0
    /\ Send(r)
    /\ UNCHANGED <<service, attempt, sleep, lock, lastEnd, stamps>>

\* _RateLimiter.acquire: drop the timestamps that left the window; if it is
\* full, sleep, with the lock, until the oldest leaves it.
InWindow ==
    LET old == CHOOSE n \in 0..Len(stamps) :
            /\ \A i \in 1..n : ~Recent(stamps[i])
            /\ n < Len(stamps) => Recent(stamps[n + 1])
    IN  SubSeq(stamps, old + 1, Len(stamps))

PacerLock(r) ==
    /\ service = "pubmed" /\ pc[r] = "lock" /\ lock = None
    /\ IF Len(InWindow) >= Permits
       THEN /\ lock' = r
            /\ Sleep(r, Horizon - Head(InWindow))
            /\ stamps' = InWindow
            /\ Goto(r, "spacing") /\ UNCHANGED sent
       ELSE /\ stamps' = Append(InWindow, 0)
            /\ Send(r) /\ UNCHANGED <<lock, sleep>>
    /\ UNCHANGED <<service, attempt, lastEnd>>

PacerWake(r) ==
    /\ service = "pubmed" /\ pc[r] = "spacing" /\ sleep[r] = 0
    /\ stamps' = Append(InWindow, 0)
    /\ lock' = None
    /\ Send(r)
    /\ UNCHANGED <<service, attempt, sleep, lastEnd>>

\* arXiv's `finally' when a GET is over, and the end of its `async with'.
GetOver ==
    IF service = "arxiv" THEN lastEnd' = 0 /\ lock' = None
    ELSE UNCHANGED <<lastEnd, lock>>

\* Crossref: a response is looked at after a pause, if its headers ask for it.
Courtesy(r) ==
    /\ service = "crossref" /\ pc[r] = "get"
    /\ Goto(r, "courtesy")
    /\ \E d \in {0, Horizon} : Sleep(r, d)
    /\ UNCHANGED <<service, attempt, lock, lastEnd, stamps, sent>>

Responded(r) ==
    IF service = "crossref" THEN pc[r] = "courtesy" /\ sleep[r] = 0
    ELSE pc[r] = "get"

\* A response other than 429 and 5xx.
Reply(r) ==
    /\ Responded(r)
    /\ GetOver
    /\ Goto(r, "response")
    /\ UNCHANGED <<service, attempt, sleep, stamps, sent>>

\* Mutant of BackOff: one attempt too many.
BackOffOnceMore(r) ==
    /\ attempt' = [attempt EXCEPT ![r] = @ + 1]
    /\ \E d \in Delay : Sleep(r, d)
    /\ Goto(r, "backoff")

\* One more attempt, after a sleep.  PubMed's _BASE_BACKOFF is as long as the
\* pacer's window.
BackOff(r) ==
    /\ attempt[r] < MaxRetries
    /\ attempt' = [attempt EXCEPT ![r] = @ + 1]
    /\ \E d \in Delay : (service = "pubmed" => d >= Horizon) /\ Sleep(r, d)
    /\ Goto(r, "backoff")

GiveUp(r, outcome) ==
    /\ attempt[r] = MaxRetries
    /\ Goto(r, outcome)
    /\ UNCHANGED <<attempt, sleep>>

\* 429 or 5xx.  The last response is returned, but a 429 of arXiv raises.
Refused(r) ==
    /\ Responded(r)
    /\ GetOver
    /\ \/ BackOff(r)
       \/ GiveUp(r, "response")
       \/ service = "arxiv" /\ GiveUp(r, "limited")
    /\ UNCHANGED <<service, stamps, sent>>

\* A transport error or a timeout.  arXiv does not catch it.
TransportError(r) ==
    /\ pc[r] = "get"
    /\ GetOver
    /\ IF service = "arxiv" THEN Goto(r, "error") /\ UNCHANGED <<attempt, sleep>>
       ELSE BackOff(r) \/ GiveUp(r, "error")
    /\ UNCHANGED <<service, stamps, sent>>

\* The next attempt: arXiv queues for its lock again, the others send.
Retry(r) ==
    /\ pc[r] = "backoff" /\ sleep[r] = 0
    /\ IF service = "arxiv" THEN Goto(r, "lock") /\ UNCHANGED sent ELSE Send(r)
    /\ UNCHANGED <<service, attempt, sleep, lock, lastEnd, stamps>>

\* Mutant of Cancel: no `finally' around the GET.
CancelForgetsGet(r) ==
    /\ pc[r] \in Waiting
    /\ Goto(r, "cancelled")
    /\ Sleep(r, 0)
    /\ lock' = IF lock = r THEN None ELSE lock
    /\ UNCHANGED <<service, attempt, lastEnd, stamps, sent>>

\* Mutant of Cancel: the lock is not given back.
CancelKeepsLock(r) ==
    /\ pc[r] \in Waiting
    /\ Goto(r, "cancelled")
    /\ Sleep(r, 0)
    /\ lastEnd' = IF service = "arxiv" /\ pc[r] = "get" THEN 0 ELSE lastEnd
    /\ UNCHANGED <<service, attempt, lock, stamps, sent>>

\* The tool call is cancelled: CancelledError is raised at the await, and
\* leaves the `async with' blocks and the `finally' on its way.
Cancel(r) ==
    /\ pc[r] \in Waiting
    /\ Goto(r, "cancelled")
    /\ Sleep(r, 0)
    /\ lock' = IF lock = r THEN None ELSE lock
    /\ lastEnd' = IF service = "arxiv" /\ pc[r] = "get" THEN 0 ELSE lastEnd
    /\ UNCHANGED <<service, attempt, stamps, sent>>

Older(age) == IF age # None /\ age < Horizon THEN age + 1 ELSE age

Tick ==
    /\ lastEnd' = Older(lastEnd)
    /\ stamps' = [i \in DOMAIN stamps |-> Older(stamps[i])]
    /\ sent' = [p \in Request \X Attempt |-> Older(sent[p])]
    /\ sleep' = [r \in Request |-> IF sleep[r] > 0 THEN sleep[r] - 1 ELSE 0]
    /\ UNCHANGED <<service, pc, attempt, lock>>

Progress(r) ==
    \/ TakePermit(r) \/ ArxivLock(r) \/ ArxivWake(r) \/ PacerLock(r) \/ PacerWake(r)
    \/ Courtesy(r) \/ Reply(r) \/ Refused(r) \/ TransportError(r) \/ Retry(r)

Next == Tick \/ \E r \in Request : Arrive(r) \/ Progress(r) \/ Cancel(r)

Spec == Init /\ [][Next]_vars

\* Time passes, the event loop runs what is ready, a GET ends by its timeout.
FairSpec == Spec /\ WF_vars(Tick) /\ \A r \in Request : WF_vars(Progress(r))

-----------------------------------------------------------------------------
\* arXiv asks for "3 seconds between requests" (arxiv.py:3-6): of any two
\* GETs, retries included, the second was sent when the interval since the
\* first was over, whatever raised or was cancelled in between.
ArxivSpaced ==
    service = "arxiv" => \A p, q \in Request \X Attempt :
        Recent(sent[p]) /\ Recent(sent[q]) => p = q

\* "no more than N requests per rolling window" (pubmed.py:56) holds of first
\* attempts, which is what the pacer sees.  Retries pass it by; but they keep
\* the permit, and sleep for a window, so there are no more than N of them,
\* and twice N of both.
PubMedRate ==
    service = "pubmed" =>
        /\ Cardinality({r \in Request : Recent(sent[<<r, 0>>])}) <= Permits
        /\ Cardinality({p \in Request \X (1..MaxRetries) : Recent(sent[p])}) <= Permits

\* Every request ends: retries are bounded, locks and permits given back.
Ends == \A r \in Request : pc[r] \in Waiting ~> pc[r] \in Outcome

-----------------------------------------------------------------------------
\* The inductive invariant behind PubMedRate.

Retries == Request \X (1..MaxRetries)

\* The pacer's lock is held while its holder sleeps, until the oldest of
\* the timestamps, which are no more than the permits, leaves the window.
PacerInv ==
    /\ Len(stamps) <= Permits
    /\ \A r \in Request : pc[r] = "spacing" =>
         lock = r /\ stamps # <<>> /\ sleep[r] + Head(stamps) >= Horizon

\* A request sends first when the pacer lets it, and after a whole window
\* again; so no two of its GETs are in one window.
AttemptInv(r) ==
    /\ pc[r] \notin {"courtesy", "limited"}
    /\ pc[r] \in {"new", "permit", "lock", "spacing"} =>
         attempt[r] = 0 /\ \A a \in Attempt : sent[<<r, a>>] = None
    /\ pc[r] = "backoff" =>
         /\ attempt[r] >= 1
         /\ \A a \in Attempt : Recent(sent[<<r, a>>]) => sleep[r] + sent[<<r, a>>] >= Horizon
    /\ \A a, b \in Attempt : Recent(sent[<<r, a>>]) /\ Recent(sent[<<r, b>>]) => a = b

\* For each first attempt in the window, a timestamp of its own.
FirstRecent == {r \in Request : Recent(sent[<<r, 0>>])}
StampedInv ==
    \E stamp \in [FirstRecent -> DOMAIN stamps] :
        /\ \A q, r \in FirstRecent : stamp[q] = stamp[r] => q = r
        /\ \A r \in FirstRecent : stamps[stamp[r]] = sent[<<r, 0>>]

\* Who has sent a retry since, or will while a retry of that age is in the
\* window: they all had a permit when it was sent.
Beside(age) ==
    {r \in Request : \/ \E a \in 1..MaxRetries : sent[<<r, a>>] # None /\ sent[<<r, a>>] <= age
                     \/ pc[r] = "backoff" /\ sleep[r] + age < Horizon}
AtMostPermits(set) == IsFiniteSet(set) /\ Cardinality(set) <= Permits

RateInv ==
    service = "pubmed" =>
        /\ PacerInv
        /\ \A r \in Request : AttemptInv(r)
        /\ StampedInv
        /\ AtMostPermits(HoldingPermit)
        /\ \A p \in Retries : Recent(sent[p]) => AtMostPermits(Beside(sent[p]))
=============================================================================
