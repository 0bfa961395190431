# citation-mcp: a TLA+ model

This directory holds TLA+ modules that model the citation-mcp server and
its validation harness, the TLC configurations that check them on small instances, and
TLAPS proofs. Paths such
as `storage.py:350` are under `src/citation_mcp/` of the repository (in
`PROJECT.json` they carry the prefix `src/src/citation_mcp/`); `oauth_client.py`,
`mcp_client.py`, `validate.py`, `cli.py` and `report.py` are those of `harness/`.

## The system

citation-mcp is one asyncio process. It answers MCP tool calls that verify
citations against five bibliographic services, and, when it is served over HTTP,
it is its own OAuth 2.1 authorization server.

| component | state it keeps | operations | what makes it correct |
|---|---|---|---|
| OAuth store (`auth/storage.py`) | SQLite tables of clients, codes, refresh tokens; one shared connection; one `asyncio.Lock` | register, store and consume a code, store, rotate and revoke refresh tokens | a credential is exchanged once; a chain of refresh tokens never forks; a reuse kills the chain; what was handed out survives a restart |
| OAuth endpoints (`auth/routes.py`, `auth/tokens.py`) | none of their own; locals across awaits | `/oauth/register`, `/oauth/authorize`, `/oauth/token` | the claims of a token lead back to one approval; every request is answered |
| Bearer check and gate (`auth/verifier.py`, `http_app.py`, `auth/discovery.py`) | none | Host, Origin, Content-Type and token checks | a request reaches the tools only with a token of this issuer and audience |
| Result cache (`cache.py`) | SQLite table key -> (result, expiry) | get (deletes what expired), set, delete, purge | an answer served from the cache is for the same citation and not stale |
| verify_citation (`server.py:305`) | the five clients' answers; the cache | one citation: cache, five lookups in parallel, score, merge, store | a failure of one service is not an answer "not found" |
| bulk_verify_citations (`server.py:464`) | a semaphore of 10 | many citations | one answer per citation, in order |
| resolve_identifier (`server.py:576`) | identifiers found so far; the cache | two rounds of lookups | the result does not depend on who answers first |
| database clients (`databases/*.py`) | arXiv: lock and time of the last request; PubMed: semaphore and window of timestamps; others: a semaphore | one request with retries | the service's request rate is respected; every call ends |
| scoring (`scoring.py`, the loop of `verify_citation` over the results) | none | identifier match, weighted score, guards and grades; pick of a candidate, of a representative; merge of records | an answer is backed by its records; "high" is earned; no disagreement is lost; names survive parsing |
| validation harness (`harness/`) | `tokens.json`, `client.json`, the callback port | register, auth, refresh, status, token, validate | the token on disk is the live one; what is handed out is valid; exit codes tell the truth; every run ends |
| offline scripts, CLI, log redaction | none that matters | comparison runs, reports | not modelled |

How they interact: a tool call goes through the gate to `verify_citation`, which
reads the cache, calls the clients concurrently and writes the cache; bulk calls
run up to ten of those at once. All OAuth requests share one connection, hence one
transaction. Everything interleaves at `await`. The harness is a separate program, run
by cron and by hand: its processes share two files, and meet the server through
`/oauth/*` and `/mcp`.

## What is hard

* **Interleaving at every await.** Coroutines share the OAuth connection's
  transaction, the cache and the clients' pacers.
* **Partial failure.** Statements raise without a rollback; services time out,
  refuse or answer garbage; one failing lookup of many.
* **Restarts.** What was committed by whom when the process dies.
* **Retries.** A client that lost an answer repeats a request the server
  already carried out.
* **Time.** Clocks read before a wait and used after it; expiry.
* **Files shared by processes.** The harness replaces its files through a temporary file
  of a fixed name, without a lock.
* **Arithmetic.** Weights redistributed twice, thresholds, tolerances and ties decide what
  a user is told about a citation.

## Modules

The project models six subsystems, each a machine of its own: they share no variables in
the program either, apart from what is said in the sections below.

| module | what it is |
|---|---|
| `OAuthStorage` | the OAuth store: tables as statements see them (`db`), as committed (`disk`), the lock, the open statement; one operator per SQL statement |
| `TokenEndpoint` | the handlers of `auth/routes.py` over it, one action per await, plus failing statements, restarts, time |
| `TokenProperties` | what the endpoints promise; the mapping of the chains on disk to `GrantLifecycle` |
| `GrantLifecycle` | abstract specification of a chain of refresh tokens |
| `TokenInvariants` | the inductive invariants of the token proofs |
| `TokenEndpointProofs` | theorems about the lock and the chains of `TokenEndpoint` |
| `TokenGrantProofs` | theorems about what it hands out, and the refinement of `GrantLifecycle` |
| `MCTokenEndpoint` | symmetry sets for TLC |
| `ResultCache` | `cache.py`: the table as statements see it (`entries`), as committed (`file`), the clock |
| `VerifyCitation` | `verify_citation` over it, one action per await |
| `VerifyProperties` | what an answer promises; the inductive invariants `VerifyInv`, `RefreshInv` |
| `VerifyProofs` | theorems about `VerifyCitation` and `BulkVerify` |
| `BulkVerify` | `bulk_verify_citations` over `VerifyCitation`, single calls beside it |
| `MCVerifyCitation`, `MCBulkVerify`, `MCResolveIdentifier` | citations, keys, batches and records for TLC |
| `ResolveIdentifier` | `resolve_identifier` over `ResultCache` |
| `ResolveProofs` | theorems about it |
| `DatabaseClient` | the request loops of the five service clients |
| `DatabaseClientProofs` | theorems about arXiv's spacing and PubMed's rate |
| `MCDatabaseClient` | its instance for TLC |
| `MatchScore` | layers 1 and 2 of `scoring.py` and `_select_best_candidate`, as operators |
| `CanonicalMerge` | layer 3: the merged record and its discrepancies |
| `Matching` | the loop of `verify_citation` over the services' answers, and the answer it builds |
| `MatchProperties`, `MatchProofs`, `MCMatching` | what an answer says about its records; theorems; citations and records for TLC |
| `HttpGate` | the middlewares, the routing and the bearer check, as the answer to a request |
| `GrantServer` | the server as a client meets it: registrations, grants and refreshes as single steps, the signing key |
| `Harness` | the processes of the harness over their files and `GrantServer` |
| `HarnessProperties`, `MCHarness` | what they promise; the instance for TLC |
| `HarnessProofs` | theorems about its types and `tokens.json` |
| `HarnessRunProofs` | theorems about exit codes, tokens handed out, the server's chains, the grant kept on disk and the retry after a 401 |

### OAuth tokens

A request `r` is at `pc[r]`, the await its handler is suspended at; everything between
two awaits is one action. `db` is what a statement on the shared connection sees, `disk`
what the file holds: `Commit` copies all of `db`, whoever called it, and `Crash`
returns to `disk`. `cursor` is the one statement that writes and is not yet exhausted
(`UPDATE ... RETURNING` of a code exchange, `storage.py:207-219`), while which SQLite
refuses to commit. `lock` is `OAuthStorage._lock`. A code or token is named after the
request that minted it, a chain after its root. Requests come in five kinds
(`Kinds`); `revoke`, a call of `revoke_chain`, is used by no route and is switched on
only where a run is about it. Which of two failed checks an error names is not kept.

### Verification

A call `c` is at `pc[c]`. `Begin` validates and chooses the first await, `CacheGet`,
`CacheDelete` and `DeleteCommit` are the statements of `Cache.get` and of the delete it
makes of an expired row, `FanOut` starts the lookups, each of which ends in `Lookup` in one
of the outcomes that `_fetch_from_db` distinguishes, `Gather` puts the result together,
`CacheSet` and `SetCommit` store it. `GatherRaises` is the `ValueError` of a body that
is not JSON, which `CrossrefClient` lets through (`crossref.py:192,225`) and
`_fetch_from_db` (`server.py:291-297`) does not catch. `CacheRaises` is an SQLite
error, `Crash` a restart. `Cancel` ends a call at any await: `asyncio` raises
`CancelledError` there, but a statement already handed to SQLite's thread is executed, so
that a row can stay in the open transaction. `version` stands for what the services hold; a lookup
stamps the call with the version it saw (`asof`), which is how the properties tell a
fresh answer from a stale one. `before` is a history variable.

A result is kept as the citation it was computed for, the services that confirmed it,
those that failed, `asof`, and the time it was stored. A lookup ends in a match or not;
`Matching` says when. That an answer is verified, and of a quality other than "none" (which
chooses the time to live), exactly if some service confirmed it is taken for granted in
`VerifyCitation`; it is part of the theorem `AnswersBacked`.

`BulkVerify` adds the batches: a slot per citation, permits of the semaphore granted in
order, `BulkRaises` for `gather` without `return_exceptions` (its siblings go on, as
asyncio has it), `BulkReturn` for the summary. `BulkCancel` is the cancellation of the tool
call: `gather` cancels its calls, each of which is `Doomed` to end in `Cancel` at the await
it has reached (`CallStep`), and those that wait for a permit never begin.

### Resolution of identifiers

`ResolveIdentifier` has the cache's steps of `VerifyCitation`; its keys have another
prefix in the same table, so the two never meet in a row and each has a table of its own
here (one transaction is shared, which makes a commit of the one an early commit of the
other; both already allow a commit by any of their own calls at any moment). `StartRounds` are the
lookups by the given identifier, `Lookup` the end of one with `_merge_ids` at that moment,
`RoundTwo` the follow-up by DOI once all have ended, `Resolve` the result. `told` is a
history variable: everything records said to a call. A lookup that fails, finds nothing
or is rate limited is the same here, a record without identifiers; `databases_failed`
and the warnings are left out. `Cancel` is as in
`VerifyCitation`. Identifiers are told apart up to `_resolve_cache_key`:
from the cache, the identifier a caller gave comes back in the spelling of the call that
stored it.

### Service clients

A behaviour of `DatabaseClient` is one client (`service`, chosen at the start). Time is
relative: `lastEnd`, `stamps` and `sent` are ages that stop counting at the horizon,
`sleep` counts down. Any request may be cancelled at any await. `VerifyCitation` does
not compose with it: a lookup there takes any time and ends in any outcome, which
includes everything that `DatabaseClient` lets a request do. `InWindow` drops timestamps
from the head of the deque while the head is out of the window, as `_RateLimiter.acquire`
does.

### Scoring

`MatchScore` and `CanonicalMerge` have no state. A citation or record is a function on the
keys it carries, so that a missing key and an empty value are one thing, as they are for
the code. Similarities are counted in twentieths (0.70 and 0.95 are 14 and 19) and weights
in integers: `Weights` multiplies out the two redistributions, of the weights of absent
fields and of what a short title frees, over the common `Denominator`. What the code
computes in doubles may fall on either side of a threshold that the exact value hits:
`Grades` then has two members and `Candidates` chooses. The share of other authors is
rounded down to a twentieth. Strings are seen through what is done with them: titles
through a table of likenesses, journals through their normalized names and the
abbreviation table (`BareName`, `Abbreviated`), identifiers through a canonical form and a
spelling, names through tokens that know whether they look like initials and whether a
comma ends them, which is all that `parse_author_string` looks at. The words themselves are
the constant `Words`, a name is a sequence of them of any length (`Token`, `Author`).
`Suppliers` are positions in the order of authority, `Source` the first of them.
`Unfinished` names the one way of citing an author that the echo does not keep:
several words with a comma after the last.

`Matching` looks at one service after another in the order of `clients`: each failed,
was rate limited, found nothing, or returned candidates, any records of `Record`
(`Candidates`). `taken` is `matched_records` and `per_db_score`, `rejected` is
`rejected_scores`; `AnswerVerified` and `AnswerUnverified` build the result.

### Harness

A process `p` of `Harness` is one invocation, sequential, at `job[p].pc`; each action
reads or writes a file or is an exchange with the server. `file[f]` and `tmp[f]` are files as
the file system has them: a name that exists or not, contents that parse or not, and the
processes whose descriptor points at them, because `_atomic_write` gives every
process the same temporary name, `O_TRUNC` empties it under a writer, and a rename takes
it away with whatever descriptors are open (`Accepted`, `Written`, `Rename`). `Die` is a kill
at any point, a request that breaks off, or a full disk; a refresh that was sent may still
arrive (`late`, `ServeLate`). `then` says what `get_access_token` was called for: the
`token` command, the check at the start of `validate`, a pass, or the second
`get_access_token` after a refresh (`mcp_client.py:139-141`). `disturbed` is a history
variable: processes were between request and rename at the same time, or an answer that
changed a grant was lost.

`GrantServer` carries out a request in one step, or fails while it does with the rotation
undone, done or half done (`Breaks`), which is what `TokenEndpoint` shows of a handler from
outside; `ServerKeepsLifecycle` states that its steps are those of
`GrantLifecycle`, which `TokenEndpoint` implements (`ChainsFollowLifecycle`). A call of
the tools is `HttpGate!Answer` of the request the MCP client sends, with the key the server
runs with (`Rekey` changes it at a restart) and the time.

Left out of the model: the fetch of the server's metadata before a request, which changes
nothing; the expiry of refresh tokens; the reuse or expiry of an authorization code, of
which the harness gets a new one each time; registrations and codes whose answer is lost,
which leave no trace a client can see; a payload of the wrong length, which ends as a tool
error does; and in `_atomic_write` the modes. Writes take no time.
That a 401 reaches the caller as `httpx.HTTPStatusError` is taken from `mcp_client.py:134`.

## Runs

All passing runs exhaust their state spaces.

| run | what it shows |
|---|---|
| `token_faults` | five requests of one client (authorize, code, refresh in any number) with failing statements, restarts and expiry: an exchange happens once, what was handed out survives, a reuse kills the chain for good, every change of the file is a step of `GrantLifecycle` |
| `token_revocation` | four requests of all five kinds, with `revoke_chain` unlocked, restarts and statements that raise under the lock: chains do not fork, `ForkInv` is an invariant, and every request is answered under a fair event loop |
| `token_identity` | two clients, users and PKCE verifiers: the claims of an access token lead back to one approval |
| `verify_cache` | two calls over three citations, two of which share a key, two services, expiry, changing contents, exceptions, cancelled calls, restarts: what an answer is about and how old it is; `VerifyInv` is an invariant |
| `bulk_verify` | a batch of at most two citations, valid, invalid or the same twice, that share one permit, with a single call beside it, expired rows, changing contents, exceptions, cancelled calls and batches, and restarts: input order, no cached result in a forced batch, what a forced call stored is undone only by a call that ran beside it and stored or failed; calls and batches end |
| `resolve` | two calls, two identifiers, four services of which one mistakes the work, expiry, failures, cancelled calls, restarts: an answer holds what its records said and no more, whatever the order they came in and whatever types the call that stored it wanted; every service that could fill a gap was asked |
| `service_clients` | three requests at each service: arXiv's spacing, PubMed's rate with and without retries, every request ends |
| `matching` | nine citations (complete, partial, by identifier, misspelt, by one paper's identifier with another one's fields, with a short title by an author of a two-word name) against every answer of three services and arXiv made of eight records, failures and rate limits |
| `harness` | two invocations of any commands side by side, from an empty directory or a provisioned one, two clients, two chains, three refresh tokens, a change of key, kills, lost and late answers, failures of the server |
| `rotation_crash` | violated: `AtomicRotation` |
| `commit_race` | violated: `NoServerError` |
| `pmid_collision` | violated: `AnswersWhatWasAsked` |

Bounds, and why they are enough for what they are asked:

* `Req`: authorize, code, refresh, its retry, and one stranger that commits in between is
  the shortest history with every hazard of a chain; five requests have it with a fault
  anywhere. `token_identity` needs two histories of two. Proofs take over for the rest,
  also for unknown ids (`Garbage`), which are refused before anything changes and occur in
  no run.
* `MaxTime`, TTLs of 1 or 2: a row or credential is created, still good at one tick, and
  expired at the next; the equality of expiry and clock occurs.
  `bulk_verify` has no ticks: `TTLNoMatch` 0 makes a row without a match expired as soon as
  it is read, `TTLMatch` 1 keeps one with a match, and that is both cases of `Cache.get`.
* `Call`: a reader, a writer, and a third call that makes a difference between them.
* `MaxVersion` 1: older and newer is all the properties compare. `Service`: two, one of
  which can be rate limited and one of which can raise; the code treats the rest alike.
* `Permits` 2 with a third to wait; `Concurrency` 1 with a
  second to wait, since two calls of one batch meet no differently than a call of the batch
  and the single call beside it; `MaxRetries` 1 gives a first, a
  repeated and a last attempt; `Horizon` 2 has a time strictly inside the interval. `Delay`
  {1, 2} is shorter than the interval and as long; at PubMed, whose delays are 1, 2 and 4 s
  against a window of 1 s, only the longer one occurs (`BackOff`).
* `Query1`: one identifier whose DOI brings a second round, with all types wanted and with
  one, and a DOI that races with it; four services give a second round of two lookups.
* `_BULK_MAX_CITATIONS` is the number of slots, so that lists of that length, one more, and
  none occur. The real values (200, 10) are constants of the modules.
* `matching`: two candidates of a search are a better and a worse one; the records are the
  paper, the same with a year off by one and another name of the journal, one with a year
  off by three, one with a title that is merely alike, one without year, one with the
  identifier and nothing else in common, one that is nothing but the title. `Rows` is 5 in
  the code.
* `harness`: two processes are a writer and what disturbs it; the third token is what the
  loser of a race would get. `AccessTTL` 2, `Skew` 1, `Timeout` 1 keep the order of
  3600 s, 60 s and 30 s. Of two alike processes the first has the first command, and of
  two validations one at most is in a debugging mode (`MCInit`).
* The clock bound makes time stop; no property says that something expires.

Where a run has `CHECK_DEADLOCK FALSE`, all calls have been answered, time and
contents are at their bounds, and nothing is left to do. In the token modules a step
`Finished` says so instead.

## Fairness

`WF(Handle(r))`, `WF(Progress(r))`: the event loop runs every ready coroutine, SQLite's
thread executes what it is given, and a request to a
service ends in an answer or by the timeout that each `httpx.AsyncClient` is built with. A
lock that is free goes to some waiter; `asyncio.Lock` is first come first served, weaker
is enough here because each request takes it a bounded number of times. `WF(Tick)`: time
passes, so sleeps end. Arrivals, crashes, cancellations, failures and changes of contents
are not fair: nothing may depend on their happening.

`BulkFairSpec` asks for less: that some call or batch that is ready takes its step, whichever
it is (a call whose batch was cancelled hears of it), which is enough because each takes a
bounded number of them.

`FairSpec` of `Harness` has `WF(Step(p))` for each process: the operating system runs it,
and a request ends in an answer or in the timeout of `httpx.Client`. The browser's answer
(`Callback`) is not fair; that the wait ends nevertheless is `NoCallback`, the timeout of
`q.get`.

## Proofs

`tlapm` checks every theorem for all values of the constants that satisfy the named
assumptions of the modules. Every property that a passing run checks is the statement of a
theorem, except the five about liveness. Each proof goes the same way: an inductive
invariant, checked by TLC on the run before it was proved, one lemma for each
action or group of actions that can disturb a part of it, and a last step that puts them
together.

### OAuth tokens

* `TypeCorrectness`, `LockedSections`, `ChainsNeverFork` (`Spec => []OneLivePerChain`),
  `LockedTables` (`ForkInv`). That a chain has one acceptable token is not inductive: one
  has to know what a rotation
  under way relies on. `ForkInv` adds who holds the lock (`LockInv`), what each suspended
  handler has read (`Suspended`), that a row exists only once it was inserted (`Minted`),
  and `Rotating`: until its UPDATE the presented token is the only one that can be live in
  its chain, and between UPDATE and INSERT none is. Both tables satisfy it separately, so
  commits at any moment and restarts keep it; `revoke_chain` only ever removes live tokens.
* `RevokedChainsStayDead`, under the assumption that `revoke` is not in `Kinds`: a rotation
  under way is then in a chain without a revoked token (`RotatingUnrevoked`), so the token
  it inserts does not outlive a revocation. With `revoke_chain` called from outside the lock
  that fails: the UPDATE of `revoke_chain` between the two statements of a rotation is
  followed by the INSERT of a live token. No caller does so at this commit.
* `CredentialsSpentOnce`, `AnswersAreDurable`, `ReportedReuseKills`, `AccessNeverWidens`, from
  `ForkInv` and `GrantInv`, which has four parts. `ProvenanceInv`: every row of either table,
  and every row a handler has read and acts on an await later, goes back to one approval; and
  `db` never has less than `disk` (`Keeps`), which is what makes a commit by another handler
  harmless. `StoredInv`: what is about to be answered is in the tables, and is in the file
  once it is answered. `SpentInv`: of the requests that presented one credential at
  most one has spent it and can still be answered, and the flag that keeps the others
  out is in the file before the answer. `ReuseInv`: after a reuse was answered no rotation of
  that chain is left that could insert a token, which needs the lock.
* `ChainsLive`: `Spec => ChainsFollowLifecycle`, that is, a step of the program is a step of
  `GrantLifecycle` on the chains in the file, or none; again if `revoke` is not in `Kinds`.
  A commit publishes what several handlers did since the last one, so one has to
  know how far `disk` is behind `db`. `LagInv`: by one token per chain at most, which is not
  rotated because nobody was handed it yet, and not in a chain whose revocation is in the file.

### Verification

* `VerifyIsConsistent` and from it `VerifyTypes`, `AnswersAreKeyed`, `AnswersAreInTime`,
  `ForcedIsFresh`. An answer is read from a row that some other call wrote, so `VerifyInv`
  has to say of every row, in `entries` and in `file`, that it is for its key and expires
  when its value says; of every call, that the result it is about to store is for its own
  key; and of a forced call, that it is nowhere near the rows and that `asof` has not
  fallen behind its beginning.
* `RefreshIsConsistent`, `UndisturbedRefreshesStick`. The property is about an answer that
  comes after another; `RefreshInv` is about the rows in between. `OrderInv`: whatever began
  after a call sees contents no older than that call did. `StickInv`: from the UPSERT of
  an undisturbed forced call on, the row under its key is no older than what it found, in
  `entries`, and once it has answered in `file` too, so that a restart brings nothing
  older back. A call beside it may read, look up and delete, also the fresh row in place of
  the expired one it had read: what disturbs is a call that stores (`StoredNothing`), and one
  that has failed, since its state no longer tells. That delete takes four calls (one to
  leave the expired row, one to delete, the forced one and a later one); the run has three,
  the theorem any number.
* `BatchesImplementCalls`: `BulkSpec => Spec`. What a batch does to its calls, separate calls
  could do. `RefreshInv` therefore holds in `BulkSpec` (`BatchedRefreshesStick`, which
  is the property of the run `bulk_verify`), as does everything else about one call.
* `BatchesAnswerInOrder`, `BatchTypes`, from `BulkInv`: a call of a batch that has begun asks
  what the batch ordered at its place (`SlotInv`), it is refused exactly if that has no
  identifier (`NamedInv`), and a batch that has answered had all its answers, in a forced batch
  none from the cache (`ReturnInv`). It takes from `BulkAssumption` that
  the slots of batches are different calls.

### Resolution, service clients

* `ResolveIsConsistent`, `ResolveTypes`, `AnswersAreTold`, `NobodyIsForgotten`. `ResolveInv`
  says of every row, of every result and of the lookups under way that what was given is there
  and the rest was `told`, and is missing only where nothing was (`TellsAll`); and that with a
  DOI every service whose identifier is missing was asked (`NobodyMissed`): in the first round
  if the DOI was given, in the second otherwise. An answer from the cache is for the types its
  own call wants, of a value stored by a call that wanted others.
* `ArxivIsSpaced`. `ArxivInv`: a request that sleeps or sends holds the lock, a sleep is
  no shorter than what is left of the interval, and a GET younger than the interval is
  still under way or has an end that is younger too. It needs no bound on requests,
  retries, delays or the interval.
* `ClientTypes`, `PubMedKeepsItsRate`, from `RateInv`. First requests: there are no more
  timestamps than permits (`PacerInv`: the holder of the pacer's lock sleeps until the oldest
  leaves the window), and each first request in the window has a timestamp of its own
  (`StampedInv`). Retries, which pass the pacer by: a request sleeps for a window before each
  of its retries, so has one in the window at most (`AttemptInv`); and all that have
  sent one since a given retry, or will while that is in the window (`Beside`), held a permit
  when it was sent. There it matters that `BackOff` of PubMed sleeps for a window at least
  (`_BASE_BACKOFF` 1.0 against `window_seconds` 1.0, `pubmed.py:40,62`).

### Scoring

* `AnswersBacked`, `HighAlwaysEarned`, `VerifiedAlwaysAgrees`, `IdentifierAlwaysCertain`,
  for every table of likenesses and every citation and record. The inductive invariant
  `Backed` says that each record taken has one of the scores `score_match` gives it, that an
  answer says verified exactly when one was taken, and that it then has the quality and the
  confidence of the first of the best (`Leads`); the rest is about one record. A record that
  has 1.0 by its fields is "high" if three are cited, the title among them
  (`PerfectIsHigh`), so that an identifier loses a tie at 1.0 only where that is not so.
  "high" needs nine tenths of the `Whole`, and every weight but those
  of the journal and the other authors is more than a tenth of it, for each of the sets of
  fields that can be cited and both kinds of title; so a component of weight above a tenth
  cannot be zero (`MatchProofs` has the bounds as lemmas, by cases on the fields).
* `OwnAuthorAlwaysHelps`, `EchoAlwaysKeepsSurnames`, for names of any length over any `Words`:
  each form `parse_author_string` documents gives the family name it was made from; that a
  better first author raises no rejection and no lower confidence is about the weights, which
  do not change, since the fields cited are the same. The lemmas about the first comma and the
  trailing initials need a least number; it is had from finite sets and strict inclusion,
  since the induction rules of the library cannot be used.
* `MatchTypes`: the confidence of every score and answer is within that of a perfect
  match. `Backed` is not enough for the rest of `TypeOK`: that arXiv's rate limit and a record of it exclude each
  other needs that each service is looked at once (`KeptInv`).
* `NothingIsLostInTheMerge`. `merge_canonical_records` compares each value with the kept one
  only. Of two values that disagree one then disagrees with the kept one, wherever agreement is
  transitive (`AgreementIsTransitive`); it is not for journals and pages, where an absent
  first page agrees with all, and these are left out of `Reconciled`. Of two years more than
  one apart the later is more than one after the earliest (`OneIsLate`).

### Harness

`TypeCorrect`, `TokensNeverTorn`, `ZeroIsEarned`, `HandedOutIsValid`, `LifecycleKept`,
`GrantIsKept`, `NobodySentToAuthInVain`, `RetriesAnew`, for any number of processes, chains,
tokens and times, from `ServerAssumption`, `CommandAssumption`, `TimesAssumption` and
`NoneAssumption`.

* `TokensNeverTorn`: `NeverTorn` says that while there has been one
  authorization no two processes are between the answer to a refresh and the rename, and
  nothing in the harness sees to that. The invariant `WriterInv` says why it is so
  (`Lonely`): at most one process is a `Carrier` of a new pair (`OneCarrier`); the refresh
  token it carries is in no file and in no other request (`Private`), so whoever else asks,
  asks with a token the server has spent; what anybody knows was minted (`KnownMinted`), so
  that a fresh token is new to all; and the temporary file is its carrier's (`TmpOwned`).
* `ZeroIsEarned` follows the passes of one process (`Course`). `HandedOutIsValid` bounds
  what a client believes of a token's expiry by what the server signed plus the
  time the answer took (`Timely`), which the skew covers. `LifecycleKept` looks at each
  request the server can carry out, in time or late, by the invariant that only an active
  chain has a holder (`ChainInv`).
* `GrantIsKept` and `NobodySentToAuthInVain` from `KeepInv`, about the behaviours that were not
  `disturbed`. One process at most is between request and rename then (`Alone`); no descriptor
  points at a file under its final name (`FilesClosed`), and only that process's at the
  temporary one (`TmpOpened`). So the pair in `tokens.json` is the one the server will accept,
  or that one process brings the one it will accept (`PairKept`), and what a process has read
  is still true when it sends or writes it (`Sound`). A kill between the
  answer and the rename, a refresh in which the server fails, and one carried out late that
  changes a chain set `disturbed`; a kill or a break before the server's answer does not, so the
  invariant has to hold across those.
* `RetriesAnew` holds with disturbances too: an access token goes from the server to one
  process, from there to the temporary file, from there to `tokens.json`, and never back.
  `FreshInv` says that no two of these places have the same token (`Apart`, which needs that a
  descriptor is in one of the two files only, `DescriptorInv`), that the token in use and the
  one that was answered 401 are behind (`Behind`, `Gone`), and the one brought by the refresh
  that follows is ahead (`Ahead`). So also a second process that publishes its own
  pair in between does not bring the first attempt's token back.

### What the assumptions are

Assumptions say that a value that stands for "none" is none of the others, that limits
are natural numbers, that `Likeness` is a table of twentieths, that authors are sequences of
tokens, that the slots of batches are different calls, that the skew covers the timeout, and that
a token lives longer than the skew. Only `RevokedChainsStayDead` and `ChainsLive` assume
more, which is said above. TLC evaluates the assumptions of the modules on every run.

### Only model-checked

`Answered`, in `token_revocation` and in `bulk_verify`, `BatchEnds`, `Ends` and `EveryRunEnds`:
liveness under fairness is out of the prover's reach, as is `ENABLED`. So is induction over
data; the models have no recursive operator, and what is proved about sequences of any length
(names, timestamps, batches) goes by least numbers and cardinalities. The three properties of
the runs that expect a violation are false of the code.

## Where the code departs from what the repository says

Each of the first three is a run in which TLC finds the property violated.

1. `rotation_crash`: rotation is called atomic (`storage.py:350`), but its UPDATE and INSERT
   share the connection's transaction with handlers that commit outside the lock. A
   commit between them and a restart leave a rotated token without a successor: the
   client's next refresh is taken for a reuse.
2. `commit_race`: the lock is called sufficient for one process (`storage.py:7-10`), but
   `register_client`, `store_authorization_code` and `store_refresh_token` commit outside
   of it, and SQLite refuses a commit while the `UPDATE ... RETURNING` of a code exchange is
   open: such a request ends in a 500.
3. `pmid_collision`: `make_cache_key` uses neither pmid nor arXiv id, so all inputs that
   give only a pmid share one row. `KeyedAnswer` is what does hold.

Met while modelling, without a run of their own:

* One body that is not JSON fails a whole batch: `gather` raises it and the results of
  all other citations are lost (`server.py:504`, `BulkRaises`), where the tool "returns a
  list of per-citation results" (`server.py:123`).
* `resolve_identifier` stores for two weeks whatever it found, also when all services failed.
* A forced answer can be overwritten by a slower call that looked earlier, and its
  row deleted by a `Cache.get` that saw the expired row it replaced.
  `UndisturbedRefreshSticks` states what remains: the delete does no harm but a lookup, and
  an older answer takes a call beside the forced one that stores, or fails, which may leave a row.
* PubMed's retries do not pass the pacer; its docstring speaks of all requests
  (`pubmed.py:11-13`). `PubMedRate` is what holds: a retry keeps its permit and sleeps for a
  window at least, so that there are never more than N of them in one, and never more than
  twice N requests. A `Semaphore(1)` does not keep Semantic Scholar at one request per
  second (`semantic_scholar.py:3-5`).
* An identifier decides (`scoring.py:4`), and yet its match need not be the one shown: the
  representative is the first service of the highest confidence (`server.py:427`), and a
  record whose fields all agree also has 1.0. If too few fields were cited it is
  capped at "medium", and without a title cited it is "medium" for want of one that is alike:
  the answer is then "medium" although a later service matched the identifier and said
  "high". `IdentifierIsCertain` says that this is the only way to lose "high".
* `journals_match` normalizes the name it looks up, but not the table's full names: the
  entries that begin with "the " or contain ":" (`scoring.py:30-31,40,47`) never
  match, nor do two abbreviations of one journal.
* Layer 1 looks for `semantic_scholar_id` (`scoring.py:248`); records call it `paper_id`.
* Of rejected scores with equal confidence "ties [are] broken by presence of rejected_by"
  (`server.py:397`); the sort looks at the confidence alone.
* `report.py:115-125` decides PASS by the rows alone, so the report of a cold-only or
  warm-only run can say PASS, where "the gate is always False" (`validate.py:50`) and the
  exit code is 1. `ZeroMeansGate` has the report's rule as its mutant.
* An unverified answer gives "Smith Jones," (a family name of two words and nothing after
  its comma) back as "Smith Jones", which is then read as given name and family name.
  `EchoKeepsSurnames` holds of every other way to cite an author.
* With an `auth` beside a refresh there are two grants, and two writers of one temporary
  file: a rename can publish the other process's document, or half of it. `NeverTorn`
  holds while there has been one authorization.
* Any answer of 400 or more to a refresh raises `RefreshTokenInvalid`
  (`oauth_client.py:311`), a 500 too, and the user is told to log in again although the
  refresh token is good. `NotSentToAuthInVain` excludes a server that fails.
* The scope of a refresh is checked after the rotation was committed (`routes.py:402-409`):
  a refused request has spent its token, and a retry with it kills the chain.

## Not modelled

* Parsing and building of the services' requests and records, the normalization of strings,
  the wording of warnings: data, no state; the models see what comes out of them.
* JWT encoding, the resource parameter, the consent page and the discovery documents.
* `Cache.purge_expired`, which nothing calls.
* Two server processes on one file, which the docstrings exclude; threads below `aiosqlite`
  (statements execute one at a time, in order).
* The text of the harness's reports, `harness/replay.py`, the comparator, which is
  under `tests/`.
* `scripts/regression_30`: scripts that were run once, by hand, over thirty files;
  `cli.py` and `log_redaction.py`: start-up and the rewriting of strings.

## Plan

1. Theorem: the access tokens `HttpGate` lets through, composed with `AccessNeverWidens`, lead
   back to one approval (the harness and `TokenEndpoint` each have one half now).
2. Theorem: what a handler of `TokenEndpoint` answers, `GrantServer` can answer, so that the
   harness meets the server the other module models.
3. Theorem: how far `AnswersWhatWasAsked` does hold: for citations whose key has all that
   they ask, in batches too.
