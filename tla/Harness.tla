------------------------------- MODULE Harness -------------------------------
(***************************************************************************)
(* The validation harness (harness/cli.py, oauth_client.py, mcp_client.py, *)
(* validate.py): command-line processes, started by cron and by hand, that *)
(* share client.json and tokens.json and talk to one server.  A process is *)
(* one invocation.  It is sequential; processes interleave at every file   *)
(* access and request, and any of them may be killed, or lose an answer,   *)
(* at any of these points.                                                 *)
(***************************************************************************)
EXTENDS GrantServer, Sequences

CONSTANTS
    Proc,       \* invocations
    Command,    \* the commands they may be
    Host,       \* the host of server_url
    Skew,       \* skew_seconds of get_access_token
    Timeout,    \* HTTP_TIMEOUT: an answer takes no longer
    MaxTime     \* bound on the clock

\* The subcommands of cli.py.
ASSUME CommandAssumption ==
    Command \subseteq {"register", "auth", "refresh", "token", "status", "validate"}

\* A request is no longer than the skew, the skew shorter than a token's life.
ASSUME TimesAssumption ==
    /\ Skew \in Nat /\ Timeout \in Nat /\ MaxTime \in Nat
    /\ Timeout <= Skew /\ Skew < AccessTTL

VARIABLES
    file,      \* client.json and tokens.json
    tmp,       \* client.json.tmp and tokens.json.tmp
    port,      \* process listening on CALLBACK_PORT
    late,      \* refreshes whose sender has given up, still on their way
    job,       \* of each process: its position and locals
    disturbed  \* history: processes got in each other's way, or an answer that
               \* changed a grant was lost

diskVars == <<file, tmp>>
vars == <<clock, serverVars, diskVars, port, late, job, disturbed>>

Files == {"client", "tokens"}

\* A file: whether its name exists, its contents are complete (json.load parses
\* them), the document, and the processes whose descriptor points at it.
Node(state, text, fds) == [state |-> state, text |-> text, fds |-> fds]

Absent == Node("absent", None, {})

Missing(f) == file[f].state = "absent"
Garbled(f) == file[f].state = "torn"
Readable(f) == file[f].state = "whole"

\* state_dict: a pair of tokens, and when the client takes it to expire.
Saved(a, now) == [refresh |-> a.refresh, access |-> a.access, expires |-> now + AccessTTL]

\* Commands, where each starts and what it does with an access token: exit, go
\* on to status(), make the call, or read the file again.
Validates == {<<TRUE, FALSE>>, <<TRUE>>, <<FALSE>>}

Entry(c) == CASE c = "refresh" -> "reload"
              [] c \in {"token", "validate"} -> "get"
              [] OTHER -> c

NewJob(c, runs) ==
    [cmd |-> c, pc |-> Entry(c), then |-> IF c = "validate" THEN "status" ELSE "exit",
     passes |-> runs,      \* force_refresh of the passes still to run
     wire |-> None,        \* the request on its way, and since when
     reply |-> None,       \* the answer, then the document made of it
     meta |-> None,        \* _client_metadata, the cached client id
     bearer |-> None,      \* the access token in use
     spurned |-> None,     \* the one answered 401 in this pass
     answers |-> <<>>,     \* payloads of the passes so far
     exit |-> None]        \* exit code

\* Nothing of a process outlives it but its exit code.
Ended(c, code) == [NewJob(c, <<>>) EXCEPT !.pc = "done", !.then = "exit", !.exit = code]

\* Which file a process replaces.
Target(p) == IF job[p].cmd = "register" THEN "client" ELSE "tokens"

-----------------------------------------------------------------------------
Empty ==
    /\ file = [f \in Files |-> Absent]
    /\ grant = [c \in Chain |-> Unborn]
    /\ owner = [c \in Chain |-> None]
    /\ clients = {}

\* Registered and authorised just now, by an earlier run.
Provisioned ==
    LET c == Draw(Chain)
        t == Draw(Token)
        id == Draw(ClientId) IN
        /\ grant = [d \in Chain |-> IF d = c THEN Opened(t) ELSE Unborn]
        /\ owner = [d \in Chain |-> IF d = c THEN id ELSE None]
        /\ clients = {id}
        /\ file = [f \in Files |-> IF f = "client" THEN Node("whole", id, {})
                                ELSE Node("whole", Saved(TokenPair(t), 0), {})]

Init ==
    /\ clock = 0 /\ key = 0
    /\ Empty \/ Provisioned
    /\ tmp = [f \in Files |-> Absent]
    /\ port = None
    /\ late = {}
    /\ job \in [Proc -> {NewJob(c, <<>>) : c \in Command \ {"validate"}}
                        \cup {NewJob("validate", v) : v \in IF "validate" \in Command
                                                          THEN Validates ELSE {}}]
    /\ disturbed = FALSE

-----------------------------------------------------------------------------
(* Steps of a process, and how it ends (cli.py).                            *)

At(p, l) == job[p].pc = l

Becomes(p, j) == job' = [job EXCEPT ![p] = j]

GoTo(p, l) == Becomes(p, [job[p] EXCEPT !.pc = l])

Exits(p, code) == Becomes(p, Ended(job[p].cmd, code))

\* tokens.json is missing or the refresh was refused; inside a pass of
\* validate that is a HarnessOAuthError like others.
NoTokens(p) == IF job[p].cmd = "validate" /\ job[p].then # "status" THEN 3 ELSE 2

\* HarnessOAuthError: client.json is missing.
NoClient(p) == CASE job[p].cmd \in {"validate", "status"} -> 3
                 [] job[p].cmd = "auth"                   -> 1
                 [] OTHER                                 -> 2

\* Any other exception: validate catches it, the rest end in a traceback.
Unforeseen(p) == IF job[p].cmd = "validate" THEN 3 ELSE 1

\* From the decision to change a grant to the replacement of the file.
Busy(p) == job[p].pc \in {"post", "sent", "answered", "write", "rename"}

Enters(p) == disturbed' = (disturbed \/ \E q \in Proc \ {p} : Busy(q))

Sends(p, q, id) ==
    /\ Becomes(p, [job[p] EXCEPT !.pc = "sent", !.wire = q, !.meta = id])

\* A caller of get_access_token or refresh has its token.
Obtained(p, a) ==
    LET j == [job[p] EXCEPT !.reply = None] IN
    Becomes(p, CASE j.then = "exit" -> [Ended(j.cmd, 0) EXCEPT !.bearer = a]
                 [] j.then = "status" -> [j EXCEPT !.pc = "status"]
                 [] j.then = "call" -> [j EXCEPT !.pc = "call", !.bearer = a]
                 [] j.then = "again" -> [j EXCEPT !.pc = "get", !.then = "call"])

\* _load_client_metadata: cached, or read from client.json.
NoMeta(p) == job[p].meta = None /\ Missing("client")
BadMeta(p) == job[p].meta = None /\ Garbled("client")
HasMeta(p) == job[p].meta # None \/ Readable("client")
Meta(p) == IF job[p].meta # None THEN job[p].meta ELSE file["client"].text

Quiet == UNCHANGED <<clock, serverVars, diskVars, port, late, disturbed>>

-----------------------------------------------------------------------------
(* register and auth                                                        *)

Register(p) ==
    /\ At(p, "register")
    /\ \/ Missing("client") /\ GoTo(p, "post") /\ Enters(p)
       \/ Readable("client") /\ Exits(p, 0) /\ UNCHANGED disturbed
       \/ Garbled("client") /\ Exits(p, Unforeseen(p)) /\ UNCHANGED disturbed
    /\ UNCHANGED <<clock, serverVars, diskVars, port, late>>

\* The metadata of the server has been fetched in between.
Post(p) ==
    /\ At(p, "post")
    /\ Sends(p, [kind |-> "register", since |-> clock], None)
    /\ Quiet

\* authorize_interactive up to the wait for the browser.
Listen(p) ==
    /\ At(p, "auth")
    /\ \/ NoMeta(p) /\ Exits(p, NoClient(p)) /\ UNCHANGED port
       \/ BadMeta(p) /\ Exits(p, Unforeseen(p)) /\ UNCHANGED port
       \/ HasMeta(p) /\ port # None /\ Exits(p, Unforeseen(p)) /\ UNCHANGED port
       \/ /\ HasMeta(p) /\ port = None
          /\ Becomes(p, [job[p] EXCEPT !.pc = "listen", !.meta = Meta(p)])
          /\ port' = p
    /\ UNCHANGED <<clock, serverVars, diskVars, late, disturbed>>

\* Mutant of Closes: no `finally' around the wait.
ClosesNot(p) == UNCHANGED port

\* server_close()
Closes(p) == port' = None

\* The browser delivers the code of this attempt.
Callback(p) ==
    /\ At(p, "listen")
    /\ Sends(p, [kind |-> "code", client |-> job[p].meta, since |-> clock], job[p].meta)
    /\ Enters(p)
    /\ Closes(p)
    /\ UNCHANGED <<clock, serverVars, diskVars, late>>

\* Mutant of NoCallback: q.get() without its timeout.
NoCallbackEver(p) == At(p, "listen") /\ UNCHANGED vars

\* Timeout, state mismatch or refusal; the listener is closed in any case.
NoCallback(p) ==
    /\ At(p, "listen")
    /\ Exits(p, 1)
    /\ Closes(p)
    /\ UNCHANGED <<clock, serverVars, diskVars, late, disturbed>>

-----------------------------------------------------------------------------
(* get_access_token and refresh                                             *)

\* Mutant of Lasts: no skew.
LastsNow(t) == t.expires > clock

\* access_expires_at > now + skew_seconds
Lasts(t) == t.expires > clock + Skew

GetAccessToken(p) ==
    /\ At(p, "get")
    /\ \/ Missing("tokens") /\ Exits(p, NoTokens(p))
       \/ Garbled("tokens") /\ Exits(p, Unforeseen(p))
       \/ /\ Readable("tokens")
          /\ IF Lasts(file["tokens"].text)
             THEN Obtained(p, file["tokens"].text.access)
             ELSE GoTo(p, "reload")
    /\ Quiet

\* refresh() reads the file again, whoever calls it.
Refresh(p) ==
    /\ At(p, "reload")
    /\ \/ Missing("tokens") /\ Exits(p, NoTokens(p)) /\ UNCHANGED disturbed
       \/ Garbled("tokens") /\ Exits(p, Unforeseen(p)) /\ UNCHANGED disturbed
       \/ Readable("tokens") /\ NoMeta(p) /\ Exits(p, NoClient(p)) /\ UNCHANGED disturbed
       \/ Readable("tokens") /\ BadMeta(p) /\ Exits(p, Unforeseen(p)) /\ UNCHANGED disturbed
       \/ /\ Readable("tokens") /\ HasMeta(p)
          /\ Sends(p, [kind |-> "refresh", token |-> file["tokens"].text.refresh,
                       client |-> Meta(p), since |-> clock], Meta(p))
          /\ Enters(p)
    /\ UNCHANGED <<clock, serverVars, diskVars, port, late>>

\* A descriptor is closed when its process ends.
Closed(node, p) == Node(node.state, node.text, node.fds \ {p})

\* The server carries out the request, or fails while it does.
Serve(p) ==
    /\ At(p, "sent")
    /\ \E answer \in Answers :
          /\ \/ Handles(job[p].wire, answer) /\ UNCHANGED disturbed
             \/ Breaks(job[p].wire, answer) /\ disturbed' = TRUE
          /\ Becomes(p, [job[p] EXCEPT !.pc = "answered", !.reply = answer])
    /\ UNCHANGED <<clock, diskVars, port, late>>

\* RegistrationFailed, HarnessOAuthError or RefreshTokenInvalid.
Refused(p) ==
    /\ At(p, "answered") /\ ~job[p].reply.ok
    /\ Exits(p, IF job[p].wire.kind = "refresh" THEN NoTokens(p) ELSE 1)
    /\ Quiet

\* Mutant of Document: the refresh token that was sent is kept.
DocumentOfRequest(p) ==
    IF Target(p) = "client" THEN job[p].reply.id
    ELSE [Saved(job[p].reply, clock) EXCEPT
            !.refresh = IF job[p].wire.kind = "refresh" THEN job[p].wire.token ELSE @]

\* What the process saves: the client's metadata, or state_dict.
Document(p) == IF Target(p) = "client" THEN job[p].reply.id ELSE Saved(job[p].reply, clock)

\* _atomic_write opens the temporary file, whose name is the same for all:
\* O_CREAT makes it, O_TRUNC empties it under those who have it open.
Accepted(p) ==
    /\ At(p, "answered") /\ job[p].reply.ok
    /\ LET f == Target(p) IN
       tmp' = [tmp EXCEPT ![f] = Node("torn", None, @.fds \cup {p})]
    /\ Becomes(p, [job[p] EXCEPT !.pc = "write", !.reply = Document(p), !.wire = None])
    /\ UNCHANGED <<clock, serverVars, file, port, late, disturbed>>

\* A write goes to the file that was opened, whatever it is called by now.
Written(node, p) ==
    IF p \in node.fds THEN Node("whole", job[p].reply, node.fds \ {p}) ELSE node

Write(p) ==
    /\ At(p, "write")
    /\ LET f == Target(p) IN
       /\ tmp' = [tmp EXCEPT ![f] = Written(@, p)]
       /\ file' = [file EXCEPT ![f] = Written(@, p)]
    /\ GoTo(p, "rename")
    /\ UNCHANGED <<clock, serverVars, port, late, disturbed>>

\* Mutant of Saves: the answer is returned and not saved.
SavesNothing(p) == UNCHANGED diskVars

\* os.rename
Saves(p) ==
    LET f == Target(p) IN
    /\ file' = [file EXCEPT ![f] = tmp[f]]
    /\ tmp' = [tmp EXCEPT ![f] = Absent]

\* The file is in place; or another process has taken the temporary one away.
Rename(p) ==
    /\ At(p, "rename")
    /\ \/ tmp[Target(p)] = Absent /\ Exits(p, Unforeseen(p)) /\ UNCHANGED diskVars
       \/ /\ tmp[Target(p)] # Absent
          /\ Saves(p)
          /\ IF job[p].cmd \in {"register", "auth"}
             THEN Exits(p, 0)
             ELSE Obtained(p, job[p].reply.access)
    /\ UNCHANGED <<clock, serverVars, port, late, disturbed>>

-----------------------------------------------------------------------------
(* status, and the passes of validate                                       *)

\* The status command, and validate when it asks for the client id to report.
Status(p) ==
    /\ At(p, "status")
    /\ \/ NoMeta(p) /\ Exits(p, NoClient(p))
       \/ BadMeta(p) /\ Exits(p, Unforeseen(p))
       \/ HasMeta(p) /\ Garbled("tokens") /\ Exits(p, Unforeseen(p))
       \/ /\ HasMeta(p) /\ ~Garbled("tokens")
          /\ IF job[p].cmd = "validate"
             THEN Becomes(p, [job[p] EXCEPT !.pc = "get", !.then = "call", !.meta = Meta(p)])
             ELSE Exits(p, IF Missing("tokens") THEN 3
                           ELSE IF file["tokens"].text.expires <= clock THEN 3 ELSE 0)
    /\ Quiet

\* What the harness sends to the tools; it sets no Origin.
Ask(p) == [host |-> Host, path |-> "/mcp", method |-> "POST", origin |-> None,
           type |-> "application/json", bearer |-> job[p].bearer]

\* bulkVerifyCitations answers every citation, in order: the rows pass the
\* comparison with the fixture or fail it.  "error" is a ToolError.
Payload == {"pass", "fail", "error"}

\* call_bulk_with_refresh_retry: one refresh, after a 401.
Retries(p, status) == status = 401 /\ job[p].spurned = None

\* The pass is over; the next one, or the comparison.
Passed(p, payload) ==
    Becomes(p, [job[p] EXCEPT
        !.pc = IF Len(job[p].passes) = 1 THEN "compare" ELSE "get",
        !.passes = Tail(@),
        !.bearer = None,
        !.spurned = None,
        !.answers = Append(@, [force |-> Head(job[p].passes), payload |-> payload])])

\* Mutant of Recovers: the token is read again and not refreshed.
RecoversByReading(p) ==
    Becomes(p, [job[p] EXCEPT !.pc = "get", !.spurned = job[p].bearer, !.bearer = None])

\* refresh(), then get_access_token().
Recovers(p) ==
    Becomes(p, [job[p] EXCEPT !.pc = "reload", !.then = "again",
                              !.spurned = job[p].bearer, !.bearer = None])

Call(p) ==
    /\ At(p, "call")
    /\ LET status == Answer(Ask(p), key, clock) IN
       \/ /\ status = Ok
          /\ \E payload \in Payload :
                IF payload = "error" THEN Exits(p, 3) ELSE Passed(p, payload)
       \/ status # Ok /\ Retries(p, status) /\ Recovers(p)
       \/ status # Ok /\ ~Retries(p, status) /\ Exits(p, 3)
    /\ Quiet

\* Mutant of Gate: the passes that ran are not counted, as in report.py.
GateOfReport(answers) == answers[Len(answers)].payload = "pass"

\* gate_passed: both passes ran, and the last one's rows passed.
Gate(answers) == Len(answers) = 2 /\ answers[Len(answers)].payload = "pass"

\* The report, and the exit code.
Compare(p) ==
    /\ At(p, "compare")
    /\ Exits(p, IF Gate(job[p].answers) THEN 0 ELSE 1)
    /\ Quiet

-----------------------------------------------------------------------------
(* Faults and time                                                          *)

\* The process is killed, a request of it times out or breaks off (a refresh
\* that was sent may still arrive), or the disk is full (the temporary file is
\* removed).  Dying where nothing is held or pending is never going on.
Die(p) ==
    /\ Busy(p) \/ At(p, "listen")
    /\ Exits(p, Unforeseen(p))
    /\ port' = IF port = p THEN None ELSE port
    /\ \/ UNCHANGED late
       \/ At(p, "sent") /\ job[p].wire.kind = "refresh" /\ late' = late \cup {[job[p].wire EXCEPT !.since = 0]}
    /\ disturbed' = \/ disturbed
                     \/ job[p].pc \in {"write", "rename"}
                     \/ (At(p, "answered") /\ job[p].reply.ok)
    /\ file' = [f \in Files |-> Closed(file[f], p)]
    /\ \/ tmp' = [f \in Files |-> Closed(tmp[f], p)]
       \/ At(p, "write") /\ tmp' = [tmp EXCEPT ![Target(p)] = Absent]
    /\ UNCHANGED <<clock, serverVars>>

\* The server carries out a refresh nobody waits for any more.
ServeLate ==
    /\ \E q \in late :
          /\ late' = late \ {q}
          /\ \E answer \in Answers : Handles(q, answer)
    /\ disturbed' = (disturbed \/ grant' # grant)
    /\ UNCHANGED <<clock, diskVars, port, job>>

\* The server is restarted with another key.
Restart == Rekey /\ UNCHANGED <<clock, diskVars, port, late, job, disturbed>>

\* A second passes.  No request takes longer than Timeout, and a file is
\* written within the second.
Tick ==
    /\ clock < MaxTime
    /\ \A p \in Proc :
          /\ job[p].pc \in {"sent", "answered"} => clock < job[p].wire.since + Timeout
          /\ job[p].pc \notin {"write", "rename"}
    /\ clock' = clock + 1
    /\ UNCHANGED <<serverVars, diskVars, port, late, job, disturbed>>

-----------------------------------------------------------------------------
Step(p) ==
    \/ Register(p) \/ Post(p) \/ Listen(p) \/ GetAccessToken(p) \/ Refresh(p)
    \/ Serve(p) \/ Refused(p) \/ Accepted(p) \/ Write(p) \/ Rename(p)
    \/ Status(p) \/ Call(p) \/ Compare(p) \/ NoCallback(p)

Next ==
    \/ \E p \in Proc : Step(p) \/ Callback(p) \/ Die(p)
    \/ ServeLate \/ Restart \/ Tick

Spec == Init /\ [][Next]_vars

\* The operating system runs every process; the user may never answer the
\* browser, whose wait has a timeout.
Fairness == \A p \in Proc : WF_vars(Step(p))

FairSpec == Spec /\ Fairness
=============================================================================
