-------------------------- MODULE HarnessProperties --------------------------
(***************************************************************************)
(* What the processes of the harness and their two files promise.          *)
(***************************************************************************)
EXTENDS Harness

Access == [id : Token, key : 0 .. MaxRekeys, issuer : {Issuer}, audience : {Issuer},
           exp : Nat]

\* None stands for what is not there, and is not one of these.
ASSUME NoneAssumption ==
    None \notin Proc /\ None \notin Token /\ None \notin ClientId /\ None \notin Access

Pair == [refresh : Token, access : Access, expires : Nat]

FileOf(texts) == [state : {"absent", "torn", "whole"}, text : texts \cup {None},
                  fds : SUBSET Proc]

Wire == [kind : {"register"}, since : Nat]
        \cup [kind : {"code"}, client : ClientId, since : Nat]
        \cup [kind : {"refresh"}, token : Token, client : ClientId, since : Nat]

Reply == {Error} \cup [ok : {TRUE}, id : ClientId] \cup [ok : {TRUE}, refresh : Token, access : Access]

Job == [cmd : Command,
        pc : {"register", "post", "auth", "listen", "get", "reload", "sent", "answered",
              "write", "rename", "status", "call", "compare", "done"},
        then : {"exit", "status", "call", "again"},
        passes : Seq(BOOLEAN),
        wire : Wire \cup {None},
        reply : Reply \cup Pair \cup ClientId \cup {None},
        meta : ClientId \cup {None},
        bearer : Access \cup {None}, spurned : Access \cup {None},
        answers : Seq([force : BOOLEAN, payload : Payload]),
        exit : 0 .. 3 \cup {None}]

\* What a process at some position has with it.
Equipped(p) ==
    /\ job[p].pc \in {"sent", "answered"} =>
          /\ job[p].wire \in Wire
          /\ job[p].wire.kind = "register" <=> job[p].cmd = "register"
    /\ At(p, "answered") => job[p].reply \in Reply
    /\ At(p, "answered") /\ job[p].reply.ok =>
          (job[p].cmd = "register" <=> "id" \in DOMAIN job[p].reply)
    /\ job[p].pc \in {"write", "rename"} =>
          job[p].reply \in IF Target(p) = "client" THEN ClientId ELSE Pair
    /\ At(p, "listen") => port = p /\ job[p].meta # None
    /\ At(p, "call") => job[p].bearer # None

\* The shape of the state, what a process at each position has with it, and the
\* port, which is taken exactly while someone waits for the browser.
TypeOK ==
    /\ clock \in Nat /\ key \in 0 .. MaxRekeys
    /\ grant \in [Chain -> Grant]
    /\ owner \in [Chain -> ClientId \cup {None}]
    /\ clients \subseteq ClientId
    /\ file["client"] \in FileOf(ClientId) /\ file["tokens"] \in FileOf(Pair)
    /\ tmp["client"] \in FileOf(ClientId) /\ tmp["tokens"] \in FileOf(Pair)
    /\ DOMAIN file = Files /\ DOMAIN tmp = Files
    /\ late \subseteq Wire
    /\ job \in [Proc -> Job]
    /\ disturbed \in BOOLEAN
    /\ port \in {p \in Proc : At(p, "listen")} \cup {None}
    /\ \A p \in Proc : Equipped(p)

-----------------------------------------------------------------------------
(* The grant and the files                                                  *)

Writing(p) == job[p].pc \in {"write", "rename"} /\ Target(p) = "tokens"

\* The server has opened no more than one grant.
OneGrant == \A c, d \in Chain : grant[c].phase # "unborn" /\ grant[d].phase # "unborn" => c = d

SoleWriter == \A p, q \in Proc : Writing(p) /\ Writing(q) => p = q

\* While there has been no more than one authorization, one process at a time
\* replaces tokens.json and the file can be parsed, whatever is killed, lost or
\* run side by side.  The temporary file's name is the same for all
\* (oauth_client.py:58) and nothing locks it; what keeps writers apart is that a
\* refresh token is accepted once, and that its successor is known to nobody
\* else until it is in the file.
NeverTorn == OneGrant => SoleWriter /\ ~Garbled("tokens")

\* The refresh token in the file is the one the server will accept, from the
\* client in the other file, unless processes overlapped or an answer was lost
\* (oauth_client.py:293-330).
KeepsItsGrant ==
    ~disturbed /\ (\A p \in Proc : ~Busy(p)) /\ ~Missing("tokens") =>
        /\ Readable("tokens") /\ Readable("client")
        /\ \E c \in Chain : /\ grant[c].phase = "active"
                            /\ grant[c].holder = file["tokens"].text.refresh
                            /\ owner[c] = file["client"].text

\* `run auth to re-authenticate' (cli.py:66-71,132-137) and `run auth first'
\* (validate.py:65-70) are not said to someone whose refresh token is good,
\* provided the server did not fail and nothing overlapped.
NotSentToAuthInVain ==
    [][\A p \in Proc : job'[p].exit = 2 /\ job[p].exit # 2 =>
            disturbed \/ Missing("tokens")]_vars

-----------------------------------------------------------------------------
(* Access tokens                                                            *)

\* An access token that is handed out has not expired at the server
\* (oauth_client.py:333-338, cli.py:152, `token': "a currently valid access token").
HandsOutValid ==
    [][\A p \in Proc : job'[p].bearer # job[p].bearer /\ job'[p].bearer # None =>
            job'[p].bearer.exp > clock']_vars

\* The call that follows a 401 is made with another token (mcp_client.py:139-141).
RetryIsNoRepeat ==
    \A p \in Proc : At(p, "call") /\ job[p].spurned # None => job[p].bearer # job[p].spurned

\* Exit code 0 of validate: a forced pass and then a cached one were answered,
\* and it is the cached one's rows that passed (validate.py:9-10, 132-141).
ZeroMeansGate ==
    [][\A p \in Proc : job[p].cmd = "validate" /\ job'[p].exit = 0 /\ job[p].exit # 0 =>
          /\ [i \in DOMAIN job[p].answers |-> job[p].answers[i].force] = <<TRUE, FALSE>>
          /\ job[p].answers[2].payload = "pass"]_vars

\* Every invocation ends.
EveryRunEnds == <>(\A p \in Proc : At(p, "done"))

-----------------------------------------------------------------------------
(* The server assumed here does to a chain only what GrantLifecycle allows, *)
(* which TokenEndpoint implements.                                          *)

Lifecycle == INSTANCE GrantLifecycle

\* Every request is a step of GrantLifecycle (auth/storage.py:350-416), from
\* the grants that were there at the start.
ServerKeepsLifecycle == [][Lifecycle!Next]_grant
=============================================================================
