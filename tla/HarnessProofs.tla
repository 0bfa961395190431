---------------------------- MODULE HarnessProofs ----------------------------
(***************************************************************************)
(* The harness, for any number of invocations, tokens, clients and changes *)
(* of the key, and any times.                                              *)
(***************************************************************************)
EXTENDS HarnessProperties, SequenceTheorems, TLAPS

RefreshWire == [kind : {"refresh"}, token : Token, client : ClientId, since : Nat]

Doc(f) == IF f = "client" THEN ClientId ELSE Pair

\* What may be on the disk under the name of f: a complete file has its document.
Stored(n, f) == n \in FileOf(Doc(f)) /\ (n.state = "whole" => n.text \in Doc(f))

\* The commands of a position, and what a process there has with it.
Placed(j) ==
    /\ j.pc \in {"register", "post"} => j.cmd = "register"
    /\ j.pc \in {"auth", "listen"} => j.cmd = "auth"
    /\ j.pc \in {"get", "reload", "status", "call", "compare"} =>
            j.cmd \notin {"register", "auth"}
    /\ j.pc = "call" => j.then = "call" /\ j.bearer \in Access
    /\ j.pc = "listen" => j.meta \in ClientId
    /\ j.then # "exit" <=> j.cmd = "validate" /\ j.pc # "done"
    /\ j.cmd = "validate" /\ j.pc \notin {"compare", "done"} => j.passes # <<>>

\* What goes over the wire is of the command's kind.
Carried(j) ==
    /\ j.pc \in {"sent", "answered"} =>
          /\ j.wire \in Wire
          /\ j.wire.kind = "register" <=> j.cmd = "register"
    /\ j.pc = "answered" => j.reply \in Reply
    /\ j.pc = "answered" /\ j.reply.ok =>
          (j.cmd = "register" <=> "id" \in DOMAIN j.reply)
    /\ j.pc \in {"write", "rename"} =>
          j.reply \in IF j.cmd = "register" THEN ClientId ELSE Pair

Fit(j) == j \in Job /\ Placed(j) /\ Carried(j)

ServerTypes ==
    /\ clock \in Nat /\ key \in 0 .. MaxRekeys
    /\ grant \in [Chain -> Grant]
    /\ owner \in [Chain -> ClientId \cup {None}]
    /\ clients \subseteq ClientId

DiskTypes ==
    /\ DOMAIN file = Files /\ file = [f \in Files |-> file[f]]
    /\ DOMAIN tmp = Files /\ tmp = [f \in Files |-> tmp[f]]
    /\ \A f \in Files : Stored(file[f], f) /\ Stored(tmp[f], f)

JobTypes == job \in [Proc -> Job] /\ \A p \in Proc : Fit(job[p])

PortHeld ==
    /\ port \in {p \in Proc : At(p, "listen")} \cup {None}
    /\ \A p \in Proc : At(p, "listen") => port = p

\* TypeOK is not inductive: what a file holds goes into a process, and what a
\* process does next depends on its command.
TypeInv ==
    /\ ServerTypes
    /\ DiskTypes
    /\ late \subseteq RefreshWire
    /\ JobTypes
    /\ PortHeld
    /\ disturbed \in BOOLEAN

-----------------------------------------------------------------------------
LEMMA TypeInvImplies == TypeInv => TypeOK
<1> SUFFICES ASSUME TypeInv PROVE TypeOK
  OBVIOUS
<1>1. file["client"] \in FileOf(ClientId) /\ file["tokens"] \in FileOf(Pair)
      /\ tmp["client"] \in FileOf(ClientId) /\ tmp["tokens"] \in FileOf(Pair)
  BY DEF TypeInv, DiskTypes, Stored, Doc, Files
<1>2. ASSUME NEW p \in Proc PROVE Equipped(p)
  <2>1. Fit(job[p])
    BY DEF TypeInv, JobTypes
  <2>2. At(p, "listen") => port = p /\ job[p].meta # None
    BY <2>1, NoneAssumption DEF TypeInv, PortHeld, At, Fit, Placed
  <2>3. At(p, "call") => job[p].bearer # None
    BY <2>1, NoneAssumption DEF At, Fit, Placed
  <2>4. Target(p) = "client" <=> job[p].cmd = "register"
    BY DEF Target
  <2> QED
    BY <2>1, <2>2, <2>3, <2>4 DEF Equipped, Fit, Carried, At
<1>3. late \subseteq Wire
  BY DEF TypeInv, RefreshWire, Wire
<1> QED
  BY <1>1, <1>2, <1>3 DEF TypeInv, ServerTypes, DiskTypes, JobTypes, PortHeld, TypeOK

\* A process goes on; the others are as they were.
LEMMA GoesOn ==
    ASSUME JobTypes, NEW p \in Proc, NEW j, Becomes(p, j), Fit(j)
    PROVE  /\ JobTypes'
           /\ job'[p] = j
           /\ \A q \in Proc \ {p} : job'[q] = job[q]
<1>1. job' \in [Proc -> Job]
  BY DEF JobTypes, Becomes, Fit
<1>2. job'[p] = j /\ \A q \in Proc \ {p} : job'[q] = job[q]
  BY DEF JobTypes, Becomes
<1>3. \A q \in Proc : Fit(job'[q])
  BY <1>2 DEF JobTypes
<1> QED
  BY <1>1, <1>2, <1>3 DEF JobTypes

LEMMA FreshFits ==
    ASSUME NEW c \in Command, NEW v \in Seq(BOOLEAN), c = "validate" <=> v # <<>>
    PROVE  Fit(NewJob(c, v)) /\ NewJob(c, v).pc # "listen"
<1> DEFINE j == NewJob(c, v)
<1>1. c \in {"register", "auth", "refresh", "token", "status", "validate"}
  BY CommandAssumption
<1>2. j.pc \in {"register", "auth", "reload", "get", "status"}
  BY <1>1 DEF NewJob, Entry
<1>3. j \in Job
  <2>1. <<>> \in Seq([force : BOOLEAN, payload : Payload])
    OBVIOUS
  <2> QED
    BY <1>2, <2>1 DEF NewJob, Job
<1>4. Placed(j)
  BY <1>1 DEF NewJob, Entry, Placed
<1>5. Carried(j)
  BY <1>2 DEF Carried
<1> QED
  BY <1>2, <1>3, <1>4, <1>5 DEF Fit

LEMMA EndedFits ==
    ASSUME NEW c \in Command, NEW code \in 0 .. 3
    PROVE  /\ Fit(Ended(c, code))
           /\ \A a \in Access : Fit([Ended(c, code) EXCEPT !.bearer = a])
           /\ Ended(c, code).pc = "done" /\ Ended(c, code).exit = code
<1> DEFINE j == Ended(c, code)
<1>1. <<>> \in Seq([force : BOOLEAN, payload : Payload]) /\ <<>> \in Seq(BOOLEAN)
  OBVIOUS
<1>2. j \in Job /\ j.pc = "done" /\ j.then = "exit" /\ j.exit = code
  BY <1>1 DEF Ended, NewJob, Job
<1>3. ASSUME NEW a \in Access PROVE [j EXCEPT !.bearer = a] \in Job
  BY <1>2 DEF Job
<1>4. ASSUME NEW a \in Access
      PROVE  [j EXCEPT !.bearer = a].pc = "done" /\ [j EXCEPT !.bearer = a].then = "exit"
  BY <1>2 DEF Job
<1> HIDE DEF j
<1> QED
  BY <1>2, <1>3, <1>4 DEF Fit, Placed, Carried, j

LEMMA PairsFit ==
    ASSUME NEW t \in Token, clock \in Nat, key \in 0 .. MaxRekeys
    PROVE  /\ TokenPair(t) \in Reply /\ TokenPair(t).ok
           /\ "id" \notin DOMAIN TokenPair(t)
           /\ TokenPair(t).access \in Access
           /\ Saved(TokenPair(t), clock) \in Pair
           /\ Saved(TokenPair(t), clock).refresh = t
<1>1. clock + AccessTTL \in Nat
  BY ServerAssumption
<1>2. AccessToken(t, key, clock + AccessTTL) \in Access
  BY <1>1 DEF AccessToken, Access
<1> QED
  BY <1>1, <1>2 DEF TokenPair, Saved, Reply, Pair

LEMMA DrawnFrom ==
    ASSUME NEW S, S # {}
    PROVE  Draw(S) \in S
BY DEF Draw

LEMMA TypeInit == Init => TypeInv
<1> SUFFICES ASSUME Init PROVE TypeInv
  OBVIOUS
<1>1. clock = 0 /\ key = 0 /\ clock \in Nat /\ key \in 0 .. MaxRekeys
  BY ServerAssumption DEF Init
<1>2. /\ grant \in [Chain -> Grant] /\ owner \in [Chain -> ClientId \cup {None}]
      /\ clients \subseteq ClientId
      /\ DOMAIN file = Files /\ file = [f \in Files |-> file[f]]
      /\ \A f \in Files : Stored(file[f], f)
  <2>1. Unborn \in Grant /\ \A t \in Token : Opened(t) \in Grant
    BY DEF Unborn, Opened, Grant
  <2>2. CASE Empty
    <3>1. \A f \in Files : file[f] = Absent /\ DOMAIN file = Files
      BY <2>2 DEF Empty
    <3>2. \A f \in Files : Stored(Absent, f)
      BY DEF Stored, Absent, Node, FileOf
    <3>3. file = [f \in Files |-> file[f]]
      BY <2>2 DEF Empty
    <3> QED
      BY <2>1, <2>2, <3>1, <3>2, <3>3 DEF Empty, Files
  <2>3. CASE Provisioned
    <3>1. PICK t \in Token, id \in ClientId, c \in Chain :
             /\ grant = [d \in Chain |-> IF d = c THEN Opened(t) ELSE Unborn]
             /\ owner = [d \in Chain |-> IF d = c THEN id ELSE None]
             /\ clients = {id}
             /\ file = [f \in Files |-> IF f = "client" THEN Node("whole", id, {})
                                ELSE Node("whole", Saved(TokenPair(t), 0), {})]
      BY <2>3, DrawnFrom, ServerAssumption DEF Provisioned
    <3>2. Saved(TokenPair(t), 0) \in Pair
      BY <1>1, PairsFit
    <3>3. Stored(Node("whole", id, {}), "client")
      BY DEF Stored, Node, FileOf, Doc
    <3>4. Stored(Node("whole", Saved(TokenPair(t), 0), {}), "tokens")
      BY <3>2 DEF Stored, Node, FileOf, Doc
    <3>5. DOMAIN file = Files /\ file = [f \in Files |-> file[f]]
      BY <3>1
    <3>6. \A f \in Files : Stored(file[f], f)
      BY <3>1, <3>3, <3>4 DEF Files
    <3> QED
      BY <2>1, <3>1, <3>5, <3>6
  <2> QED
    BY <2>2, <2>3 DEF Init
<1>3. DOMAIN tmp = Files /\ tmp = [f \in Files |-> tmp[f]] /\ \A f \in Files : Stored(tmp[f], f)
  <2>1. tmp = [f \in Files |-> Absent]
    BY DEF Init
  <2> QED
    BY <2>1 DEF Stored, Absent, Node, FileOf
<1>4. ASSUME NEW p \in Proc
      PROVE  /\ Fit(job[p])
             /\ job[p].pc # "listen"
  <2>1. \/ \E c \in Command \ {"validate"} : job[p] = NewJob(c, <<>>)
        \/ "validate" \in Command /\ \E v \in Validates : job[p] = NewJob("validate", v)
    BY DEF Init
  <2>2. CASE \E c \in Command \ {"validate"} : job[p] = NewJob(c, <<>>)
    <3>1. <<>> \in Seq(BOOLEAN)
      OBVIOUS
    <3> QED
      BY <2>2, <3>1, FreshFits
  <2>3. CASE "validate" \in Command /\ \E v \in Validates : job[p] = NewJob("validate", v)
    <3>1. PICK v \in Validates : job[p] = NewJob("validate", v)
      BY <2>3
    <3>2. v \in Seq(BOOLEAN) /\ v # <<>>
      <4>1. <<TRUE, FALSE>> \in Seq(BOOLEAN) /\ <<TRUE, FALSE>> # <<>>
        OBVIOUS
      <4>2. <<TRUE>> \in Seq(BOOLEAN) /\ <<TRUE>> # <<>>
        OBVIOUS
      <4>3. <<FALSE>> \in Seq(BOOLEAN) /\ <<FALSE>> # <<>>
        OBVIOUS
      <4> QED
        BY <4>1, <4>2, <4>3 DEF Validates
    <3> QED
      BY <2>3, <3>1, <3>2, FreshFits
  <2> QED
    BY <2>1, <2>2, <2>3
<1>5. JobTypes
  <2>1. job = [p \in Proc |-> job[p]]
    BY DEF Init
  <2> QED
    BY <2>1, <1>4 DEF JobTypes, Fit
<1> QED
  BY <1>1, <1>2, <1>3, <1>4, <1>5 DEF Init, TypeInv, ServerTypes, DiskTypes, PortHeld, At

-----------------------------------------------------------------------------
(* The steps of a process keep the types.                                   *)

LEMMA CodesFit ==
    ASSUME NEW p \in Proc
    PROVE  NoTokens(p) \in 0 .. 3 /\ NoClient(p) \in 0 .. 3 /\ Unforeseen(p) \in 0 .. 3
<1>1. NoTokens(p) \in 0 .. 3 /\ Unforeseen(p) \in 0 .. 3
  BY DEF NoTokens, Unforeseen
<1>2. NoClient(p) \in {1, 2, 3}
  BY DEF NoClient
<1> QED
  BY <1>1, <1>2

LEMMA ExitsFit ==
    ASSUME JobTypes, NEW p \in Proc, NEW code \in 0 .. 3, Exits(p, code)
    PROVE  /\ JobTypes'
           /\ job'[p].pc = "done"
           /\ \A q \in Proc \ {p} : job'[q] = job[q]
<1>1. job[p].cmd \in Command
  BY DEF JobTypes, Job
<1> QED
  BY <1>1, EndedFits, GoesOn DEF Exits

LEMMA PortStays ==
    ASSUME PortHeld, NEW p \in Proc, port' = port,
           ~At(p, "listen"), job'[p].pc # "listen",
           \A q \in Proc \ {p} : job'[q] = job[q]
    PROVE  PortHeld'
BY DEF PortHeld, At

LEMMA PortFreed ==
    ASSUME PortHeld, NEW p \in Proc, Closes(p),
           At(p, "listen"), job'[p].pc # "listen",
           \A q \in Proc \ {p} : job'[q] = job[q]
    PROVE  PortHeld'
BY DEF PortHeld, At, Closes

LEMMA MetaFits ==
    ASSUME DiskTypes, JobTypes, NEW p \in Proc, HasMeta(p)
    PROVE  Meta(p) \in ClientId
<1>1. job[p].meta \in ClientId \cup {None}
  BY DEF JobTypes, Job
<1>2. Readable("client") => file["client"].text \in ClientId
  BY DEF DiskTypes, Stored, Doc, Files, Readable
<1> QED
  BY <1>1, <1>2 DEF HasMeta, Meta

LEMMA TokensFit ==
    ASSUME DiskTypes, Readable("tokens")
    PROVE  file["tokens"].text \in Pair
BY DEF DiskTypes, Stored, Doc, Files, Readable

LEMMA GoToFits ==
    ASSUME JobTypes, NEW p \in Proc,
           NEW l \in {"post", "reload", "rename"},
           \/ l = "post" /\ At(p, "register")
           \/ l = "reload" /\ At(p, "get")
           \/ l = "rename" /\ At(p, "write"),
           GoTo(p, l)
    PROVE  /\ JobTypes'
           /\ job'[p] = [job[p] EXCEPT !.pc = l]
           /\ job'[p].pc = l
           /\ \A q \in Proc \ {p} : job'[q] = job[q]
<1> DEFINE j == [job[p] EXCEPT !.pc = l]
<1>1. Fit(job[p])
  BY DEF JobTypes
<1>2. j \in Job /\ j.pc = l
  BY <1>1 DEF Fit, Job
<1>3. Placed(j)
  BY <1>1 DEF Fit, Job, Placed, At
<1>4. Carried(j)
  BY <1>1 DEF Fit, Job, Carried, At
<1>5. Fit(j)
  BY <1>2, <1>3, <1>4 DEF Fit
<1> QED
  BY <1>2, <1>5, GoesOn DEF GoTo

LEMMA SentJob ==
    ASSUME NEW k \in Job, NEW q \in Wire, NEW id \in ClientId \cup {None}
    PROVE  [k EXCEPT !.pc = "sent", !.wire = q, !.meta = id] \in Job
BY ZenonT(30) DEF Job

\* Where a request is sent from.
LEMMA SendsFits ==
    ASSUME JobTypes, NEW p \in Proc, NEW q \in Wire, NEW id \in ClientId \cup {None},
           \/ At(p, "post") /\ q.kind = "register"
           \/ At(p, "listen") /\ q.kind # "register"
           \/ At(p, "reload") /\ q.kind # "register",
           Sends(p, q, id)
    PROVE  /\ JobTypes'
           /\ job'[p] = [job[p] EXCEPT !.pc = "sent", !.wire = q, !.meta = id]
           /\ job'[p].pc = "sent" /\ job'[p].wire = q
           /\ \A r \in Proc \ {p} : job'[r] = job[r]
<1> DEFINE j == [job[p] EXCEPT !.pc = "sent", !.wire = q, !.meta = id]
<1>1. Fit(job[p]) /\ job[p] \in Job
  BY DEF JobTypes, Fit
<1>2. j \in Job
  BY <1>1, SentJob
<1>3. /\ j.pc = "sent" /\ j.wire = q /\ j.cmd = job[p].cmd
      /\ j.then = job[p].then /\ j.passes = job[p].passes
  BY <1>1 DEF Job
<1>4. j.wire.kind = "register" <=> j.cmd = "register"
  BY <1>1, <1>3 DEF Fit, Placed, At
<1> HIDE DEF j
<1>5. Placed(j)
  BY <1>1, <1>3 DEF Fit, Placed, At
<1>6. Carried(j)
  BY <1>3, <1>4 DEF Carried
<1> QED
  BY <1>2, <1>3, <1>5, <1>6, GoesOn DEF Sends, Fit, j

LEMMA ObtainedFits ==
    ASSUME JobTypes, NEW p \in Proc, NEW a \in Access,
           At(p, "get") \/ (At(p, "rename") /\ job[p].cmd \notin {"register", "auth"}),
           Obtained(p, a)
    PROVE  /\ JobTypes'
           /\ job'[p].pc \in {"done", "status", "call", "get"}
           /\ job'[p].bearer \in {job[p].bearer, a}
           /\ job'[p].exit \in {job[p].exit, 0}
           /\ \A r \in Proc \ {p} : job'[r] = job[r]
<1>1. /\ Fit(job[p]) /\ job[p].cmd \in Command
      /\ job[p].cmd \notin {"register", "auth"}
      /\ job[p].then \in {"exit", "status", "call", "again"}
  BY DEF JobTypes, Fit, Placed, Job, At
<1> DEFINE j == [job[p] EXCEPT !.reply = None]
<1>2. j \in Job /\ j.cmd = job[p].cmd /\ j.then = job[p].then
      /\ j.bearer = job[p].bearer /\ j.exit = job[p].exit /\ j.passes = job[p].passes
  BY <1>1 DEF Fit, Job
<1>3. CASE job[p].then = "exit"
  <2>1. Becomes(p, [Ended(job[p].cmd, 0) EXCEPT !.bearer = a])
    BY <1>2, <1>3 DEF Obtained
  <2>2. Fit([Ended(job[p].cmd, 0) EXCEPT !.bearer = a])
    BY <1>1, EndedFits
  <2>3. [Ended(job[p].cmd, 0) EXCEPT !.bearer = a].pc = "done"
        /\ [Ended(job[p].cmd, 0) EXCEPT !.bearer = a].bearer = a
        /\ [Ended(job[p].cmd, 0) EXCEPT !.bearer = a].exit = 0
    BY <1>1 DEF Ended, NewJob
  <2> QED
    BY <2>1, <2>2, <2>3, GoesOn
<1>4. ASSUME NEW k \in Job, job[p].then # "exit", Becomes(p, k), k.cmd = job[p].cmd,
             k.passes = job[p].passes,
             \/ k.pc = "status" /\ k.then = "status"
             \/ k.pc = "call" /\ k.then = "call" /\ k.bearer = a
             \/ k.pc = "get" /\ k.then = "call",
             k.bearer \in {job[p].bearer, a}, k.exit = job[p].exit
      PROVE  /\ JobTypes'
             /\ job'[p] = k
             /\ \A r \in Proc \ {p} : job'[r] = job[r]
  <2>1. Placed(k)
    BY <1>1, <1>4 DEF Fit, Placed, At
  <2>2. Carried(k)
    BY <1>4 DEF Carried
  <2>3. Fit(k)
    BY <2>1, <2>2 DEF Fit
  <2> QED
    BY <1>4, <2>3, GoesOn
<1>5. CASE job[p].then = "status"
  <2> DEFINE k == [j EXCEPT !.pc = "status"]
  <2>1. Becomes(p, k)
    BY <1>2, <1>5 DEF Obtained
  <2>2. k \in Job /\ k.cmd = job[p].cmd /\ k.passes = job[p].passes /\ k.pc = "status"
        /\ k.then = "status" /\ k.bearer = job[p].bearer /\ k.exit = job[p].exit
    BY ZenonT(30), <1>2, <1>5 DEF Job
  <2> QED
    BY <1>4, <1>5, <2>1, <2>2
<1>6. CASE job[p].then = "call"
  <2> DEFINE k == [j EXCEPT !.pc = "call", !.bearer = a]
  <2>1. Becomes(p, k)
    BY <1>2, <1>6 DEF Obtained
  <2>2. k \in Job /\ k.cmd = job[p].cmd /\ k.passes = job[p].passes /\ k.pc = "call"
        /\ k.then = "call" /\ k.bearer = a /\ k.exit = job[p].exit
    BY ZenonT(30), <1>2, <1>6 DEF Job
  <2> QED
    BY <1>4, <1>6, <2>1, <2>2
<1>7. CASE job[p].then = "again"
  <2> DEFINE k == [j EXCEPT !.pc = "get", !.then = "call"]
  <2>1. Becomes(p, k)
    BY <1>2, <1>7 DEF Obtained
  <2>2. k \in Job /\ k.cmd = job[p].cmd /\ k.passes = job[p].passes /\ k.pc = "get"
        /\ k.then = "call" /\ k.bearer = job[p].bearer /\ k.exit = job[p].exit
    BY <1>2, <1>7 DEF Job
  <2> QED
    BY <1>4, <1>7, <2>1, <2>2
<1> QED
  BY <1>1, <1>3, <1>5, <1>6, <1>7

-----------------------------------------------------------------------------
(* The server keeps the types, and answers each request in its kind.        *)

LEMMA AnswersFit ==
    ASSUME ServerTypes, NEW answer \in Answers
    PROVE  answer \in Reply /\ (answer = Error => ~answer.ok)
<1>1. Error \in Reply /\ ~Error.ok
  BY DEF Error, Reply
<1>2. ASSUME NEW t \in Token PROVE TokenPair(t) \in Reply /\ TokenPair(t).ok
  BY PairsFit DEF ServerTypes
<1>3. ASSUME NEW id \in ClientId PROVE [ok |-> TRUE, id |-> id] \in Reply
  BY DEF Reply
<1> QED
  BY <1>1, <1>2, <1>3 DEF Answers

LEMMA UnseenTokens == Unseen \subseteq Token
BY DEF Unseen

LEMMA RotationFits ==
    ASSUME ServerTypes, NEW c \in Chain, grant[c].holder \in Token, Unseen # {}, Rotation(c)
    PROVE  grant' \in [Chain -> Grant]
<1>1. Draw(Unseen) \in Token
  BY DrawnFrom, UnseenTokens
<1>2. grant[c] \in Grant
  BY DEF ServerTypes
<1>3. [grant[c] EXCEPT !.holder = Draw(Unseen), !.past = @ \cup {grant[c].holder}] \in Grant
  BY <1>1, <1>2 DEF Grant
<1>4. grant' = [grant EXCEPT ![c] = [grant[c] EXCEPT !.holder = Draw(Unseen),
                                                    !.past = @ \cup {grant[c].holder}]]
  BY <1>2 DEF Rotation, ServerTypes, Grant
<1> QED
  BY <1>3, <1>4 DEF ServerTypes

LEMMA RevocationFits ==
    ASSUME ServerTypes, NEW c \in Chain, Revocation(c)
    PROVE  grant' \in [Chain -> Grant]
<1>1. grant[c] \in Grant
  BY DEF ServerTypes
<1>2. [phase |-> "dead", holder |-> None,
       past |-> (grant[c].past \cup {grant[c].holder}) \ {None}] \in Grant
  BY <1>1 DEF Grant
<1> QED
  BY <1>2 DEF ServerTypes, Revocation

LEMMA StrandingFits ==
    ASSUME ServerTypes, NEW c \in Chain, grant[c].holder \in Token, Stranding(c)
    PROVE  grant' \in [Chain -> Grant]
<1>1. grant[c] \in Grant
  BY DEF ServerTypes
<1>2. [phase |-> "stranded", holder |-> None,
       past |-> grant[c].past \cup {grant[c].holder}] \in Grant
  BY <1>1 DEF Grant
<1> QED
  BY <1>2 DEF ServerTypes, Stranding

\* What may be asked for.
LEMMA Asked ==
    ASSUME NEW q \in Wire
    PROVE  /\ q.kind = "code" => q.client \in ClientId
           /\ q.kind = "refresh" => q.token \in Token
BY DEF Wire

LEMMA ServerFits ==
    ASSUME ServerTypes, NEW q \in Wire, NEW answer \in Answers,
           Handles(q, answer) \/ Breaks(q, answer), clock' = clock
    PROVE  /\ ServerTypes'
           /\ answer.ok => ("id" \in DOMAIN answer <=> q.kind = "register")
<1>1. Error.ok = FALSE
  BY DEF Error
<1>2. CASE q.kind = "register" /\ Registers(answer)
  <2>1. Draw(ClientId \ clients) \in ClientId
    BY <1>2, DrawnFrom DEF Registers, ServerTypes
  <2> QED
    BY <1>2, <2>1 DEF Registers, ServerTypes
<1>3. CASE q.kind = "code" /\ Grants(q, answer)
  <2> DEFINE c == Draw(UnbornChains)
             t == Draw(Unseen)
  <2>1. c \in Chain /\ t \in Token
    BY <1>3, DrawnFrom, UnseenTokens DEF Grants, UnbornChains
  <2>2. Opened(t) \in Grant
    BY <2>1 DEF Opened, Grant
  <2>3. /\ grant' = [grant EXCEPT ![c] = Opened(t)]
        /\ owner' = [owner EXCEPT ![c] = q.client]
        /\ answer = TokenPair(t) /\ UNCHANGED <<clients, key>>
    BY <1>3 DEF Grants
  <2>4. q.client \in ClientId
    BY <1>3, Asked
  <2>5. "id" \notin DOMAIN answer
    BY <2>1, <2>3, PairsFit DEF ServerTypes
  <2> HIDE DEF c, t
  <2> QED
    BY <1>3, <2>1, <2>2, <2>3, <2>4, <2>5 DEF ServerTypes
<1>4. CASE q.kind = "refresh" /\ Rotates(q, answer)
  <2>1. PICK c \in Chain : Spendable(q, c) /\ Unseen # {} /\ Rotation(c)
                           /\ answer = TokenPair(Draw(Unseen))
                           /\ UNCHANGED <<owner, clients, key>>
    BY <1>4 DEF Rotates
  <2>2. grant[c].holder \in Token
    BY <1>4, <2>1, Asked DEF Spendable
  <2>3. grant' \in [Chain -> Grant]
    BY <2>1, <2>2, RotationFits
  <2>4. Draw(Unseen) \in Token
    BY <2>1, DrawnFrom, UnseenTokens
  <2>5. "id" \notin DOMAIN answer
    BY <2>1, <2>4, PairsFit DEF ServerTypes
  <2> QED
    BY <1>4, <2>1, <2>3, <2>5 DEF ServerTypes
<1>5. CASE Refuses(q, answer)
  <2>1. grant' \in [Chain -> Grant]
    BY <1>5, RevocationFits DEF Refuses, ServerTypes
  <2> QED
    BY <1>1, <1>5, <2>1 DEF Refuses, ServerTypes
<1>6. CASE Breaks(q, answer)
  <2>1. grant' \in [Chain -> Grant]
    <3>1. CASE UNCHANGED grant
      BY <3>1 DEF ServerTypes
    <3>2. ASSUME NEW c \in Chain, q.kind = "refresh", Spendable(q, c),
                 (Unseen # {} /\ Rotation(c)) \/ Stranding(c)
          PROVE  grant' \in [Chain -> Grant]
      BY <3>2, Asked, RotationFits, StrandingFits DEF Spendable
    <3> QED
      BY <1>6, <3>1, <3>2 DEF Breaks
  <2> QED
    BY <1>1, <1>6, <2>1 DEF Breaks, ServerTypes
<1> QED
  BY <1>2, <1>3, <1>4, <1>5, <1>6 DEF Handles

-----------------------------------------------------------------------------
(* One lemma per action.                                                    *)

LEMMA TypeExits ==
    ASSUME TypeInv, NEW p \in Proc, NEW code \in 0 .. 3, Exits(p, code),
           ~At(p, "listen"),
           UNCHANGED <<clock, serverVars, diskVars, port, late>>, disturbed' \in BOOLEAN
    PROVE  TypeInv'
<1>1. JobTypes' /\ job'[p].pc = "done" /\ \A q \in Proc \ {p} : job'[q] = job[q]
  BY ExitsFit DEF TypeInv
<1>2. PortHeld'
  BY <1>1, PortStays DEF TypeInv
<1> QED
  BY <1>1, <1>2 DEF TypeInv, ServerTypes, DiskTypes, serverVars, diskVars

LEMMA TypeGoTo ==
    ASSUME TypeInv, NEW p \in Proc, NEW l \in {"post", "reload"},
           \/ l = "post" /\ At(p, "register")
           \/ l = "reload" /\ At(p, "get"),
           GoTo(p, l),
           UNCHANGED <<clock, serverVars, diskVars, port, late>>, disturbed' \in BOOLEAN
    PROVE  TypeInv'
<1>1. JobTypes' /\ job'[p].pc = l /\ \A q \in Proc \ {p} : job'[q] = job[q]
  BY GoToFits DEF TypeInv
<1>2. PortHeld'
  BY <1>1, PortStays DEF TypeInv, At
<1> QED
  BY <1>1, <1>2 DEF TypeInv, ServerTypes, DiskTypes, serverVars, diskVars

LEMMA EntersFits ==
    ASSUME NEW p, disturbed \in BOOLEAN, Enters(p) \/ UNCHANGED disturbed
    PROVE  disturbed' \in BOOLEAN
BY DEF Enters

LEMMA TypeRegister ==
    ASSUME TypeInv, NEW p \in Proc, Register(p)
    PROVE  TypeInv'
<1>1. disturbed' \in BOOLEAN
  BY EntersFits DEF Register, TypeInv
<1> QED
  BY <1>1, TypeExits, TypeGoTo, CodesFit DEF Register, At

LEMMA TypePost ==
    ASSUME TypeInv, NEW p \in Proc, Post(p)
    PROVE  TypeInv'
<1> DEFINE q == [kind |-> "register", since |-> clock]
<1>1. q \in Wire /\ q.kind = "register"
  BY DEF Wire, TypeInv, ServerTypes
<1> HIDE DEF q
<1>2. Sends(p, q, None) /\ At(p, "post")
  BY DEF Post, q
<1>3. JobTypes' /\ job'[p].pc = "sent" /\ \A r \in Proc \ {p} : job'[r] = job[r]
  BY <1>1, <1>2, SendsFits DEF TypeInv
<1>4. PortHeld'
  BY <1>2, <1>3, PortStays DEF TypeInv, Post, Quiet, At
<1> QED
  BY <1>3, <1>4 DEF TypeInv, Post, Quiet, ServerTypes, DiskTypes, serverVars, diskVars

LEMMA TypeListen ==
    ASSUME TypeInv, NEW p \in Proc, Listen(p)
    PROVE  TypeInv'
<1>1. CASE \E code \in 0 .. 3 : Exits(p, code) /\ UNCHANGED port
  BY <1>1, TypeExits DEF Listen, TypeInv, At
<1>2. CASE /\ HasMeta(p) /\ port = None
           /\ Becomes(p, [job[p] EXCEPT !.pc = "listen", !.meta = Meta(p)])
           /\ port' = p
  <2> DEFINE j == [job[p] EXCEPT !.pc = "listen", !.meta = Meta(p)]
  <2>1. Meta(p) \in ClientId
    BY <1>2, MetaFits DEF TypeInv
  <2>2. Fit(job[p]) /\ job[p] \in Job /\ job[p].pc = "auth"
    BY DEF Listen, At, TypeInv, JobTypes, Fit
  <2>3. j \in Job
    BY <2>1, <2>2, Zenon DEF Job
  <2>4. /\ j.pc = "listen" /\ j.meta = Meta(p) /\ j.cmd = job[p].cmd
        /\ j.then = job[p].then /\ j.passes = job[p].passes
    BY <2>2 DEF Job
  <2>5. Becomes(p, j)
    BY <1>2
  <2> HIDE DEF j
  <2>6. Fit(j)
    BY <2>1, <2>2, <2>3, <2>4 DEF Fit, Placed, Carried
  <2>7. JobTypes' /\ job'[p] = j /\ \A q \in Proc \ {p} : job'[q] = job[q]
    BY <2>5, <2>6, GoesOn DEF TypeInv
  <2>8. PortHeld'
    BY <1>2, <2>4, <2>7, NoneAssumption DEF TypeInv, PortHeld, At
  <2> QED
    BY <2>7, <2>8 DEF Listen, TypeInv, ServerTypes, DiskTypes, serverVars, diskVars
<1> QED
  BY <1>1, <1>2, CodesFit DEF Listen

LEMMA TypeCallback ==
    ASSUME TypeInv, NEW p \in Proc, Callback(p)
    PROVE  TypeInv'
<1> DEFINE q == [kind |-> "code", client |-> job[p].meta, since |-> clock]
<1>1. job[p].meta \in ClientId
  BY DEF Callback, At, TypeInv, JobTypes, Fit, Placed
<1>2. q \in Wire /\ q.kind # "register"
  BY <1>1 DEF Wire, TypeInv, ServerTypes
<1> HIDE DEF q
<1>3. Sends(p, q, job[p].meta) /\ At(p, "listen") /\ Closes(p)
  BY DEF Callback, q
<1>4. JobTypes' /\ job'[p].pc = "sent" /\ \A r \in Proc \ {p} : job'[r] = job[r]
  BY <1>1, <1>2, <1>3, SendsFits DEF TypeInv
<1>5. PortHeld'
  BY <1>3, <1>4, PortFreed DEF TypeInv
<1>6. disturbed' \in BOOLEAN
  BY EntersFits DEF Callback, TypeInv
<1> QED
  BY <1>4, <1>5, <1>6 DEF TypeInv, Callback, ServerTypes, DiskTypes, serverVars, diskVars

LEMMA TypeNoCallback ==
    ASSUME TypeInv, NEW p \in Proc, NoCallback(p)
    PROVE  TypeInv'
<1>1. JobTypes' /\ job'[p].pc = "done" /\ \A q \in Proc \ {p} : job'[q] = job[q]
  BY ExitsFit DEF TypeInv, NoCallback
<1>2. PortHeld'
  BY <1>1, PortFreed DEF TypeInv, NoCallback
<1> QED
  BY <1>1, <1>2 DEF TypeInv, NoCallback, ServerTypes, DiskTypes, serverVars, diskVars

LEMMA TypeGetAccessToken ==
    ASSUME TypeInv, NEW p \in Proc, GetAccessToken(p)
    PROVE  TypeInv'
<1>1. At(p, "get") /\ Quiet /\ UNCHANGED disturbed /\ disturbed' \in BOOLEAN
  BY DEF GetAccessToken, Quiet, TypeInv
<1>2. CASE Exits(p, NoTokens(p)) \/ Exits(p, Unforeseen(p))
  BY <1>1, <1>2, CodesFit, TypeExits DEF Quiet, At
<1>3. CASE Readable("tokens") /\ Obtained(p, file["tokens"].text.access)
  <2>1. file["tokens"].text.access \in Access
    BY <1>3, TokensFit DEF TypeInv, Pair
  <2>2. JobTypes' /\ job'[p].pc # "listen" /\ \A q \in Proc \ {p} : job'[q] = job[q]
    BY <1>1, <1>3, <2>1, ObtainedFits DEF TypeInv
  <2>3. PortHeld'
    BY <1>1, <2>2, PortStays DEF TypeInv, Quiet, At
  <2> QED
    BY <1>1, <2>2, <2>3 DEF TypeInv, Quiet, ServerTypes, DiskTypes, serverVars, diskVars
<1>4. CASE GoTo(p, "reload")
  BY <1>1, <1>4, TypeGoTo DEF Quiet
<1> QED
  BY <1>2, <1>3, <1>4 DEF GetAccessToken

LEMMA TypeRefresh ==
    ASSUME TypeInv, NEW p \in Proc, Refresh(p)
    PROVE  TypeInv'
<1>1. At(p, "reload") /\ disturbed' \in BOOLEAN
  BY EntersFits DEF Refresh, TypeInv
<1>2. CASE \E code \in 0 .. 3 : Exits(p, code)
  BY <1>1, <1>2, TypeExits DEF Refresh, At
<1>3. CASE /\ Readable("tokens") /\ HasMeta(p)
           /\ Sends(p, [kind |-> "refresh", token |-> file["tokens"].text.refresh,
                       client |-> Meta(p), since |-> clock], Meta(p))
  <2> DEFINE q == [kind |-> "refresh", token |-> file["tokens"].text.refresh,
                       client |-> Meta(p), since |-> clock]
  <2>1. Meta(p) \in ClientId /\ file["tokens"].text.refresh \in Token
    BY <1>3, MetaFits, TokensFit DEF TypeInv, Pair
  <2>2. q \in Wire /\ q.kind # "register"
    BY <2>1 DEF Wire, TypeInv, ServerTypes
  <2> HIDE DEF q
  <2>3. Sends(p, q, Meta(p))
    BY <1>3 DEF q
  <2>4. JobTypes' /\ job'[p].pc = "sent" /\ \A r \in Proc \ {p} : job'[r] = job[r]
    BY <1>1, <2>1, <2>2, <2>3, SendsFits DEF TypeInv
  <2>5. PortHeld'
    BY <1>1, <2>4, PortStays DEF TypeInv, Refresh, At
  <2> QED
    BY <1>1, <2>4, <2>5 DEF TypeInv, Refresh, ServerTypes, DiskTypes, serverVars, diskVars
<1> QED
  BY <1>2, <1>3, CodesFit DEF Refresh

LEMMA TypeServe ==
    ASSUME TypeInv, NEW p \in Proc, Serve(p)
    PROVE  TypeInv'
<1>1. PICK answer \in Answers :
         /\ Handles(job[p].wire, answer) \/ Breaks(job[p].wire, answer)
         /\ disturbed' \in {disturbed, TRUE}
         /\ Becomes(p, [job[p] EXCEPT !.pc = "answered", !.reply = answer])
  BY DEF Serve
<1>2. Fit(job[p]) /\ job[p] \in Job /\ job[p].pc = "sent" /\ job[p].wire \in Wire
  BY DEF Serve, At, TypeInv, JobTypes, Fit, Carried
<1>3. /\ ServerTypes'
      /\ answer.ok => ("id" \in DOMAIN answer <=> job[p].wire.kind = "register")
  BY <1>1, <1>2, ServerFits DEF TypeInv, Serve
<1>4. answer \in Reply
  BY AnswersFit DEF TypeInv
<1> DEFINE j == [job[p] EXCEPT !.pc = "answered", !.reply = answer]
<1>5. j \in Job
  BY <1>2, <1>4, ZenonT(30) DEF Job
<1>6. /\ j.pc = "answered" /\ j.reply = answer /\ j.cmd = job[p].cmd
      /\ j.then = job[p].then /\ j.passes = job[p].passes /\ j.wire = job[p].wire
  BY <1>2 DEF Job
<1>7. Becomes(p, j)
  BY <1>1
<1> HIDE DEF j
<1>8. Placed(j)
  BY <1>2, <1>6 DEF Fit, Placed
<1>9. Carried(j)
  BY <1>2, <1>3, <1>4, <1>6 DEF Fit, Carried
<1>10. JobTypes' /\ job'[p] = j /\ \A q \in Proc \ {p} : job'[q] = job[q]
  BY <1>5, <1>7, <1>8, <1>9, GoesOn DEF TypeInv, Fit
<1>11. PortHeld'
  BY <1>2, <1>6, <1>10, PortStays DEF TypeInv, Serve, At
<1> QED
  BY <1>1, <1>3, <1>10, <1>11 DEF TypeInv, Serve, DiskTypes, diskVars

LEMMA TypeRefused ==
    ASSUME TypeInv, NEW p \in Proc, Refused(p)
    PROVE  TypeInv'
<1>1. disturbed' \in BOOLEAN
  BY DEF Refused, Quiet, TypeInv
<1> QED
  BY <1>1, TypeExits, CodesFit DEF Refused, Quiet, At

LEMMA DiskUpdate ==
    ASSUME DiskTypes, NEW f \in Files, NEW m, NEW n, Stored(m, f), Stored(n, f),
           file' = [file EXCEPT ![f] = m], tmp' = [tmp EXCEPT ![f] = n]
    PROVE  DiskTypes'
<1>1. DOMAIN file' = Files /\ DOMAIN tmp' = Files
  BY DEF DiskTypes
<1>2. file' = [g \in Files |-> file'[g]] /\ tmp' = [g \in Files |-> tmp'[g]]
  BY DEF DiskTypes
<1>3. \A g \in Files : Stored(file'[g], g) /\ Stored(tmp'[g], g)
  BY DEF DiskTypes
<1> QED
  BY <1>1, <1>2, <1>3 DEF DiskTypes

LEMMA TargetFits ==
    ASSUME NEW p \in Proc
    PROVE  /\ Target(p) \in Files
           /\ Target(p) = "client" <=> job[p].cmd = "register"
BY DEF Target, Files

LEMMA GoodReplies ==
    ASSUME NEW r \in Reply, r.ok
    PROVE  r \in [ok : {TRUE}, id : ClientId] \cup [ok : {TRUE}, refresh : Token, access : Access]
<1>1. Error.ok = FALSE
  BY DEF Error
<1>2. r # Error
  BY <1>1
<1> QED
  BY <1>2, Zenon DEF Reply

LEMMA SavedFits ==
    ASSUME NEW a \in [ok : {TRUE}, refresh : Token, access : Access], NEW now \in Nat
    PROVE  Saved(a, now) \in Pair
<1>1. now + AccessTTL \in Nat
  BY ServerAssumption
<1> QED
  BY <1>1 DEF Saved, Pair

\* The answer that has come, as the document it is saved as.
LEMMA DocumentFits ==
    ASSUME TypeInv, NEW p \in Proc, At(p, "answered"), job[p].reply.ok
    PROVE  Document(p) \in IF job[p].cmd = "register" THEN ClientId ELSE Pair
<1>1. job[p].reply \in Reply /\ (job[p].cmd = "register" <=> "id" \in DOMAIN job[p].reply)
  BY DEF At, TypeInv, JobTypes, Fit, Carried
<1>2. job[p].reply \in [ok : {TRUE}, id : ClientId]
      \/ job[p].reply \in [ok : {TRUE}, refresh : Token, access : Access]
  BY <1>1, GoodReplies
<1>3. CASE job[p].reply \in [ok : {TRUE}, id : ClientId]
  BY <1>1, <1>3, TargetFits DEF Document
<1>4. CASE job[p].reply \in [ok : {TRUE}, refresh : Token, access : Access]
  <2>1. "id" \notin DOMAIN job[p].reply
    BY <1>4
  <2>2. Saved(job[p].reply, clock) \in Pair
    BY <1>4, SavedFits DEF TypeInv, ServerTypes
  <2> QED
    BY <1>1, <2>1, <2>2, TargetFits DEF Document
<1> QED
  BY <1>2, <1>3, <1>4

LEMMA TypeAccepted ==
    ASSUME TypeInv, NEW p \in Proc, Accepted(p)
    PROVE  TypeInv'
<1> DEFINE f == Target(p)
           d == Document(p)
           j == [job[p] EXCEPT !.pc = "write", !.reply = d, !.wire = None]
<1>1. Fit(job[p]) /\ job[p] \in Job /\ job[p].pc = "answered"
  BY DEF Accepted, At, TypeInv, JobTypes, Fit
<1>2. d \in IF job[p].cmd = "register" THEN ClientId ELSE Pair
  BY DocumentFits DEF Accepted
<1>3. Becomes(p, j)
  BY DEF Accepted
<1>4. d \in Reply \cup Pair \cup ClientId \cup {None}
  BY <1>2
<1> HIDE DEF d
<1>5. j \in Job
  BY <1>1, <1>4, ZenonT(30) DEF Job
<1>6. /\ j.pc = "write" /\ j.reply = d /\ j.cmd = job[p].cmd
      /\ j.then = job[p].then /\ j.passes = job[p].passes
  BY <1>1 DEF Job
<1> HIDE DEF j
<1>7. Fit(j)
  BY <1>1, <1>2, <1>5, <1>6 DEF Fit, Placed, Carried
<1>8. JobTypes' /\ job'[p] = j /\ \A q \in Proc \ {p} : job'[q] = job[q]
  BY <1>3, <1>7, GoesOn DEF TypeInv
<1>9. PortHeld'
  BY <1>1, <1>6, <1>8, PortStays DEF TypeInv, Accepted, At
<1>10. DiskTypes'
  <2>1. f \in Files /\ Stored(tmp[f], f) /\ Stored(file[f], f)
    BY TargetFits DEF TypeInv, DiskTypes
  <2>2. Stored(Node("torn", None, tmp[f].fds \cup {p}), f)
    BY <2>1 DEF Stored, Node, FileOf
  <2>3. tmp' = [tmp EXCEPT ![f] = Node("torn", None, tmp[f].fds \cup {p})]
    BY DEF Accepted
  <2>4. file' = [file EXCEPT ![f] = file[f]]
    BY DEF Accepted, TypeInv, DiskTypes
  <2> QED
    BY <2>1, <2>2, <2>3, <2>4, DiskUpdate DEF TypeInv
<1> QED
  BY <1>8, <1>9, <1>10 DEF TypeInv, Accepted, ServerTypes, serverVars

LEMMA TypeWrite ==
    ASSUME TypeInv, NEW p \in Proc, Write(p)
    PROVE  TypeInv'
<1> DEFINE f == Target(p)
<1>1. At(p, "write") /\ GoTo(p, "rename")
  BY DEF Write
<1>2. JobTypes' /\ job'[p].pc = "rename" /\ \A q \in Proc \ {p} : job'[q] = job[q]
  BY <1>1, GoToFits DEF TypeInv
<1>3. PortHeld'
  BY <1>1, <1>2, PortStays DEF TypeInv, Write, At
<1>4. DiskTypes'
  <2>1. f \in Files /\ Stored(tmp[f], f) /\ Stored(file[f], f)
    BY TargetFits DEF TypeInv, DiskTypes
  <2>2. job[p].reply \in Doc(f)
    BY <1>1, TargetFits DEF TypeInv, JobTypes, Fit, Carried, At, Doc
  <2>3. ASSUME NEW n, Stored(n, f) PROVE Stored(Written(n, p), f)
    BY <2>2, <2>3 DEF Stored, Written, Node, FileOf
  <2> QED
    BY <2>1, <2>3, DiskUpdate DEF Write, TypeInv
<1> QED
  BY <1>2, <1>3, <1>4 DEF TypeInv, Write, ServerTypes, serverVars

LEMMA TypeRename ==
    ASSUME TypeInv, NEW p \in Proc, Rename(p)
    PROVE  TypeInv'
<1> DEFINE f == Target(p)
<1>1. At(p, "rename") /\ disturbed' \in BOOLEAN
  BY DEF Rename, TypeInv
<1>2. CASE Exits(p, Unforeseen(p)) /\ UNCHANGED diskVars
  BY <1>1, <1>2, TypeExits, CodesFit DEF Rename, At
<1>3. CASE Saves(p) /\ \/ Exits(p, 0)
                       \/ /\ job[p].cmd \notin {"register", "auth"}
                          /\ Obtained(p, job[p].reply.access)
  <2>1. JobTypes' /\ job'[p].pc # "listen" /\ \A q \in Proc \ {p} : job'[q] = job[q]
    <3>1. CASE Exits(p, 0)
      BY <3>1, ExitsFit DEF TypeInv
    <3>2. CASE job[p].cmd \notin {"register", "auth"} /\ Obtained(p, job[p].reply.access)
      <4>1. job[p].reply.access \in Access
        BY <1>1, <3>2 DEF TypeInv, JobTypes, Fit, Carried, At, Pair
      <4> QED
        BY <1>1, <3>2, <4>1, ObtainedFits DEF TypeInv
    <3> QED
      BY <1>3, <3>1, <3>2
  <2>2. PortHeld'
    BY <1>1, <2>1, PortStays DEF TypeInv, Rename, At
  <2>3. DiskTypes'
    <3>1. f \in Files /\ Stored(tmp[f], f) /\ Stored(Absent, f)
      BY TargetFits DEF TypeInv, DiskTypes, Stored, Absent, Node, FileOf
    <3> QED
      BY <1>3, <3>1, DiskUpdate DEF Saves, TypeInv
  <2> QED
    BY <1>1, <2>1, <2>2, <2>3 DEF TypeInv, Rename, ServerTypes, serverVars
<1> QED
  BY <1>2, <1>3 DEF Rename

LEMMA TypeStatus ==
    ASSUME TypeInv, NEW p \in Proc, Status(p)
    PROVE  TypeInv'
<1>1. At(p, "status") /\ UNCHANGED <<clock, serverVars, diskVars, port, late>>
      /\ disturbed' \in BOOLEAN
  BY DEF Status, Quiet, TypeInv
<1>2. CASE \E code \in 0 .. 3 : Exits(p, code)
  BY <1>1, <1>2, TypeExits DEF At
<1>3. CASE /\ HasMeta(p) /\ job[p].cmd = "validate"
           /\ Becomes(p, [job[p] EXCEPT !.pc = "get", !.then = "call", !.meta = Meta(p)])
  <2> DEFINE j == [job[p] EXCEPT !.pc = "get", !.then = "call", !.meta = Meta(p)]
  <2>1. Fit(job[p]) /\ job[p] \in Job /\ job[p].pc = "status"
    BY <1>1 DEF At, TypeInv, JobTypes, Fit
  <2>2. Meta(p) \in ClientId
    BY <1>3, MetaFits DEF TypeInv
  <2>3. j \in Job
    BY <2>1, <2>2, ZenonT(30) DEF Job
  <2>4. j.pc = "get" /\ j.then = "call" /\ j.cmd = job[p].cmd /\ j.passes = job[p].passes
    BY <2>1 DEF Job
  <2>5. Becomes(p, j)
    BY <1>3
  <2> HIDE DEF j
  <2>6. Fit(j)
    BY <1>3, <2>1, <2>3, <2>4 DEF Fit, Placed, Carried
  <2>7. JobTypes' /\ job'[p] = j /\ \A q \in Proc \ {p} : job'[q] = job[q]
    BY <2>5, <2>6, GoesOn DEF TypeInv
  <2>8. PortHeld'
    BY <1>1, <2>4, <2>7, PortStays DEF TypeInv, At
  <2> QED
    BY <1>1, <2>7, <2>8 DEF TypeInv, ServerTypes, DiskTypes, serverVars, diskVars
<1> QED
  BY <1>2, <1>3, CodesFit DEF Status

\* What is left of a list of passes.
LEMMA PassesLeft ==
    ASSUME NEW v \in Seq(BOOLEAN), v # <<>>
    PROVE  /\ Head(v) \in BOOLEAN
           /\ Tail(v) \in Seq(BOOLEAN)
           /\ Len(v) # 1 => Tail(v) # <<>>
<1>1. Head(v) \in BOOLEAN /\ Tail(v) \in Seq(BOOLEAN) /\ Len(Tail(v)) = Len(v) - 1 /\ Len(v) \in Nat
  BY HeadTailProperties, LenProperties
<1>2. Len(<<>>) = 0
  OBVIOUS
<1> QED
  BY <1>1, <1>2

LEMMA TypeCall ==
    ASSUME TypeInv, NEW p \in Proc, Call(p)
    PROVE  TypeInv'
<1>1. At(p, "call") /\ UNCHANGED <<clock, serverVars, diskVars, port, late>>
      /\ disturbed' \in BOOLEAN
  BY DEF Call, Quiet, TypeInv
<1>2. /\ Fit(job[p]) /\ job[p] \in Job /\ job[p].pc = "call"
      /\ job[p].then = "call" /\ job[p].cmd = "validate"
      /\ job[p].passes \in Seq(BOOLEAN) /\ job[p].passes # <<>>
      /\ job[p].bearer \in Access
  BY <1>1 DEF At, TypeInv, JobTypes, Fit, Placed, Job
<1>3. \/ Exits(p, 3) \/ Recovers(p)
      \/ \E payload \in Payload : Passed(p, payload)
  BY DEF Call
<1>4. ASSUME NEW j \in Job, Becomes(p, j), j.cmd = "validate",
             \/ j.pc = "reload" /\ j.then = "again" /\ j.passes # <<>>
             \/ j.pc = "get" /\ j.then = "call" /\ j.passes # <<>>
             \/ j.pc = "compare" /\ j.then = "call"
      PROVE  TypeInv'
  <2>1. Fit(j)
    BY <1>4 DEF Fit, Placed, Carried
  <2>2. JobTypes' /\ job'[p] = j /\ \A q \in Proc \ {p} : job'[q] = job[q]
    BY <1>4, <2>1, GoesOn DEF TypeInv
  <2>3. PortHeld'
    BY <1>1, <1>4, <2>2, PortStays DEF TypeInv, At
  <2> QED
    BY <1>1, <2>2, <2>3 DEF TypeInv, ServerTypes, DiskTypes, serverVars, diskVars
<1>5. CASE Exits(p, 3)
  BY <1>1, <1>5, TypeExits DEF At
<1>6. CASE Recovers(p)
  <2> DEFINE j == [job[p] EXCEPT !.pc = "reload", !.then = "again",
                                 !.spurned = job[p].bearer, !.bearer = None]
  <2>1. j \in Job
    BY <1>2, ZenonT(30) DEF Job
  <2>2. /\ j.pc = "reload" /\ j.then = "again" /\ j.cmd = job[p].cmd
        /\ j.passes = job[p].passes
    BY <1>2 DEF Job
  <2>3. Becomes(p, j)
    BY <1>6 DEF Recovers
  <2> HIDE DEF j
  <2> QED
    BY <1>2, <1>4, <2>1, <2>2, <2>3
<1>7. ASSUME NEW payload \in Payload, Passed(p, payload)
      PROVE  TypeInv'
  <2> DEFINE l == IF Len(job[p].passes) = 1 THEN "compare" ELSE "get"
             answer == [force |-> Head(job[p].passes), payload |-> payload]
             j == [job[p] EXCEPT !.pc = l, !.passes = Tail(@), !.bearer = None,
                                 !.spurned = None, !.answers = Append(@, answer)]
  <2>1. Tail(job[p].passes) \in Seq(BOOLEAN) /\ l \in {"compare", "get"}
        /\ (l = "get" => Tail(job[p].passes) # <<>>)
    BY <1>2, PassesLeft
  <2>2. answer \in [force : BOOLEAN, payload : Payload]
    BY <1>2, PassesLeft
  <2>3. Append(job[p].answers, answer) \in Seq([force : BOOLEAN, payload : Payload])
    <3> HIDE DEF answer
    <3>1. job[p].answers \in Seq([force : BOOLEAN, payload : Payload])
      BY <1>2 DEF Job
    <3> QED
      BY <2>2, <3>1, AppendProperties
  <2>4. Becomes(p, j)
    BY <1>7 DEF Passed
  <2> HIDE DEF l, answer
  <2>5. j \in Job
    BY <1>2, <2>1, <2>3, ZenonT(30) DEF Job
  <2>6. j.pc = l /\ j.then = job[p].then /\ j.cmd = job[p].cmd /\ j.passes = Tail(job[p].passes)
    BY <1>2 DEF Job
  <2> HIDE DEF j
  <2> QED
    BY <1>2, <1>4, <2>1, <2>4, <2>5, <2>6
<1> QED
  BY <1>3, <1>5, <1>6, <1>7

LEMMA TypeCompare ==
    ASSUME TypeInv, NEW p \in Proc, Compare(p)
    PROVE  TypeInv'
<1>1. disturbed' \in BOOLEAN
  BY DEF Compare, Quiet, TypeInv
<1> QED
  BY <1>1, TypeExits DEF Compare, Quiet, At

LEMMA ClosedFits ==
    ASSUME NEW f, NEW n, NEW p, Stored(n, f)
    PROVE  Stored(Closed(n, p), f)
BY DEF Stored, Closed, Node, FileOf

LEMMA TypeDie ==
    ASSUME TypeInv, NEW p \in Proc, Die(p)
    PROVE  TypeInv'
<1>1. JobTypes' /\ job'[p].pc = "done" /\ \A q \in Proc \ {p} : job'[q] = job[q]
  BY ExitsFit, CodesFit DEF TypeInv, Die
<1>2. PortHeld'
  <2>1. port' = IF port = p THEN None ELSE port
    BY DEF Die
  <2> QED
    BY <1>1, <2>1 DEF TypeInv, PortHeld, At
<1>3. late' \subseteq RefreshWire
  <2>1. CASE UNCHANGED late
    BY <2>1 DEF TypeInv
  <2>2. CASE /\ At(p, "sent") /\ job[p].wire.kind = "refresh"
             /\ late' = late \cup {[job[p].wire EXCEPT !.since = 0]}
    <3>1. job[p].wire \in Wire
      BY <2>2 DEF TypeInv, JobTypes, Fit, Carried, At
    <3>2. job[p].wire \in RefreshWire
      BY <2>2, <3>1 DEF Wire, RefreshWire
    <3>3. [job[p].wire EXCEPT !.since = 0] \in RefreshWire
      BY <3>2 DEF RefreshWire
    <3> QED
      BY <2>2, <3>3 DEF TypeInv
  <2> QED
    BY <2>1, <2>2 DEF Die
<1>4. disturbed' \in BOOLEAN
  BY DEF TypeInv, Die
<1>5. DiskTypes'
  <2>1. file' = [f \in Files |-> Closed(file[f], p)]
    BY DEF Die
  <2>2. DOMAIN file' = Files /\ file' = [f \in Files |-> file'[f]]
    BY <2>1
  <2>3. \A f \in Files : Stored(file'[f], f)
    BY <2>1, ClosedFits DEF TypeInv, DiskTypes
  <2>4. DOMAIN tmp' = Files /\ tmp' = [f \in Files |-> tmp'[f]] /\ \A f \in Files : Stored(tmp'[f], f)
    <3>1. CASE tmp' = [f \in Files |-> Closed(tmp[f], p)]
      BY <3>1, ClosedFits DEF TypeInv, DiskTypes
    <3>2. CASE tmp' = [tmp EXCEPT ![Target(p)] = Absent]
      <4>1. \A f \in Files : Stored(Absent, f)
        BY DEF Stored, Absent, Node, FileOf
      <4> QED
        BY <3>2, <4>1 DEF TypeInv, DiskTypes
    <3> QED
      BY <3>1, <3>2 DEF Die
  <2> QED
    BY <2>2, <2>3, <2>4 DEF DiskTypes
<1> QED
  BY <1>1, <1>2, <1>3, <1>4, <1>5 DEF TypeInv, Die, ServerTypes, serverVars

LEMMA RefreshIsWire == RefreshWire \subseteq Wire
BY DEF RefreshWire, Wire

LEMMA TypeServeLate ==
    ASSUME TypeInv, ServeLate
    PROVE  TypeInv'
<1>1. PICK q \in late : late' = late \ {q} /\ \E answer \in Answers : Handles(q, answer)
  BY DEF ServeLate
<1>2. ServerTypes'
  BY <1>1, ServerFits, RefreshIsWire DEF TypeInv, ServeLate
<1> QED
  BY <1>1, <1>2 DEF TypeInv, ServeLate, DiskTypes, JobTypes, PortHeld, At, diskVars

LEMMA TypeRestart ==
    ASSUME TypeInv, Restart
    PROVE  TypeInv'
BY ServerAssumption
   DEF TypeInv, Restart, Rekey, ServerTypes, DiskTypes, JobTypes, PortHeld, At, diskVars

LEMMA TypeTick ==
    ASSUME TypeInv, Tick
    PROVE  TypeInv'
BY DEF TypeInv, Tick, ServerTypes, DiskTypes, JobTypes, PortHeld, At, serverVars, diskVars

LEMMA TypeStutter ==
    ASSUME TypeInv, UNCHANGED vars
    PROVE  TypeInv'
BY DEF TypeInv, vars, ServerTypes, DiskTypes, JobTypes, PortHeld, At, serverVars, diskVars

LEMMA TypeNext ==
    ASSUME TypeInv, [Next]_vars
    PROVE  TypeInv'
<1>1. ASSUME NEW p \in Proc, Step(p) \/ Callback(p) \/ Die(p)
      PROVE  TypeInv'
  BY <1>1, TypeRegister, TypePost, TypeListen, TypeGetAccessToken, TypeRefresh, TypeServe,
     TypeRefused, TypeAccepted, TypeWrite, TypeRename, TypeStatus, TypeCall, TypeCompare,
     TypeNoCallback, TypeCallback, TypeDie DEF Step
<1> QED
  BY <1>1, TypeServeLate, TypeRestart, TypeTick, TypeStutter DEF Next

LEMMA TypeAlways == Spec => []TypeInv
BY TypeInit, TypeNext, PTL DEF Spec

\* What the processes carry, what the files hold and what the server keeps have
\* their types at each position, and the port is taken exactly while somebody
\* waits for the browser (oauth_client.py:186-258), for all processes and times.
THEOREM TypeCorrect == Spec => []TypeOK
BY TypeAlways, TypeInvImplies, PTL

-----------------------------------------------------------------------------
(* One authorization, one writer.  The argument follows the refresh token   *)
(* the server will accept next: a process that brings a new one is the only *)
(* place where it is known, so that nobody else can ask with it.            *)

\* A process with a pair that is not in the file yet.
Carrier(p) ==
    /\ job[p].cmd # "register"
    /\ job[p].pc \in {"answered", "write", "rename"}
    /\ job[p].pc = "answered" => job[p].reply.ok

Brought(p) == job[p].reply.refresh

Asking(p) == job[p].pc = "sent" /\ job[p].wire.kind = "refresh"

\* A refresh token that some request is under way with, or may be made with.
Known(t) ==
    \/ Readable("tokens") /\ t = file["tokens"].text.refresh
    \/ \E p \in Proc : Asking(p) /\ t = job[p].wire.token
    \/ \E q \in late : t = q.token

GrantShape == \A c \in Chain : grant[c].phase = "unborn" => grant[c] = Unborn

OneCarrier == \A p, q \in Proc : Carrier(p) /\ Carrier(q) => p = q

\* What a process brings is new to the rest, and nothing else will be accepted.
Private ==
    \A p \in Proc : Carrier(p) =>
        /\ Brought(p) \in Minted(grant)
        /\ ~Known(Brought(p))
        /\ \A c \in Chain : grant[c].holder \in {None, Brought(p)}

KnownMinted == \A t : Known(t) => t \in Minted(grant)

FileWhole == ~Garbled("tokens") /\ file["tokens"].fds = {}

TmpOwned ==
    /\ \A p \in tmp["tokens"].fds : p \in Proc /\ At(p, "write") /\ Target(p) = "tokens"
    /\ \A p \in Proc : Writing(p) =>
          tmp["tokens"] = IF At(p, "write") THEN Node("torn", None, {p})
                          ELSE Node("whole", job[p].reply, {})

Lonely == OneCarrier /\ Private /\ KnownMinted /\ FileWhole /\ TmpOwned

WriterInv == GrantShape /\ (OneGrant => Lonely)

LEMMA MintedOf ==
    ASSUME NEW g, NEW t
    PROVE  t \in Minted(g) <=> t # None /\ \E c \in Chain : t \in g[c].past \/ t = g[c].holder
<1> DEFINE All == UNION {g[c].past \cup {g[c].holder} : c \in Chain}
<1>1. ASSUME NEW d \in Chain, t \in g[d].past \/ t = g[d].holder
      PROVE  t \in All
  BY <1>1
<1>2. ASSUME t \in All
      PROVE  \E c \in Chain : t \in g[c].past \/ t = g[c].holder
  BY <1>2
<1>3. Minted(g) = All \ {None}
  BY DEF Minted
<1> HIDE DEF All
<1> QED
  BY <1>1, <1>2, <1>3

LEMMA WriterInvImplies == TypeInv /\ WriterInv => NeverTorn
<1> SUFFICES ASSUME TypeInv, WriterInv, OneGrant PROVE SoleWriter /\ ~Garbled("tokens")
  BY DEF NeverTorn
<1>1. \A p \in Proc : Writing(p) => Carrier(p)
  BY TargetFits DEF Writing, Carrier
<1> QED
  BY <1>1 DEF WriterInv, Lonely, OneCarrier, FileWhole, SoleWriter

LEMMA InitialPositions ==
    ASSUME Init, NEW p \in Proc
    PROVE  job[p].pc \notin {"sent", "answered", "write", "rename"}
<1>1. PICK c \in Command, v \in Validates \cup {<<>>} : job[p] = NewJob(c, v)
  BY DEF Init
<1>2. job[p].pc = Entry(c)
  BY <1>1 DEF NewJob
<1>3. Entry(c) \in {"register", "auth", "reload", "get", "status"}
  BY CommandAssumption DEF Entry
<1> QED
  BY <1>2, <1>3

LEMMA WriterInit == Init => WriterInv
<1> SUFFICES ASSUME Init PROVE WriterInv
  OBVIOUS
<1>1. TypeInv
  BY TypeInit
<1>2. \A p \in Proc : job[p].pc \notin {"sent", "answered", "write", "rename"}
  BY InitialPositions
<1>3. late = {} /\ tmp["tokens"] = Absent
  BY DEF Init, Files
<1>4. GrantShape /\ KnownMinted /\ FileWhole
  <2>1. CASE Empty
    <3>1. file["tokens"] = Absent /\ \A c \in Chain : grant[c] = Unborn
      BY <2>1 DEF Empty, Files
    <3> QED
      BY <1>2, <1>3, <3>1
         DEF GrantShape, KnownMinted, FileWhole, Known, Readable, Garbled, Absent, Node, Asking
  <2>2. CASE Provisioned
    <3> DEFINE t == Draw(Token)
               c == Draw(Chain)
    <3>1. t \in Token /\ c \in Chain
      BY DrawnFrom, ServerAssumption
    <3>2. /\ grant = [d \in Chain |-> IF d = c THEN Opened(t) ELSE Unborn]
          /\ file["tokens"] = Node("whole", Saved(TokenPair(t), 0), {})
      BY <2>2 DEF Provisioned, Files
    <3>3. Saved(TokenPair(t), 0).refresh = t
      BY DEF Saved, TokenPair
    <3> HIDE DEF t, c
    <3>4. t \in Minted(grant)
      <4>1. grant[c].holder = t
        BY <3>1, <3>2 DEF Opened
      <4> QED
        BY <3>1, <4>1, MintedOf, NoneAssumption
    <3>5. GrantShape
      BY <3>2 DEF GrantShape, Opened
    <3>6. FileWhole
      BY <3>2 DEF FileWhole, Garbled, Node
    <3>7. KnownMinted
      <4>1. file["tokens"].text.refresh = t
        BY <3>2, <3>3 DEF Node
      <4> QED
        BY <1>2, <1>3, <3>4, <4>1 DEF KnownMinted, Known, Asking
    <3> QED
      BY <3>5, <3>6, <3>7
  <2> QED
    BY <2>1, <2>2 DEF Init
<1>5. OneCarrier /\ Private
  BY <1>2 DEF OneCarrier, Private, Carrier
<1>6. TmpOwned
  BY <1>2, <1>3 DEF TmpOwned, Absent, Node, Writing
<1> QED
  BY <1>4, <1>5, <1>6 DEF WriterInv, Lonely

-----------------------------------------------------------------------------
(* What a request does to the tokens the server accepts.                    *)

HoldersKept == \A c \in Chain : grant'[c].holder \in {None, grant[c].holder}

\* Chain c has a new holder, never seen before; the others are as they were.
HasNewHolder(c) ==
    /\ Unseen # {} /\ Draw(Unseen) \in Token
    /\ grant'[c].holder = Draw(Unseen) /\ grant'[c].phase # "unborn"
    /\ \A d \in Chain \ {c} : grant'[d] = grant[d]

Moves(q, answer) ==
    \/ HoldersKept /\ (q.kind = "register" \/ ~answer.ok)
    \/ /\ q.kind = "refresh"
       /\ \E c \in Chain : q.token = grant[c].holder /\ HasNewHolder(c)
       /\ answer = Error \/ answer = TokenPair(Draw(Unseen))
    \/ /\ q.kind = "code"
       /\ \E c \in Chain : grant[c] = Unborn /\ HasNewHolder(c)
       /\ answer = TokenPair(Draw(Unseen))

\* Tokens stay minted, chains stay opened.
Grows ==
    /\ GrantShape'
    /\ \A c \in Chain : grant[c].phase # "unborn" => grant'[c].phase # "unborn"
    /\ \A t : t \in Minted(grant) => t \in Minted(grant')

LEMMA SameGrows ==
    ASSUME GrantShape, grant' = grant
    PROVE  Grows /\ HoldersKept
BY DEF Grows, HoldersKept, GrantShape

\* A change of one chain that forgets none of its tokens.
LEMMA ChainGrows ==
    ASSUME ServerTypes, GrantShape, NEW c \in Chain, NEW g \in Grant,
           grant' = [grant EXCEPT ![c] = g],
           g.phase # "unborn",
           \A t : t # None /\ (t \in grant[c].past \/ t = grant[c].holder)
                    => t \in g.past \/ t = g.holder
    PROVE  Grows /\ grant'[c] = g /\ \A d \in Chain \ {c} : grant'[d] = grant[d]
<1>1. grant'[c] = g /\ \A d \in Chain \ {c} : grant'[d] = grant[d]
  BY DEF ServerTypes
<1>2. GrantShape'
  BY <1>1 DEF GrantShape
<1>3. \A d \in Chain : grant[d].phase # "unborn" => grant'[d].phase # "unborn"
  BY <1>1
<1>4. ASSUME NEW t, t \in Minted(grant) PROVE t \in Minted(grant')
  <2>1. PICK d \in Chain : t \in grant[d].past \/ t = grant[d].holder
    BY <1>4, MintedOf
  <2>2. t # None
    BY <1>4, MintedOf
  <2>3. t \in grant'[d].past \/ t = grant'[d].holder
    BY <1>1, <2>1, <2>2
  <2> QED
    BY <2>2, <2>3, MintedOf
<1> QED
  BY <1>1, <1>2, <1>3, <1>4 DEF Grows

LEMMA RotationMoves ==
    ASSUME ServerTypes, GrantShape, NEW c \in Chain, grant[c].holder \in Token,
           Unseen # {}, Rotation(c)
    PROVE  Grows /\ HasNewHolder(c)
<1> DEFINE g == [grant[c] EXCEPT !.holder = Draw(Unseen), !.past = @ \cup {grant[c].holder}]
<1>1. Draw(Unseen) \in Token
  BY DrawnFrom, UnseenTokens
<1>2. grant[c] \in Grant
  BY DEF ServerTypes
<1>3. /\ g \in Grant /\ g.holder = Draw(Unseen) /\ g.phase = grant[c].phase
      /\ g.past = grant[c].past \cup {grant[c].holder}
  BY <1>1, <1>2 DEF Grant
<1>4. grant' = [grant EXCEPT ![c] = g]
  BY <1>2 DEF Rotation, ServerTypes, Grant
<1>5. grant[c].phase # "unborn"
  BY NoneAssumption DEF GrantShape, Unborn
<1> HIDE DEF g
<1> QED
  BY <1>1, <1>3, <1>4, <1>5, ChainGrows DEF HasNewHolder

LEMMA RevocationMoves ==
    ASSUME ServerTypes, GrantShape, NEW c \in Chain, Revocation(c)
    PROVE  Grows /\ HoldersKept
<1> DEFINE g == [phase |-> "dead", holder |-> None,
                 past |-> (grant[c].past \cup {grant[c].holder}) \ {None}]
<1>1. grant[c] \in Grant
  BY DEF ServerTypes
<1>2. g \in Grant /\ g.phase = "dead" /\ g.holder = None
      /\ g.past = (grant[c].past \cup {grant[c].holder}) \ {None}
  BY <1>1 DEF Grant
<1>3. grant' = [grant EXCEPT ![c] = g]
  BY DEF Revocation, ServerTypes
<1> HIDE DEF g
<1>4. \A t : t # None /\ (t \in grant[c].past \/ t = grant[c].holder)
              => t \in g.past \/ t = g.holder
  BY <1>2
<1>5. Grows /\ grant'[c] = g /\ \A d \in Chain \ {c} : grant'[d] = grant[d]
  BY <1>2, <1>3, <1>4, ChainGrows
<1> QED
  BY <1>2, <1>5 DEF HoldersKept

LEMMA StrandingMoves ==
    ASSUME ServerTypes, GrantShape, NEW c \in Chain, grant[c].holder \in Token, Stranding(c)
    PROVE  Grows /\ HoldersKept
<1> DEFINE g == [phase |-> "stranded", holder |-> None,
                 past |-> grant[c].past \cup {grant[c].holder}]
<1>1. grant[c] \in Grant
  BY DEF ServerTypes
<1>2. g \in Grant /\ g.phase = "stranded" /\ g.holder = None
      /\ g.past = grant[c].past \cup {grant[c].holder}
  BY <1>1 DEF Grant
<1>3. grant' = [grant EXCEPT ![c] = g]
  BY DEF Stranding, ServerTypes
<1> HIDE DEF g
<1>4. \A t : t # None /\ (t \in grant[c].past \/ t = grant[c].holder)
              => t \in g.past \/ t = g.holder
  BY <1>2
<1>5. Grows /\ grant'[c] = g /\ \A d \in Chain \ {c} : grant'[d] = grant[d]
  BY <1>2, <1>3, <1>4, ChainGrows
<1> QED
  BY <1>2, <1>5 DEF HoldersKept

LEMMA ServerMoves ==
    ASSUME ServerTypes, GrantShape, NEW q \in Wire, NEW answer \in Answers,
           Handles(q, answer) \/ Breaks(q, answer)
    PROVE  Grows /\ Moves(q, answer)
<1>1. ~Error.ok
  BY DEF Error
<1>2. CASE q.kind = "register" /\ Registers(answer)
  BY <1>2, SameGrows DEF Registers, Moves
<1>3. CASE q.kind = "code" /\ Grants(q, answer)
  <2> DEFINE c == Draw(UnbornChains)
             t == Draw(Unseen)
  <2>1. c \in Chain /\ t \in Token /\ grant[c] = Unborn /\ Unseen # {}
    BY <1>3, DrawnFrom, UnseenTokens DEF Grants, UnbornChains
  <2>2. Opened(t) \in Grant /\ Opened(t).phase # "unborn" /\ Opened(t).holder = t
    BY <2>1 DEF Opened, Grant
  <2>3. grant' = [grant EXCEPT ![c] = Opened(t)] /\ answer = TokenPair(t)
    BY <1>3 DEF Grants
  <2> HIDE DEF c, t
  <2>4. \A u : ~(u # None /\ (u \in grant[c].past \/ u = grant[c].holder))
    BY <2>1 DEF Unborn
  <2>5. Grows /\ grant'[c] = Opened(t) /\ \A d \in Chain \ {c} : grant'[d] = grant[d]
    BY <2>1, <2>2, <2>3, <2>4, ChainGrows
  <2> QED
    BY <1>3, <2>1, <2>2, <2>3, <2>5 DEF Moves, HasNewHolder, t
<1>4. CASE q.kind = "refresh" /\ Rotates(q, answer)
  <2>1. PICK c \in Chain : Spendable(q, c) /\ Unseen # {} /\ Rotation(c)
                           /\ answer = TokenPair(Draw(Unseen))
    BY <1>4 DEF Rotates
  <2>2. q.token = grant[c].holder /\ grant[c].holder \in Token
    BY <1>4, <2>1, Asked DEF Spendable
  <2> QED
    BY <1>4, <2>1, <2>2, RotationMoves DEF Moves
<1>5. CASE Refuses(q, answer)
  BY <1>1, <1>5, SameGrows, RevocationMoves DEF Refuses, Moves
<1>6. CASE Breaks(q, answer)
  <2>1. answer = Error
    BY <1>6 DEF Breaks
  <2>2. CASE UNCHANGED grant
    BY <1>1, <2>1, <2>2, SameGrows DEF Moves
  <2>3. ASSUME NEW c \in Chain, q.kind = "refresh", Spendable(q, c),
               (Unseen # {} /\ Rotation(c)) \/ Stranding(c)
        PROVE  Grows /\ Moves(q, answer)
    <3>1. q.token = grant[c].holder /\ grant[c].holder \in Token
      BY <2>3, Asked DEF Spendable
    <3> QED
      BY <1>1, <2>1, <2>3, <3>1, RotationMoves, StrandingMoves DEF Moves
  <2> QED
    BY <1>6, <2>2, <2>3 DEF Breaks
<1> QED
  BY <1>2, <1>3, <1>4, <1>5, <1>6 DEF Handles

-----------------------------------------------------------------------------
(* Steps that bring no new pair.                                            *)

LEMMA WriterCarries ==
    ASSUME NEW p \in Proc, Writing(p)
    PROVE  Carrier(p)
BY TargetFits DEF Writing, Carrier

LEMMA OneGrantBefore ==
    ASSUME Grows, OneGrant'
    PROVE  OneGrant
BY DEF Grows, OneGrant

\* Nothing becomes known, nobody becomes a carrier.
LEMMA NothingNew ==
    ASSUME WriterInv, Grows,
           HoldersKept \/ (OneGrant => \A p \in Proc : ~Carrier(p)),
           \A p \in Proc : Carrier(p)' => Carrier(p) /\ job'[p] = job[p],
           Lonely => \A t : Known(t)' => Known(t),
           Lonely => file'["tokens"] = file["tokens"],
           Lonely => \/ tmp'["tokens"] = tmp["tokens"] /\ \A p \in Proc : Writing(p) => job'[p] = job[p]
                     \/ tmp'["tokens"].fds = {} /\ \A p \in Proc : ~Carrier(p)'
    PROVE  WriterInv'
<1>1. GrantShape'
  BY DEF Grows
<1> SUFFICES ASSUME OneGrant' PROVE Lonely'
  BY <1>1 DEF WriterInv
<1>2. OneGrant /\ Lonely
  BY OneGrantBefore DEF WriterInv
<1>3. OneCarrier'
  BY <1>2 DEF Lonely, OneCarrier
<1>4. Private'
  <2> SUFFICES ASSUME NEW p \in Proc, Carrier(p)'
               PROVE  /\ Brought(p)' \in Minted(grant)'
                      /\ ~Known(Brought(p))'
                      /\ \A c \in Chain : grant'[c].holder \in {None, Brought(p)'}
    BY DEF Private
  <2>1. Carrier(p) /\ Brought(p)' = Brought(p)
    BY DEF Brought
  <2>2. /\ Brought(p) \in Minted(grant) /\ ~Known(Brought(p))
        /\ \A c \in Chain : grant[c].holder \in {None, Brought(p)}
    BY <1>2, <2>1 DEF Lonely, Private
  <2>3. HoldersKept
    BY <1>2, <2>1
  <2>4. Brought(p) \in Minted(grant')
    BY <2>2 DEF Grows
  <2>5. \A c \in Chain : grant'[c].holder \in {None, Brought(p)}
    BY <2>2, <2>3 DEF HoldersKept
  <2>6. Minted(grant)' = Minted(grant')
    BY DEF Minted
  <2>7. ~Known(Brought(p))'
    <3> DEFINE t == Brought(p)
    <3>1. ~Known(t)
      BY <2>2
    <3>2. Known(Brought(p))' <=> \/ Readable("tokens")' /\ Brought(p)' = file'["tokens"].text.refresh
                                 \/ \E r \in Proc : Asking(r)' /\ Brought(p)' = job'[r].wire.token
                                 \/ \E q \in late' : Brought(p)' = q.token
      BY DEF Known
    <3>3. ~ \/ Readable("tokens")' /\ t = file'["tokens"].text.refresh
            \/ \E r \in Proc : Asking(r)' /\ t = job'[r].wire.token
            \/ \E q \in late' : t = q.token
      BY <1>2, <3>1 DEF Known
    <3> HIDE DEF t
    <3> QED
      BY <2>1, <3>2, <3>3 DEF t
  <2> QED
    BY <2>1, <2>4, <2>5, <2>6, <2>7
<1>5. KnownMinted'
  <2>1. Minted(grant)' = Minted(grant')
    BY DEF Minted
  <2> QED
    BY <1>2, <2>1 DEF Lonely, KnownMinted, Grows
<1>6. FileWhole'
  BY <1>2 DEF Lonely, FileWhole, Garbled
<1>7. TmpOwned'
  <2>1. \A p \in Proc : Writing(p)' => Carrier(p)'
    BY DEF Writing, Carrier, Target
  <2>2. CASE tmp'["tokens"] = tmp["tokens"] /\ \A p \in Proc : Writing(p) => job'[p] = job[p]
    <3>1. \A p \in tmp["tokens"].fds : p \in Proc /\ Writing(p) /\ At(p, "write") /\ Target(p) = "tokens"
      BY <1>2 DEF Lonely, TmpOwned, Writing, At
    <3>2. \A p \in tmp'["tokens"].fds : p \in Proc /\ At(p, "write")' /\ Target(p)' = "tokens"
      BY <2>2, <3>1 DEF At, Target
    <3>3. \A p \in Proc : Writing(p)' => job'[p] = job[p] /\ Writing(p)
      BY <2>1 DEF Writing, Target
    <3> QED
      BY <1>2, <2>2, <3>2, <3>3 DEF Lonely, TmpOwned, At
  <2>3. CASE tmp'["tokens"].fds = {} /\ \A p \in Proc : ~Carrier(p)'
    BY <2>1, <2>3 DEF TmpOwned
  <2> QED
    BY <1>2, <2>2, <2>3
<1> QED
  BY <1>3, <1>4, <1>5, <1>6, <1>7 DEF Lonely

\* A process that writes no tokens goes on and neither brings nor asks anything
\* new.
LEMMA Bystander ==
    ASSUME WriterInv, NEW p \in Proc, ~Writing(p), ~Carrier(p)',
           Asking(p)' => Known(job'[p].wire.token),
           \A q \in Proc \ {p} : job'[q] = job[q],
           grant' = grant, late' = late,
           file'["tokens"] = file["tokens"], tmp'["tokens"] = tmp["tokens"]
    PROVE  WriterInv'
<1>1. Grows /\ HoldersKept
  BY SameGrows DEF WriterInv
<1>2. \A q \in Proc : Carrier(q)' => Carrier(q) /\ job'[q] = job[q]
  BY DEF Carrier
<1>3. ASSUME NEW t, Known(t)' PROVE Known(t)
  <2>1. CASE \E q \in Proc : Asking(q)' /\ t = job'[q].wire.token
    <3>1. PICK q \in Proc : Asking(q)' /\ t = job'[q].wire.token
      BY <2>1
    <3>2. CASE q = p
      BY <3>1, <3>2
    <3>3. CASE q # p
      <4>1. job'[q] = job[q]
        BY <3>3
      <4> QED
        BY <3>1, <4>1 DEF Known, Asking
    <3> QED
      BY <3>2, <3>3
  <2>2. CASE Readable("tokens")' /\ t = file'["tokens"].text.refresh
    BY <2>2 DEF Known, Readable
  <2>3. CASE \E q \in late' : t = q.token
    BY <2>3 DEF Known
  <2> QED
    BY <1>3, <2>1, <2>2, <2>3 DEF Known
<1>4. \A q \in Proc : Writing(q) => job'[q] = job[q]
  OBVIOUS
<1> QED
  BY <1>1, <1>2, <1>3, <1>4, NothingNew

\* Likewise, where the step ends the process or takes it elsewhere.
LEMMA GoesElsewhere ==
    ASSUME TypeInv, WriterInv, NEW p \in Proc, ~Writing(p),
           job'[p].pc \notin {"sent", "answered", "write", "rename"},
           \A q \in Proc \ {p} : job'[q] = job[q],
           grant' = grant, late' = late,
           file'["tokens"] = file["tokens"], tmp'["tokens"] = tmp["tokens"]
    PROVE  WriterInv'
BY Bystander DEF Carrier, Asking

\* A process that registers has nothing to do with tokens.
LEMMA Registrant ==
    ASSUME WriterInv, TypeInv', NEW p \in Proc, job[p].cmd = "register", job'[p].cmd = "register",
           \A q \in Proc \ {p} : job'[q] = job[q],
           grant' = grant, late' = late,
           file'["tokens"] = file["tokens"], tmp'["tokens"] = tmp["tokens"]
    PROVE  WriterInv'
<1>1. ~Writing(p) /\ ~Carrier(p)'
  BY DEF Writing, Target, Carrier
<1>2. ~Asking(p)'
  <2>1. Carried(job'[p])
    BY DEF TypeInv, JobTypes, Fit
  <2> QED
    BY <2>1 DEF Asking, Carried
<1> QED
  BY <1>1, <1>2, Bystander

LEMMA WriterExits ==
    ASSUME TypeInv, WriterInv, NEW p \in Proc, NEW code \in 0 .. 3, Exits(p, code), ~Writing(p),
           UNCHANGED <<serverVars, diskVars, late>>
    PROVE  WriterInv'
<1>1. job'[p].pc = "done" /\ \A q \in Proc \ {p} : job'[q] = job[q]
  BY ExitsFit DEF TypeInv
<1> QED
  BY <1>1, GoesElsewhere DEF serverVars, diskVars

LEMMA NotWritingAt ==
    ASSUME NEW p, NEW l, At(p, l), l \notin {"write", "rename"}
    PROVE  ~Writing(p)
BY DEF At, Writing

LEMMA WriterRegister ==
    ASSUME TypeInv, WriterInv, NEW p \in Proc, Register(p)
    PROVE  WriterInv'
<1>1. At(p, "register") /\ UNCHANGED <<serverVars, diskVars, late>>
  BY DEF Register
<1>2. ~Writing(p)
  BY <1>1, NotWritingAt
<1>3. CASE GoTo(p, "post")
  <2>1. job'[p].pc = "post" /\ \A q \in Proc \ {p} : job'[q] = job[q]
    BY <1>1, <1>3, GoToFits DEF TypeInv
  <2> QED
    BY <1>1, <1>2, <2>1, GoesElsewhere DEF serverVars, diskVars
<1> QED
  BY <1>1, <1>2, <1>3, WriterExits, CodesFit DEF Register

LEMMA WriterPost ==
    ASSUME TypeInv, WriterInv, NEW p \in Proc, Post(p)
    PROVE  WriterInv'
<1> DEFINE q == [kind |-> "register", since |-> clock]
<1>1. q \in Wire /\ q.kind = "register"
  BY DEF Wire, TypeInv, ServerTypes
<1> HIDE DEF q
<1>2. Sends(p, q, None) /\ At(p, "post")
  BY DEF Post, q
<1>3. job'[p].pc = "sent" /\ job'[p].wire = q /\ \A r \in Proc \ {p} : job'[r] = job[r]
  BY <1>1, <1>2, SendsFits DEF TypeInv
<1>4. ~Writing(p) /\ ~Carrier(p)' /\ ~Asking(p)'
  BY <1>1, <1>2, <1>3, NotWritingAt DEF Carrier, Asking
<1> QED
  BY <1>3, <1>4, Bystander DEF Post, Quiet, serverVars, diskVars

LEMMA WriterListen ==
    ASSUME TypeInv, WriterInv, NEW p \in Proc, Listen(p)
    PROVE  WriterInv'
<1>1. At(p, "auth") /\ UNCHANGED <<serverVars, diskVars, late>>
  BY DEF Listen
<1>2. ~Writing(p)
  BY <1>1, NotWritingAt
<1>3. CASE Becomes(p, [job[p] EXCEPT !.pc = "listen", !.meta = Meta(p)])
  <2>1. job'[p] = [job[p] EXCEPT !.pc = "listen", !.meta = Meta(p)]
        /\ \A q \in Proc \ {p} : job'[q] = job[q]
    BY <1>3 DEF Becomes, TypeInv, JobTypes
  <2>2. job'[p].pc = "listen"
    BY <2>1 DEF TypeInv, JobTypes, Job
  <2> QED
    BY <1>1, <1>2, <2>1, <2>2, GoesElsewhere DEF serverVars, diskVars
<1> QED
  BY <1>1, <1>2, <1>3, WriterExits, CodesFit DEF Listen

LEMMA WriterCallback ==
    ASSUME TypeInv, WriterInv, NEW p \in Proc, Callback(p)
    PROVE  WriterInv'
<1> DEFINE q == [kind |-> "code", client |-> job[p].meta, since |-> clock]
<1>1. job[p].meta \in ClientId
  BY DEF Callback, At, TypeInv, JobTypes, Fit, Placed
<1>2. q \in Wire /\ q.kind = "code"
  BY <1>1 DEF Wire, TypeInv, ServerTypes
<1> HIDE DEF q
<1>3. Sends(p, q, job[p].meta) /\ At(p, "listen")
  BY DEF Callback, q
<1>4. job'[p].pc = "sent" /\ job'[p].wire = q /\ \A r \in Proc \ {p} : job'[r] = job[r]
  BY <1>1, <1>2, <1>3, SendsFits DEF TypeInv
<1>5. ~Writing(p) /\ ~Carrier(p)' /\ ~Asking(p)'
  BY <1>2, <1>3, <1>4, NotWritingAt DEF Carrier, Asking
<1> QED
  BY <1>4, <1>5, Bystander DEF Callback, serverVars, diskVars

LEMMA WriterNoCallback ==
    ASSUME TypeInv, WriterInv, NEW p \in Proc, NoCallback(p)
    PROVE  WriterInv'
<1>1. At(p, "listen")
  BY DEF NoCallback
<1> QED
  BY <1>1, NotWritingAt, WriterExits DEF NoCallback

LEMMA WriterGetAccessToken ==
    ASSUME TypeInv, WriterInv, NEW p \in Proc, GetAccessToken(p)
    PROVE  WriterInv'
<1>1. At(p, "get") /\ UNCHANGED <<serverVars, diskVars, late>>
  BY DEF GetAccessToken, Quiet
<1>2. ~Writing(p)
  BY <1>1, NotWritingAt
<1>3. CASE Readable("tokens") /\ Obtained(p, file["tokens"].text.access)
  <2>1. file["tokens"].text.access \in Access
    BY <1>3, TokensFit DEF TypeInv, Pair
  <2>2. /\ job'[p].pc \in {"done", "status", "call", "get"}
        /\ \A q \in Proc \ {p} : job'[q] = job[q]
    BY <1>1, <1>3, <2>1, ObtainedFits DEF TypeInv
  <2> QED
    BY <1>1, <1>2, <2>2, GoesElsewhere DEF serverVars, diskVars
<1>4. CASE GoTo(p, "reload")
  <2>1. job'[p].pc = "reload" /\ \A q \in Proc \ {p} : job'[q] = job[q]
    BY <1>1, <1>4, GoToFits DEF TypeInv
  <2> QED
    BY <1>1, <1>2, <2>1, GoesElsewhere DEF serverVars, diskVars
<1> QED
  BY <1>1, <1>2, <1>3, <1>4, WriterExits, CodesFit DEF GetAccessToken

LEMMA WriterRefresh ==
    ASSUME TypeInv, WriterInv, NEW p \in Proc, Refresh(p)
    PROVE  WriterInv'
<1>1. At(p, "reload") /\ UNCHANGED <<serverVars, diskVars, late>>
  BY DEF Refresh
<1>2. ~Writing(p)
  BY <1>1, NotWritingAt
<1>3. CASE /\ Readable("tokens") /\ HasMeta(p)
           /\ Sends(p, [kind |-> "refresh", token |-> file["tokens"].text.refresh,
                       client |-> Meta(p), since |-> clock], Meta(p))
  <2> DEFINE q == [kind |-> "refresh", token |-> file["tokens"].text.refresh,
                       client |-> Meta(p), since |-> clock]
  <2>1. Meta(p) \in ClientId /\ file["tokens"].text.refresh \in Token
    BY <1>3, MetaFits, TokensFit DEF TypeInv, Pair
  <2>2. q \in Wire /\ q.kind # "register" /\ q.token = file["tokens"].text.refresh
    BY <2>1 DEF Wire, TypeInv, ServerTypes
  <2> HIDE DEF q
  <2>3. Sends(p, q, Meta(p))
    BY <1>3 DEF q
  <2>4. job'[p].pc = "sent" /\ job'[p].wire = q /\ \A r \in Proc \ {p} : job'[r] = job[r]
    BY <1>1, <2>1, <2>2, <2>3, SendsFits DEF TypeInv
  <2>5. ~Carrier(p)' /\ Known(job'[p].wire.token)
    BY <1>3, <2>2, <2>4 DEF Carrier, Known
  <2> QED
    BY <1>1, <1>2, <2>4, <2>5, Bystander DEF serverVars, diskVars
<1> QED
  BY <1>1, <1>2, <1>3, WriterExits, CodesFit DEF Refresh

LEMMA WriterStatus ==
    ASSUME TypeInv, WriterInv, NEW p \in Proc, Status(p)
    PROVE  WriterInv'
<1>1. At(p, "status") /\ UNCHANGED <<serverVars, diskVars, late>>
  BY DEF Status, Quiet
<1>2. ~Writing(p)
  BY <1>1, NotWritingAt
<1>3. CASE Becomes(p, [job[p] EXCEPT !.pc = "get", !.then = "call", !.meta = Meta(p)])
  <2>1. job'[p].pc = "get" /\ \A q \in Proc \ {p} : job'[q] = job[q]
    BY <1>3 DEF Becomes, TypeInv, JobTypes, Job
  <2> QED
    BY <1>1, <1>2, <2>1, GoesElsewhere DEF serverVars, diskVars
<1> QED
  BY <1>1, <1>2, <1>3, WriterExits, CodesFit DEF Status

LEMMA WriterCall ==
    ASSUME TypeInv, WriterInv, NEW p \in Proc, Call(p)
    PROVE  WriterInv'
<1>1. At(p, "call") /\ UNCHANGED <<serverVars, diskVars, late>>
  BY DEF Call, Quiet
<1>2. ~Writing(p)
  BY <1>1, NotWritingAt
<1>3. CASE Recovers(p)
  <2>1. job'[p].pc = "reload" /\ \A q \in Proc \ {p} : job'[q] = job[q]
    BY <1>3 DEF Recovers, Becomes, TypeInv, JobTypes, Job
  <2> QED
    BY <1>1, <1>2, <2>1, GoesElsewhere DEF serverVars, diskVars
<1>4. ASSUME NEW payload \in Payload, Passed(p, payload)
      PROVE  WriterInv'
  <2>1. job'[p].pc \in {"compare", "get"} /\ \A q \in Proc \ {p} : job'[q] = job[q]
    BY <1>4 DEF Passed, Becomes, TypeInv, JobTypes, Job
  <2> QED
    BY <1>1, <1>2, <2>1, GoesElsewhere DEF serverVars, diskVars
<1> QED
  BY <1>1, <1>2, <1>3, <1>4, WriterExits DEF Call

LEMMA WriterCompare ==
    ASSUME TypeInv, WriterInv, NEW p \in Proc, Compare(p)
    PROVE  WriterInv'
<1>1. At(p, "compare") /\ UNCHANGED <<serverVars, diskVars, late>>
  BY DEF Compare, Quiet
<1> QED
  BY <1>1, NotWritingAt, WriterExits DEF Compare

LEMMA WriterRefused ==
    ASSUME TypeInv, WriterInv, NEW p \in Proc, Refused(p)
    PROVE  WriterInv'
<1>1. At(p, "answered") /\ UNCHANGED <<serverVars, diskVars, late>>
  BY DEF Refused, Quiet
<1> QED
  BY <1>1, NotWritingAt, WriterExits, CodesFit DEF Refused

-----------------------------------------------------------------------------
(* The server answers.                                                      *)

\* Who brings a pair keeps others from asking with a token that is accepted.
LEMMA NobodyBrings ==
    ASSUME WriterInv, OneGrant, NEW c \in Chain, grant[c].holder # None, Known(grant[c].holder)
    PROVE  \A p \in Proc : ~Carrier(p)
<1> SUFFICES ASSUME NEW p \in Proc, Carrier(p) PROVE FALSE
  OBVIOUS
<1>1. ~Known(Brought(p)) /\ grant[c].holder \in {None, Brought(p)}
  BY DEF WriterInv, Lonely, Private
<1> QED
  BY <1>1

\* The first chain is opened: there were no tokens before.
LEMMA NobodyBroughtYet ==
    ASSUME WriterInv, Grows, OneGrant', NEW c \in Chain, grant[c] = Unborn, HasNewHolder(c)
    PROVE  \A p \in Proc : ~Carrier(p)
<1>1. OneGrant
  BY OneGrantBefore
<1>2. \A d \in Chain : grant[d] = Unborn
  BY DEF Grows, OneGrant, HasNewHolder, WriterInv, GrantShape
<1>3. \A t : t \notin Minted(grant)
  BY <1>2, MintedOf DEF Unborn
<1> QED
  BY <1>1, <1>3 DEF WriterInv, Lonely, Private

\* A process that has been given a pair brings it, alone.
LEMMA GivenAPair ==
    ASSUME TypeInv, WriterInv, Grows, NEW p \in Proc, NEW c \in Chain, HasNewHolder(c),
           OneGrant' => \A q \in Proc : ~Carrier(q),
           job'[p].pc = "answered", job'[p].reply.refresh = Draw(Unseen),
           \A q \in Proc \ {p} : job'[q] = job[q],
           \A t : Known(t)' => Known(t),
           UNCHANGED <<file, tmp>>
    PROVE  WriterInv'
<1>1. GrantShape'
  BY DEF Grows
<1> SUFFICES ASSUME OneGrant' PROVE Lonely'
  BY <1>1 DEF WriterInv
<1>2. OneGrant /\ Lonely /\ \A q \in Proc : ~Carrier(q)
  BY OneGrantBefore DEF WriterInv
<1>3. \A q \in Proc : Carrier(q)' => q = p
  BY <1>2 DEF Carrier
<1>4. OneCarrier'
  BY <1>3 DEF OneCarrier
<1> DEFINE t == Draw(Unseen)
<1>5. t \in Token /\ t \notin Minted(grant) /\ grant'[c].holder = t
  <2>1. t \in Unseen
    BY DrawnFrom DEF HasNewHolder
  <2> QED
    BY <2>1 DEF Unseen, HasNewHolder
<1> HIDE DEF t
<1>6. Minted(grant)' = Minted(grant')
  BY DEF Minted
<1>7. t \in Minted(grant')
  BY <1>5, MintedOf, NoneAssumption
<1>8. \A d \in Chain : grant'[d].holder \in {None, t}
  <2>1. \A d \in Chain \ {c} : grant'[d] = Unborn
    BY <1>1 DEF OneGrant, HasNewHolder, GrantShape
  <2> QED
    BY <1>5, <2>1 DEF Unborn
<1>9. Brought(p)' = t
  BY DEF Brought, t
<1>10. ~Known(t)
  BY <1>2, <1>5 DEF Lonely, KnownMinted
<1>11. ~Known(Brought(p))'
  <2>1. Known(Brought(p))' <=> \/ Readable("tokens")' /\ Brought(p)' = file'["tokens"].text.refresh
                               \/ \E r \in Proc : Asking(r)' /\ Brought(p)' = job'[r].wire.token
                               \/ \E q \in late' : Brought(p)' = q.token
    BY DEF Known
  <2>2. ~ \/ Readable("tokens")' /\ t = file'["tokens"].text.refresh
          \/ \E r \in Proc : Asking(r)' /\ t = job'[r].wire.token
          \/ \E q \in late' : t = q.token
    BY <1>10 DEF Known
  <2> QED
    BY <1>9, <2>1, <2>2
<1>12. Private'
  BY <1>3, <1>6, <1>7, <1>8, <1>9, <1>11 DEF Private
<1>13. KnownMinted'
  BY <1>2, <1>6 DEF Lonely, KnownMinted, Grows
<1>14. FileWhole'
  BY <1>2 DEF Lonely, FileWhole, Garbled
<1>15. TmpOwned'
  <2>1. tmp["tokens"].fds = {}
    BY <1>2, WriterCarries DEF Lonely, TmpOwned, Writing, At
  <2>2. \A q \in Proc : ~Writing(q)'
    BY <1>2, <1>3, WriterCarries DEF Writing, Target
  <2> QED
    BY <2>1, <2>2 DEF TmpOwned
<1> QED
  BY <1>4, <1>12, <1>13, <1>14, <1>15 DEF Lonely

LEMMA WriterServe ==
    ASSUME TypeInv, WriterInv, NEW p \in Proc, Serve(p)
    PROVE  WriterInv'
<1> DEFINE q == job[p].wire
<1>1. PICK answer \in Answers :
         /\ Handles(q, answer) \/ Breaks(q, answer)
         /\ Becomes(p, [job[p] EXCEPT !.pc = "answered", !.reply = answer])
  BY DEF Serve
<1>2. /\ job[p].pc = "sent" /\ q \in Wire
      /\ q.kind = "register" <=> job[p].cmd = "register"
  BY DEF Serve, At, TypeInv, JobTypes, Fit, Carried
<1>3. /\ job'[p].pc = "answered" /\ job'[p].reply = answer /\ job'[p].cmd = job[p].cmd
      /\ \A r \in Proc \ {p} : job'[r] = job[r]
  BY <1>1 DEF Becomes, TypeInv, JobTypes, Job
<1>4. Grows /\ Moves(q, answer)
  BY <1>1, <1>2, ServerMoves DEF TypeInv, WriterInv
<1>5. UNCHANGED <<file, tmp, late>>
  BY DEF Serve, diskVars
<1> HIDE DEF q
<1>6. ASSUME NEW t, Known(t)' PROVE Known(t)
  <2>1. ~Asking(p)'
    BY <1>3 DEF Asking
  <2> QED
    BY <1>3, <1>5, <1>6, <2>1 DEF Known, Asking, Readable
<1>7. ASSUME ~Carrier(p)', HoldersKept \/ (OneGrant => \A r \in Proc : ~Carrier(r))
      PROVE  WriterInv'
  <2>1. \A r \in Proc : Carrier(r)' => Carrier(r) /\ job'[r] = job[r]
    BY <1>3, <1>7 DEF Carrier
  <2>2. \A r \in Proc : Writing(r) => job'[r] = job[r]
    BY <1>2, <1>3 DEF Writing
  <2> QED
    BY <1>4, <1>5, <1>6, <1>7, <2>1, <2>2, NothingNew
<1>8. CASE HoldersKept /\ (q.kind = "register" \/ ~answer.ok)
  <2>1. ~Carrier(p)'
    BY <1>2, <1>3, <1>8 DEF Carrier
  <2> QED
    BY <1>7, <1>8, <2>1
<1>9. CASE q.kind = "refresh" /\ \E c \in Chain : q.token = grant[c].holder /\ HasNewHolder(c)
  <2>1. PICK c \in Chain : q.token = grant[c].holder /\ HasNewHolder(c)
    BY <1>9
  <2>2. Known(q.token) /\ q.token \in Token
    BY <1>2, <1>9, Asked DEF Known, Asking, q
  <2>3. OneGrant => \A r \in Proc : ~Carrier(r)
    BY <2>1, <2>2, NobodyBrings, NoneAssumption
  <2>4. CASE answer = Error
    <3>1. ~Carrier(p)'
      BY <1>3, <2>4 DEF Carrier, Error
    <3> QED
      BY <1>7, <2>3, <3>1
  <2>5. CASE answer = TokenPair(Draw(Unseen))
    <3>1. job'[p].reply.refresh = Draw(Unseen)
      BY <1>3, <2>5 DEF TokenPair
    <3> QED
      BY <1>3, <1>4, <1>5, <1>6, <2>1, <2>3, <3>1, OneGrantBefore, GivenAPair
  <2> QED
    BY <1>4, <1>8, <1>9, <2>4, <2>5 DEF Moves
<1>10. CASE /\ \E c \in Chain : grant[c] = Unborn /\ HasNewHolder(c)
            /\ answer = TokenPair(Draw(Unseen))
  <2>1. PICK c \in Chain : grant[c] = Unborn /\ HasNewHolder(c)
    BY <1>10
  <2>2. job'[p].reply.refresh = Draw(Unseen)
    BY <1>3, <1>10 DEF TokenPair
  <2> QED
    BY <1>3, <1>4, <1>5, <1>6, <2>1, <2>2, NobodyBroughtYet, GivenAPair
<1> QED
  BY <1>4, <1>8, <1>9, <1>10 DEF Moves

LEMMA WriterServeLate ==
    ASSUME TypeInv, WriterInv, ServeLate
    PROVE  WriterInv'
<1>1. PICK q \in late : late' = late \ {q} /\ \E answer \in Answers : Handles(q, answer)
  BY DEF ServeLate
<1>2. q \in Wire /\ q.kind = "refresh" /\ q.token \in Token /\ Known(q.token)
  BY <1>1, RefreshIsWire DEF TypeInv, RefreshWire, Known
<1>3. PICK answer \in Answers : Handles(q, answer)
  BY <1>1
<1>4. Grows /\ Moves(q, answer)
  BY <1>2, <1>3, ServerMoves DEF TypeInv, WriterInv
<1>5. HoldersKept \/ (OneGrant => \A r \in Proc : ~Carrier(r))
  <2>1. ASSUME NEW c \in Chain, q.token = grant[c].holder, OneGrant
        PROVE  \A r \in Proc : ~Carrier(r)
    BY <1>2, <2>1, NobodyBrings, NoneAssumption
  <2> QED
    BY <1>2, <1>4, <2>1 DEF Moves
<1>6. UNCHANGED <<file, tmp, job>>
  BY DEF ServeLate, diskVars
<1>7. \A t : Known(t)' => Known(t)
  BY <1>1, <1>6 DEF Known, Asking, Readable
<1>8. \A r \in Proc : Carrier(r)' => Carrier(r) /\ job'[r] = job[r]
  BY <1>6 DEF Carrier
<1> QED
  BY <1>4, <1>5, <1>6, <1>7, <1>8, NothingNew

\* The clock and the key are not looked at.
LEMMA WriterElse ==
    ASSUME WriterInv, UNCHANGED <<grant, file, tmp, late, job>>
    PROVE  WriterInv'
<1>1. Grows /\ HoldersKept
  BY SameGrows DEF WriterInv
<1>2. \A t : Known(t)' => Known(t)
  BY DEF Known, Asking, Readable
<1>3. \A r \in Proc : Carrier(r)' => Carrier(r) /\ job'[r] = job[r]
  BY DEF Carrier
<1> QED
  BY <1>1, <1>2, <1>3, NothingNew

-----------------------------------------------------------------------------
(* The process writes its pair.                                             *)

LEMMA RegisterWrites ==
    ASSUME NEW p \in Proc, job[p].cmd = "register"
    PROVE  Target(p) = "client" /\ ~Writing(p) /\ Target(p) # "tokens"
BY DEF Target, Writing

\* The only carrier goes on with its pair.
LEMMA CarriesOn ==
    ASSUME WriterInv, NEW p \in Proc, Carrier(p), Carrier(p)', Brought(p)' = Brought(p),
           \A q \in Proc \ {p} : job'[q] = job[q],
           UNCHANGED <<grant, late>>,
           Lonely => file'["tokens"] = file["tokens"],
           Lonely /\ (\A q \in Proc : Carrier(q) => q = p) => TmpOwned'
    PROVE  WriterInv'
<1>1. GrantShape' /\ (OneGrant' => OneGrant)
  BY DEF WriterInv, GrantShape, OneGrant
<1> SUFFICES ASSUME OneGrant' PROVE Lonely'
  BY <1>1 DEF WriterInv
<1>2. Lonely /\ \A q \in Proc : Carrier(q) => q = p
  BY <1>1 DEF WriterInv, Lonely, OneCarrier
<1>3. \A q \in Proc : Carrier(q)' => q = p
  BY <1>2 DEF Carrier
<1>4. OneCarrier'
  BY <1>3 DEF OneCarrier
<1>5. Minted(grant)' = Minted(grant) /\ file'["tokens"] = file["tokens"]
  BY <1>2 DEF Minted
<1>6. ~Asking(p)' /\ ~Asking(p)
  BY DEF Asking, Carrier
<1>7. \A t : Known(t)' => Known(t)
  BY <1>5, <1>6 DEF Known, Asking, Readable
<1>8. ~Known(Brought(p))'
  <2>1. Known(Brought(p))' <=> \/ Readable("tokens")' /\ Brought(p)' = file'["tokens"].text.refresh
                               \/ \E r \in Proc : Asking(r)' /\ Brought(p)' = job'[r].wire.token
                               \/ \E q \in late' : Brought(p)' = q.token
    BY DEF Known
  <2>2. ~Known(Brought(p))
    BY <1>2 DEF Lonely, Private
  <2> DEFINE t == Brought(p)
  <2>3. ~ \/ Readable("tokens")' /\ t = file'["tokens"].text.refresh
          \/ \E r \in Proc : Asking(r)' /\ t = job'[r].wire.token
          \/ \E q \in late' : t = q.token
    BY <1>7, <2>2 DEF Known
  <2> HIDE DEF t
  <2> QED
    BY <2>1, <2>3 DEF t
<1>9. Private'
  BY <1>2, <1>3, <1>5, <1>8 DEF Lonely, Private
<1>10. KnownMinted' /\ FileWhole'
  BY <1>2, <1>5, <1>7 DEF Lonely, KnownMinted, FileWhole, Garbled
<1> QED
  BY <1>2, <1>4, <1>9, <1>10 DEF Lonely

LEMMA WriterAccepted ==
    ASSUME TypeInv, WriterInv, NEW p \in Proc, Accepted(p)
    PROVE  WriterInv'
<1>1. /\ job[p].pc = "answered" /\ job[p].reply.ok
      /\ UNCHANGED <<grant, file, late>>
      /\ tmp' = [tmp EXCEPT ![Target(p)] = Node("torn", None, @.fds \cup {p})]
  BY DEF Accepted, At, serverVars
<1>2. /\ job'[p].pc = "write" /\ job'[p].reply = Document(p) /\ job'[p].cmd = job[p].cmd
      /\ \A q \in Proc \ {p} : job'[q] = job[q]
  BY DEF Accepted, Becomes, TypeInv, JobTypes, Job
<1>3. CASE job[p].cmd = "register"
  <2>1. tmp'["tokens"] = tmp["tokens"]
    BY <1>1, <1>3, RegisterWrites DEF TypeInv, DiskTypes, Files
  <2> QED
    BY <1>1, <1>2, <1>3, <2>1, TypeAccepted, Registrant
<1>4. CASE job[p].cmd # "register"
  <2>1. Carrier(p) /\ Carrier(p)' /\ Target(p) = "tokens"
    BY <1>1, <1>2, <1>4 DEF Carrier, Target
  <2>2. Brought(p)' = Brought(p)
    <3>1. Document(p) = Saved(job[p].reply, clock)
      BY <2>1 DEF Document
    <3> QED
      BY <1>2, <3>1 DEF Brought, Saved
  <2>3. ASSUME Lonely, \A q \in Proc : Carrier(q) => q = p
        PROVE  TmpOwned'
    <3>1. tmp["tokens"].fds = {}
      BY <1>1, <2>3, WriterCarries DEF Lonely, TmpOwned, Writing, At
    <3>2. tmp'["tokens"] = Node("torn", None, {p})
      BY <1>1, <2>1, <3>1 DEF TypeInv, DiskTypes, Files
    <3>3. \A q \in Proc : Writing(q)' => q = p
      BY <1>2, <2>3, WriterCarries DEF Writing, Target
    <3>4. At(p, "write")' /\ Target(p)' = "tokens"
      BY <1>2, <1>4 DEF At, Target
    <3> QED
      BY <3>2, <3>3, <3>4 DEF TmpOwned, Node
  <2> QED
    BY <1>1, <1>2, <2>1, <2>2, <2>3, CarriesOn
<1> QED
  BY <1>3, <1>4

LEMMA WriterWrite ==
    ASSUME TypeInv, WriterInv, NEW p \in Proc, Write(p)
    PROVE  WriterInv'
<1>1. /\ job[p].pc = "write" /\ UNCHANGED <<grant, late>>
      /\ tmp' = [tmp EXCEPT ![Target(p)] = Written(@, p)]
      /\ file' = [file EXCEPT ![Target(p)] = Written(@, p)]
  BY DEF Write, At, serverVars
<1>2. /\ job'[p].pc = "rename" /\ job'[p].reply = job[p].reply /\ job'[p].cmd = job[p].cmd
      /\ \A q \in Proc \ {p} : job'[q] = job[q]
  BY DEF Write, GoTo, Becomes, TypeInv, JobTypes, Job
<1>3. CASE job[p].cmd = "register"
  <2>1. tmp'["tokens"] = tmp["tokens"] /\ file'["tokens"] = file["tokens"]
    BY <1>1, <1>3, RegisterWrites DEF TypeInv, DiskTypes, Files
  <2> QED
    BY <1>1, <1>2, <1>3, <2>1, TypeWrite, Registrant
<1>4. CASE job[p].cmd # "register"
  <2>1. /\ Carrier(p) /\ Carrier(p)' /\ Target(p) = "tokens" /\ Brought(p)' = Brought(p)
        /\ Writing(p)
    BY <1>1, <1>2, <1>4 DEF Carrier, Target, Brought, Writing
  <2>2. ASSUME Lonely PROVE file'["tokens"] = file["tokens"]
    BY <1>1, <2>1, <2>2 DEF Lonely, FileWhole, Written, TypeInv, DiskTypes, Files
  <2>3. ASSUME Lonely, \A q \in Proc : Carrier(q) => q = p
        PROVE  TmpOwned'
    <3>1. tmp["tokens"] = Node("torn", None, {p})
      BY <1>1, <2>1, <2>3 DEF Lonely, TmpOwned, At
    <3>2. tmp'["tokens"] = Node("whole", job[p].reply, {})
      BY <1>1, <2>1, <3>1 DEF TypeInv, DiskTypes, Files, Written, Node
    <3>3. \A q \in Proc : Writing(q)' => q = p
      BY <1>2, <2>3, WriterCarries DEF Writing, Target
    <3>4. ~At(p, "write")'
      BY <1>2 DEF At
    <3> QED
      BY <1>2, <3>2, <3>3, <3>4 DEF TmpOwned, Node
  <2> QED
    BY <1>1, <1>2, <2>1, <2>2, <2>3, CarriesOn
<1> QED
  BY <1>3, <1>4

LEMMA RenameGoesOn ==
    ASSUME TypeInv, NEW p \in Proc, Rename(p)
    PROVE  /\ job'[p].pc \notin {"sent", "answered", "write", "rename"}
           /\ \A q \in Proc \ {p} : job'[q] = job[q]
<1>1. CASE Exits(p, Unforeseen(p)) \/ Exits(p, 0)
  BY <1>1, ExitsFit, CodesFit DEF TypeInv
<1>2. CASE job[p].cmd \notin {"register", "auth"} /\ Obtained(p, job[p].reply.access)
  <2>1. job[p].pc = "rename"
    BY DEF Rename, At
  <2>2. job[p].reply.access \in Access
    BY <1>2, <2>1 DEF TypeInv, JobTypes, Fit, Carried, Pair
  <2> QED
    BY <1>2, <2>1, <2>2, ObtainedFits DEF TypeInv, At
<1> QED
  BY <1>1, <1>2 DEF Rename

\* The pair is in the file: it is known, and nobody carries one.
LEMMA WriterRename ==
    ASSUME TypeInv, WriterInv, NEW p \in Proc, Rename(p)
    PROVE  WriterInv'
<1>1. job[p].pc = "rename" /\ UNCHANGED <<grant, late>> /\ UNCHANGED serverVars
  BY DEF Rename, At, serverVars
<1>2. /\ job'[p].pc \notin {"sent", "answered", "write", "rename"}
      /\ \A q \in Proc \ {p} : job'[q] = job[q]
  BY RenameGoesOn
<1>3. CASE job[p].cmd = "register"
  <2>1. tmp'["tokens"] = tmp["tokens"] /\ file'["tokens"] = file["tokens"]
    BY <1>3, RegisterWrites DEF Rename, Saves, TypeInv, DiskTypes, Files, diskVars
  <2> QED
    BY <1>1, <1>2, <1>3, <2>1, RegisterWrites, GoesElsewhere
<1>4. CASE job[p].cmd # "register"
  <2>1. Carrier(p) /\ Target(p) = "tokens" /\ Writing(p) /\ ~At(p, "write")
    BY <1>1, <1>4 DEF Carrier, Target, Writing, At
  <2>2. GrantShape' /\ (OneGrant' => OneGrant)
    BY <1>1 DEF WriterInv, GrantShape, OneGrant
  <2> SUFFICES ASSUME OneGrant' PROVE Lonely'
    BY <2>2 DEF WriterInv
  <2>3. Lonely /\ \A q \in Proc : Carrier(q) => q = p
    BY <2>1, <2>2 DEF WriterInv, Lonely, OneCarrier
  <2>4. tmp["tokens"] = Node("whole", job[p].reply, {}) /\ tmp["tokens"] # Absent
    <3>1. tmp["tokens"] = Node("whole", job[p].reply, {})
      BY <2>1, <2>3 DEF Lonely, TmpOwned
    <3> QED
      BY <3>1 DEF Node, Absent
  <2>5. file'["tokens"] = Node("whole", job[p].reply, {}) /\ tmp'["tokens"] = Absent
    BY <2>1, <2>4 DEF Rename, Saves, TypeInv, DiskTypes, Files
  <2>6. \A q \in Proc : ~Carrier(q)'
    BY <1>2, <2>3 DEF Carrier
  <2>7. ASSUME NEW t, Known(t)' PROVE t \in Minted(grant)
    <3>1. CASE t = job[p].reply.refresh
      BY <2>1, <2>3, <3>1 DEF Lonely, Private, Brought
    <3>2. CASE t # job[p].reply.refresh
      <4>1. ~(Readable("tokens")' /\ t = file'["tokens"].text.refresh)
        BY <2>5, <3>2 DEF Node
      <4>2. ~Asking(p)'
        BY <1>2 DEF Asking
      <4>3. Known(t)
        BY <1>1, <1>2, <2>7, <4>1, <4>2 DEF Known, Asking
      <4> QED
        BY <2>3, <4>3 DEF Lonely, KnownMinted
    <3> QED
      BY <3>1, <3>2
  <2>8. Minted(grant)' = Minted(grant)
    BY <1>1 DEF Minted
  <2>9. OneCarrier' /\ Private' /\ KnownMinted'
    BY <2>6, <2>7, <2>8 DEF OneCarrier, Private, KnownMinted
  <2>10. FileWhole'
    BY <2>5 DEF FileWhole, Garbled, Node
  <2>11. TmpOwned'
    <3>1. \A q \in Proc : ~Writing(q)'
      BY <2>6 DEF Writing, Target, Carrier
    <3> QED
      BY <2>5, <3>1 DEF TmpOwned, Absent, Node
  <2> QED
    BY <2>9, <2>10, <2>11 DEF Lonely
<1> QED
  BY <1>3, <1>4

\* Whoever dies keeps no descriptor, and its pair dies with it.
LEMMA WriterDie ==
    ASSUME TypeInv, WriterInv, NEW p \in Proc, Die(p)
    PROVE  WriterInv'
<1>1. job'[p].pc = "done" /\ \A q \in Proc \ {p} : job'[q] = job[q]
  BY ExitsFit, CodesFit DEF TypeInv, Die
<1>2. Grows /\ HoldersKept
  BY SameGrows DEF WriterInv, Die, serverVars
<1>3. \A q \in Proc : Carrier(q)' => Carrier(q) /\ job'[q] = job[q]
  BY <1>1 DEF Carrier
<1>4. ASSUME NEW n, NEW f, Stored(n, f), p \notin n.fds
      PROVE  Closed(n, p) = n
  <2>1. n.fds \ {p} = n.fds
    BY <1>4
  <2> QED
    BY <1>4, <2>1 DEF Closed, Node, Stored, FileOf
<1>5. ASSUME Lonely PROVE file'["tokens"] = file["tokens"]
  BY <1>4, <1>5 DEF Lonely, FileWhole, Die, TypeInv, DiskTypes, Files
<1>6. ASSUME Lonely, NEW t, Known(t)' PROVE Known(t)
  <2>1. ~Asking(p)'
    BY <1>1 DEF Asking
  <2>2. CASE \E q \in late' : t = q.token
    <3>1. PICK q \in late' : t = q.token
      BY <2>2
    <3>2. CASE q \in late
      BY <3>1, <3>2 DEF Known
    <3>3. CASE Asking(p) /\ q = [job[p].wire EXCEPT !.since = 0]
      <4>1. q.token = job[p].wire.token
        <5>1. job[p].wire \in Wire
          BY <3>3 DEF Asking, TypeInv, JobTypes, Fit, Carried
        <5>2. job[p].wire \in RefreshWire
          BY <3>3, <5>1 DEF Asking, Wire, RefreshWire
        <5> QED
          BY <3>3, <5>2 DEF RefreshWire
      <4> QED
        BY <3>1, <3>3, <4>1 DEF Known
    <3> QED
      BY <3>1, <3>2, <3>3 DEF Die, Asking, At
  <2>3. CASE ~\E q \in late' : t = q.token
    BY <1>1, <1>5, <1>6, <2>1, <2>3 DEF Known, Asking, Readable
  <2> QED
    BY <2>2, <2>3
<1>7. ASSUME Lonely
      PROVE  \/ tmp'["tokens"] = tmp["tokens"] /\ \A q \in Proc : Writing(q) => job'[q] = job[q]
             \/ tmp'["tokens"].fds = {} /\ \A q \in Proc : ~Carrier(q)'
  <2>1. \A q \in tmp["tokens"].fds : q \in Proc /\ Writing(q)
    BY <1>7 DEF Lonely, TmpOwned, Writing, At
  <2>2. Stored(tmp["tokens"], "tokens")
    BY DEF TypeInv, DiskTypes, Files
  <2>3. CASE Writing(p)
    <3>1. \A q \in Proc : Carrier(q) => q = p
      BY <1>7, <2>3, WriterCarries DEF Lonely, OneCarrier
    <3>2. \A q \in Proc : ~Carrier(q)'
      BY <1>1, <1>3, <3>1 DEF Carrier
    <3>3. tmp["tokens"].fds \subseteq {p}
      BY <2>1, <3>1, WriterCarries
    <3>4. tmp'["tokens"].fds = {}
      BY <2>3, <3>3 DEF Die, TypeInv, DiskTypes, Files, Closed, Node, Absent, Writing
    <3> QED
      BY <3>2, <3>4
  <2>4. CASE ~Writing(p)
    <3>1. Closed(tmp["tokens"], p) = tmp["tokens"]
      BY <1>4, <2>1, <2>2, <2>4
    <3>2. At(p, "write") => Target(p) # "tokens"
      BY <2>4 DEF Writing, At
    <3>3. tmp'["tokens"] = tmp["tokens"]
      BY <3>1, <3>2 DEF Die, TypeInv, DiskTypes, Files
    <3> QED
      BY <1>1, <2>4, <3>3
  <2> QED
    BY <2>3, <2>4
<1> QED
  BY <1>2, <1>3, <1>5, <1>6, <1>7, NothingNew

LEMMA WriterNext ==
    ASSUME TypeInv, WriterInv, [Next]_vars
    PROVE  WriterInv'
<1>1. ASSUME NEW p \in Proc, Step(p) \/ Callback(p) \/ Die(p)
      PROVE  WriterInv'
  BY <1>1, WriterRegister, WriterPost, WriterListen, WriterGetAccessToken, WriterRefresh,
     WriterServe, WriterRefused, WriterAccepted, WriterWrite, WriterRename, WriterStatus,
     WriterCall, WriterCompare, WriterNoCallback, WriterCallback, WriterDie DEF Step
<1>2. CASE Restart
  BY <1>2, WriterElse DEF Restart, Rekey, diskVars
<1>3. CASE Tick
  BY <1>3, WriterElse DEF Tick, serverVars, diskVars
<1>4. CASE UNCHANGED vars
  BY <1>4, WriterElse DEF vars, serverVars, diskVars
<1> QED
  BY <1>1, <1>2, <1>3, <1>4, WriterServeLate DEF Next

LEMMA WriterAlways == Spec => []WriterInv
<1>1. TypeInv /\ WriterInv /\ [Next]_vars => WriterInv'
  BY WriterNext
<1> QED
  BY <1>1, TypeAlways, WriterInit, PTL DEF Spec

\* However many invocations run side by side, wherever they are killed and
\* whichever answers are lost: as long as there has been one authorization,
\* one process at a time replaces tokens.json, and the file can be parsed
\* (oauth_client.py:56-70, 296-330).
THEOREM TokensNeverTorn == Spec => []NeverTorn
<1>1. TypeInv /\ WriterInv => NeverTorn
  BY WriterInvImplies
<1> QED
  BY <1>1, TypeAlways, WriterAlways, PTL
=============================================================================
