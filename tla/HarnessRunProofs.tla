--------------------------- MODULE HarnessRunProofs ---------------------------
(***************************************************************************)
(* What a run of the harness may report and hand out, what the server does *)
(* to a chain, what tokens.json keeps while nobody is disturbed, and where *)
(* access tokens go, for any number of invocations and any times.          *)
(***************************************************************************)
EXTENDS HarnessProofs

\* The passes and answers of a process are as they were.
Onward(p) ==
    /\ job'[p].cmd = job[p].cmd /\ job'[p].exit = job[p].exit
    /\ job'[p].passes = job[p].passes /\ job'[p].answers = job[p].answers
    /\ job'[p].bearer \in {job[p].bearer, None}

\* Nothing of a process is left.
Cleared(p) ==
    /\ job'[p].pc = "done" /\ job'[p].cmd = job[p].cmd /\ job'[p].bearer = None
    /\ job'[p].passes = <<>> /\ job'[p].answers = <<>>

\* A process ends; a validation fails.
Ends(p) == Cleared(p) /\ (job[p].cmd = "validate" => job'[p].exit # 0)

LEMMA EndsWith ==
    ASSUME JobTypes, NEW p \in Proc, NEW code, Exits(p, code)
    PROVE  Cleared(p) /\ job'[p].exit = code
<1>1. job'[p] = Ended(job[p].cmd, code)
  BY DEF Exits, Becomes, JobTypes
<1>2. /\ Ended(job[p].cmd, code).pc = "done" /\ Ended(job[p].cmd, code).cmd = job[p].cmd
      /\ Ended(job[p].cmd, code).exit = code /\ Ended(job[p].cmd, code).bearer = None
      /\ Ended(job[p].cmd, code).passes = <<>> /\ Ended(job[p].cmd, code).answers = <<>>
  BY DEF Ended, NewJob
<1> QED
  BY <1>1, <1>2 DEF Cleared

\* The codes of a validation that goes wrong.
LEMMA BadCodes ==
    ASSUME NEW p \in Proc
    PROVE  /\ NoTokens(p) \in 0 .. 3 /\ NoClient(p) \in 0 .. 3 /\ Unforeseen(p) \in 0 .. 3
           /\ NoTokens(p) # 0 /\ Unforeseen(p) # 0 /\ NoClient(p) # 0
<1>1. NoTokens(p) # 0 /\ Unforeseen(p) # 0
  BY DEF NoTokens, Unforeseen
<1>2. NoClient(p) \in {1, 2, 3}
  BY DEF NoClient
<1> QED
  BY <1>1, <1>2, CodesFit

\* Where an access token is handed out.
Hands(p, a) ==
    /\ job'[p].cmd = job[p].cmd
    /\ job'[p].bearer \in {job[p].bearer, a, None}
    /\ job[p].cmd = "validate" =>
          /\ job'[p].exit = job[p].exit
          /\ job'[p].passes = job[p].passes /\ job'[p].answers = job[p].answers

LEMMA ObtainedHands ==
    ASSUME JobTypes, NEW p \in Proc, NEW a,
           job[p].cmd = "validate" => job[p].then # "exit",
           Obtained(p, a)
    PROVE  Hands(p, a)
<1>1. job[p] \in Job /\ job[p].then \in {"exit", "status", "call", "again"}
  BY DEF JobTypes, Job
<1> DEFINE j == [job[p] EXCEPT !.reply = None]
<1>2. /\ j \in Job /\ j.cmd = job[p].cmd /\ j.then = job[p].then /\ j.exit = job[p].exit
      /\ j.passes = job[p].passes /\ j.answers = job[p].answers /\ j.bearer = job[p].bearer
  BY <1>1 DEF Job
<1>3. CASE job[p].then = "exit"
  <2>1. job'[p] = [Ended(job[p].cmd, 0) EXCEPT !.bearer = a]
    BY <1>2, <1>3 DEF Obtained, Becomes, JobTypes
  <2>2. /\ [Ended(job[p].cmd, 0) EXCEPT !.bearer = a].cmd = job[p].cmd
        /\ [Ended(job[p].cmd, 0) EXCEPT !.bearer = a].bearer = a
        /\ [Ended(job[p].cmd, 0) EXCEPT !.bearer = a].pc = "done"
    BY DEF Ended, NewJob
  <2> QED
    BY <1>3, <2>1, <2>2 DEF Hands
<1>4. CASE job[p].then = "status"
  <2>1. job'[p] = [j EXCEPT !.pc = "status"]
    BY <1>2, <1>4 DEF Obtained, Becomes, JobTypes
  <2> HIDE DEF j
  <2> QED
    BY <1>2, <2>1 DEF Hands, Job
<1>5. CASE job[p].then = "call"
  <2>1. job'[p] = [j EXCEPT !.pc = "call", !.bearer = a]
    BY <1>2, <1>5 DEF Obtained, Becomes, JobTypes
  <2> HIDE DEF j
  <2> QED
    BY <1>2, <2>1 DEF Hands, Job
<1>6. CASE job[p].then = "again"
  <2>1. job'[p] = [j EXCEPT !.pc = "get", !.then = "call"]
    BY <1>2, <1>6 DEF Obtained, Becomes, JobTypes
  <2> HIDE DEF j
  <2> QED
    BY <1>2, <2>1 DEF Hands, Job
<1> QED
  BY <1>1, <1>3, <1>4, <1>5, <1>6

\* The steps of a process, by what they do to its passes and tokens.
LEMMA StepKinds ==
    ASSUME TypeInv, NEW p \in Proc, Step(p) \/ Callback(p) \/ Die(p)
    PROVE  \/ Onward(p)
           \/ Ends(p)
           \/ GetAccessToken(p) /\ Hands(p, file["tokens"].text.access)
                /\ Readable("tokens") /\ Lasts(file["tokens"].text)
           \/ Rename(p) /\ job[p].cmd # "register" /\ Hands(p, job[p].reply.access)
           \/ Compare(p)
           \/ \E payload \in Payload : At(p, "call") /\ Passed(p, payload)
<1>1. JobTypes /\ job[p] \in Job /\ Fit(job[p])
  BY DEF TypeInv, JobTypes
<1>2. ASSUME NEW code, Exits(p, code), job[p].cmd = "validate" => code # 0
      PROVE  Ends(p)
  BY <1>1, <1>2, EndsWith DEF Ends
<1>3. ASSUME Exits(p, NoTokens(p)) \/ Exits(p, NoClient(p)) \/ Exits(p, Unforeseen(p))
             \/ Exits(p, 1) \/ Exits(p, 3)
      PROVE  Ends(p)
  BY <1>2, <1>3, BadCodes
<1>4. ASSUME NEW l, GoTo(p, l) PROVE Onward(p)
  BY <1>1, <1>4 DEF GoTo, Becomes, JobTypes, Job, Onward
<1>5. ASSUME NEW q, NEW id, Sends(p, q, id) PROVE Onward(p)
  BY <1>1, <1>5 DEF Sends, Becomes, JobTypes, Job, Onward
<1>6. ASSUME Exits(p, 0), job[p].cmd # "validate" PROVE Ends(p)
  BY <1>2, <1>6
<1>7. CASE Register(p)
  <2>1. job[p].cmd = "register"
    BY <1>1, <1>7 DEF Register, At, Fit, Placed
  <2> QED
    BY <1>3, <1>4, <1>6, <1>7, <2>1 DEF Register
<1>8. CASE Post(p) \/ Callback(p) \/ NoCallback(p) \/ Refused(p) \/ Refresh(p)
  BY <1>3, <1>5, <1>8 DEF Post, Callback, NoCallback, Refused, Refresh
<1>9. CASE Listen(p)
  <2>1. CASE Becomes(p, [job[p] EXCEPT !.pc = "listen", !.meta = Meta(p)])
    BY <1>1, <2>1 DEF Becomes, JobTypes, Job, Onward
  <2> QED
    BY <1>3, <1>9, <2>1 DEF Listen
<1>10. CASE GetAccessToken(p)
  <2>1. job[p].cmd = "validate" => job[p].then # "exit"
    BY <1>1, <1>10 DEF GetAccessToken, At, Fit, Placed
  <2> QED
    BY <1>1, <1>3, <1>4, <1>10, <2>1, ObtainedHands DEF GetAccessToken
<1>11. CASE Serve(p)
  BY <1>1, <1>11 DEF Serve, Becomes, JobTypes, Job, Onward
<1>12. CASE Accepted(p)
  BY <1>1, <1>12 DEF Accepted, Becomes, JobTypes, Job, Onward
<1>13. CASE Write(p)
  BY <1>4, <1>13 DEF Write
<1>14. CASE Rename(p)
  <2>1. job[p].cmd = "validate" => job[p].then # "exit"
    BY <1>1, <1>14 DEF Rename, At, Fit, Placed
  <2> QED
    BY <1>1, <1>3, <1>6, <1>14, <2>1, ObtainedHands DEF Rename
<1>15. CASE Status(p)
  <2>1. CASE Becomes(p, [job[p] EXCEPT !.pc = "get", !.then = "call", !.meta = Meta(p)])
    BY <1>1, <2>1 DEF Becomes, JobTypes, Job, Onward
  <2> QED
    BY <1>3, <1>6, <1>15, <2>1 DEF Status
<1>16. CASE Call(p)
  <2>1. CASE Recovers(p)
    BY <1>1, <2>1 DEF Recovers, Becomes, JobTypes, Job, Onward
  <2> QED
    BY <1>3, <1>16, <2>1 DEF Call
<1>17. CASE Die(p)
  BY <1>3, <1>17 DEF Die
<1>18. CASE Compare(p)
  BY <1>18
<1> QED
  BY <1>7, <1>8, <1>9, <1>10, <1>11, <1>12, <1>13, <1>14, <1>15, <1>16, <1>17, <1>18 DEF Step

LEMMA StepOthers ==
    ASSUME TypeInv, NEW p \in Proc, Step(p) \/ Callback(p) \/ Die(p)
    PROVE  \A q \in Proc \ {p} : job'[q] = job[q]
<1> SUFFICES \E j : Becomes(p, j)
  BY DEF Becomes, TypeInv, JobTypes
<1>1. CASE \E a : Obtained(p, a)
  BY <1>1 DEF Obtained
<1>2. CASE GetAccessToken(p) \/ Rename(p)
  BY <1>1, <1>2 DEF GetAccessToken, Rename, Exits, GoTo
<1>3. CASE Register(p) \/ Post(p) \/ Listen(p) \/ Refresh(p) \/ Serve(p) \/ Refused(p)
           \/ Accepted(p) \/ Write(p) \/ Status(p) \/ Compare(p) \/ NoCallback(p)
           \/ Callback(p) \/ Die(p)
  BY <1>3 DEF Register, Post, Listen, Refresh, Serve, Refused, Accepted, Write, Status,
              Compare, NoCallback, Callback, Die, Exits, GoTo, Sends
<1>4. CASE Call(p)
  BY <1>4 DEF Call, Recovers, Passed, Exits
<1> QED
  BY <1>2, <1>3, <1>4 DEF Step

-----------------------------------------------------------------------------
(* The passes of a validation.                                              *)

\* The passes still to run and the answers so far make up one of the modes.
Course(j) ==
    j.cmd = "validate" =>
        \/ j.answers = <<>> /\ j.passes \in Validates \cup {<<>>}
        \/ Len(j.answers) = 1 /\ j.passes = <<>>
        \/ Len(j.answers) = 1 /\ j.passes = <<FALSE>> /\ j.answers[1].force = TRUE
        \/ /\ Len(j.answers) = 2 /\ j.passes = <<>>
           /\ j.answers[1].force = TRUE /\ j.answers[2].force = FALSE

CourseInv == \A p \in Proc : Course(job[p])

LEMMA CourseInit == Init => CourseInv
<1> SUFFICES ASSUME Init, NEW p \in Proc PROVE Course(job[p])
  BY DEF CourseInv
<1>1. \/ \E c \in Command \ {"validate"} : job[p] = NewJob(c, <<>>)
      \/ \E v \in Validates : job[p] = NewJob("validate", v)
  BY DEF Init
<1>2. ASSUME NEW c, NEW v
      PROVE  NewJob(c, v).cmd = c /\ NewJob(c, v).answers = <<>> /\ NewJob(c, v).passes = v
  BY DEF NewJob
<1>3. CASE \E c \in Command \ {"validate"} : job[p] = NewJob(c, <<>>)
  BY <1>2, <1>3 DEF Course
<1>4. CASE \E v \in Validates : job[p] = NewJob("validate", v)
  <2>1. job[p].answers = <<>> /\ job[p].passes \in Validates
    BY <1>2, <1>4
  <2> QED
    BY <2>1 DEF Course
<1> QED
  BY <1>1, <1>3, <1>4

LEMMA Tails ==
    /\ Head(<<TRUE, FALSE>>) = TRUE /\ Tail(<<TRUE, FALSE>>) = <<FALSE>>
    /\ Head(<<FALSE>>) = FALSE /\ Tail(<<FALSE>>) = <<>> /\ Tail(<<TRUE>>) = <<>>
<1>1. ASSUME NEW x, NEW y PROVE Head(<<x, y>>) = x /\ Tail(<<x, y>>) = <<y>>
  OBVIOUS
<1>2. ASSUME NEW x PROVE Head(<<x>>) = x /\ Tail(<<x>>) = <<>>
  OBVIOUS
<1> QED
  BY <1>1, <1>2, Zenon

\* One pass more.
LEMMA PassedCourse ==
    ASSUME TypeInv, CourseInv, NEW p \in Proc, NEW payload \in Payload,
           At(p, "call"), Passed(p, payload)
    PROVE  Course(job'[p]) /\ job'[p].exit = job[p].exit
<1> DEFINE v == job[p].passes
           s == job[p].answers
           answer == [force |-> Head(v), payload |-> payload]
<1>1. /\ job[p] \in Job /\ job[p].cmd = "validate" /\ v \in Seq(BOOLEAN) /\ v # <<>>
      /\ s \in Seq([force : BOOLEAN, payload : Payload])
  BY DEF TypeInv, JobTypes, Fit, Placed, Job, At
<1>2. /\ job'[p].passes = Tail(v) /\ job'[p].answers = Append(s, answer)
      /\ job'[p].exit = job[p].exit
  BY DEF Passed, Becomes, TypeInv, JobTypes, Job
<1>3. answer \in [force : BOOLEAN, payload : Payload] /\ answer.force = Head(v)
  BY <1>1, PassesLeft
<1> HIDE DEF answer
<1>4. /\ Len(Append(s, answer)) = Len(s) + 1 /\ Append(s, answer)[Len(s) + 1] = answer
      /\ \A i \in 1 .. Len(s) : Append(s, answer)[i] = s[i]
  BY <1>1, <1>3, AppendProperties
<1>5. CASE s = <<>> /\ v \in Validates
  <2>1. Len(Append(s, answer)) = 1 /\ Append(s, answer)[1] = answer
    BY <1>4, <1>5
  <2>2. CASE v = <<TRUE, FALSE>>
    <3>1. Head(v) = TRUE /\ Tail(v) = <<FALSE>>
      BY <2>2, Tails
    <3> QED
      BY <1>2, <1>3, <2>1, <3>1 DEF Course
  <2>3. CASE v = <<TRUE>> \/ v = <<FALSE>>
    <3>1. Tail(v) = <<>>
      BY <2>3, Tails
    <3> QED
      BY <1>2, <2>1, <3>1 DEF Course
  <2> QED
    BY <1>5, <2>2, <2>3 DEF Validates
<1>6. CASE Len(s) = 1 /\ v = <<FALSE>> /\ s[1].force = TRUE
  <2>1. Head(v) = FALSE /\ Tail(v) = <<>>
    BY <1>6, Tails
  <2>2. /\ Len(Append(s, answer)) = 2 /\ Append(s, answer)[1] = s[1]
        /\ Append(s, answer)[2] = answer
    BY <1>4, <1>6
  <2> QED
    BY <1>2, <1>3, <1>6, <2>1, <2>2 DEF Course
<1> QED
  BY <1>1, <1>2, <1>5, <1>6 DEF CourseInv, Course

LEMMA CourseNext ==
    ASSUME TypeInv, CourseInv, [Next]_vars
    PROVE  CourseInv'
<1>1. ASSUME NEW p \in Proc, Step(p) \/ Callback(p) \/ Die(p)
      PROVE  CourseInv'
  <2>1. \A q \in Proc \ {p} : job'[q] = job[q]
    BY <1>1, StepOthers
  <2> SUFFICES Course(job'[p])
    BY <2>1 DEF CourseInv
  <2>2. CASE Onward(p)
    BY <2>2 DEF Onward, CourseInv, Course
  <2>3. CASE Ends(p)
    BY <2>3 DEF Ends, Cleared, Course
  <2>4. CASE \E a : Hands(p, a)
    BY <2>4 DEF Hands, CourseInv, Course
  <2>5. CASE Compare(p)
    BY <2>5, EndsWith DEF Compare, Cleared, Course, TypeInv
  <2>6. CASE \E payload \in Payload : At(p, "call") /\ Passed(p, payload)
    BY <2>6, PassedCourse
  <2> QED
    BY <1>1, <2>2, <2>3, <2>4, <2>5, <2>6, StepKinds
<1>2. CASE UNCHANGED job
  BY <1>2 DEF CourseInv
<1> QED
  BY <1>1, <1>2 DEF Next, ServeLate, Restart, Tick, vars

\* What a comparison that passes the gate has seen.
LEMMA GateSeesBoth ==
    ASSUME TypeInv, CourseInv, NEW p \in Proc, job[p].cmd = "validate", Gate(job[p].answers)
    PROVE  /\ [i \in DOMAIN job[p].answers |-> job[p].answers[i].force] = <<TRUE, FALSE>>
           /\ job[p].answers[2].payload = "pass"
<1> DEFINE s == job[p].answers
<1>1. s \in Seq([force : BOOLEAN, payload : Payload]) /\ Len(s) = 2 /\ s[2].payload = "pass"
  BY DEF Gate, TypeInv, JobTypes, Job
<1>2. Course(job[p])
  BY DEF CourseInv
<1>3. s[1].force = TRUE /\ s[2].force = FALSE
  <2>1. s # <<>>
    BY <1>1
  <2> QED
    BY <1>1, <1>2, <2>1 DEF Course
<1> HIDE DEF s
<1>4. DOMAIN s = 1 .. 2
  BY <1>1
<1>5. [i \in 1 .. 2 |-> s[i].force] = <<s[1].force, s[2].force>>
  OBVIOUS
<1> QED
  BY <1>1, <1>3, <1>4, <1>5 DEF s

LEMMA CourseAlways == Spec => []CourseInv
<1>1. TypeInv /\ CourseInv /\ [Next]_vars => CourseInv'
  BY CourseNext
<1> QED
  BY <1>1, TypeAlways, CourseInit, PTL DEF Spec

\* Exit code 0 of validate means that a forced pass and then a cached one were
\* answered and that the cached one's rows passed, whatever else runs, fails or
\* is killed (validate.py:9-10, 132-141).
THEOREM ZeroIsEarned == Spec => ZeroMeansGate
<1>1. ASSUME TypeInv, CourseInv, [Next]_vars, NEW p \in Proc,
             job[p].cmd = "validate", job'[p].exit = 0, job[p].exit # 0
      PROVE  /\ [i \in DOMAIN job[p].answers |-> job[p].answers[i].force] = <<TRUE, FALSE>>
             /\ job[p].answers[2].payload = "pass"
  <2>1. ASSUME NEW q \in Proc, q # p, Step(q) \/ Callback(q) \/ Die(q)
        PROVE  job'[p] = job[p]
    BY <1>1, <2>1, StepOthers
  <2>2. job'[p] # job[p]
    BY <1>1
  <2>3. Step(p) \/ Callback(p) \/ Die(p)
    BY <1>1, <2>1, <2>2 DEF Next, ServeLate, Restart, Tick, vars
  <2>4. ~Onward(p) /\ ~Ends(p) /\ \A a : ~Hands(p, a)
    BY <1>1 DEF Onward, Ends, Hands
  <2>5. \A payload \in Payload : ~(At(p, "call") /\ Passed(p, payload))
    BY <1>1, PassedCourse
  <2>6. Compare(p)
    BY <1>1, <2>3, <2>4, <2>5, StepKinds
  <2>7. Gate(job[p].answers)
    <3>1. job'[p].exit = IF Gate(job[p].answers) THEN 0 ELSE 1
      BY <1>1, <2>6, EndsWith DEF Compare, TypeInv
    <3> QED
      BY <1>1, <3>1
  <2> QED
    BY <1>1, <2>7, GateSeesBoth
<1>2. TypeInv /\ CourseInv /\ [Next]_vars =>
        [\A p \in Proc : job[p].cmd = "validate" /\ job'[p].exit = 0 /\ job[p].exit # 0 =>
          /\ [i \in DOMAIN job[p].answers |-> job[p].answers[i].force] = <<TRUE, FALSE>>
          /\ job[p].answers[2].payload = "pass"]_vars
  BY <1>1
<1> QED
  BY <1>2, TypeAlways, CourseAlways, PTL DEF Spec, ZeroMeansGate

-----------------------------------------------------------------------------
(* The times of access tokens.                                              *)

\* The client takes a token to last no more than Timeout longer than it does.
Timely(t) == t.expires <= t.access.exp + Timeout

TimelyFiles ==
    /\ Readable("tokens") => Timely(file["tokens"].text)
    /\ tmp["tokens"].state = "whole" => Timely(tmp["tokens"].text)

\* An answer is no older than Timeout, and its token lasts while it is written.
TimelyJob(j, now) ==
    /\ j.pc \in {"sent", "answered"} => j.wire.since <= now /\ now <= j.wire.since + Timeout
    /\ j.pc = "answered" /\ j.reply.ok /\ j.cmd # "register" =>
            j.wire.since + AccessTTL <= j.reply.access.exp
    /\ j.pc \in {"write", "rename"} /\ j.cmd # "register" =>
            Timely(j.reply) /\ now < j.reply.access.exp

TimeInv == TimelyFiles /\ \A p \in Proc : TimelyJob(job[p], clock)

LEMMA TimeInit == Init => TimeInv
<1> SUFFICES ASSUME Init PROVE TimeInv
  OBVIOUS
<1>1. \A p \in Proc : job[p].pc \notin {"sent", "answered", "write", "rename"}
  BY InitialPositions
<1>2. tmp["tokens"].state = "absent"
  BY DEF Init, Files, Absent, Node
<1>3. Readable("tokens") => Timely(file["tokens"].text)
  <2>1. CASE Empty
    BY <2>1 DEF Empty, Readable, Files, Absent, Node
  <2>2. CASE Provisioned
    <3> DEFINE t == Draw(Token)
    <3>1. file["tokens"].text = Saved(TokenPair(t), 0)
      BY <2>2 DEF Provisioned, Files, Node
    <3>2. /\ Saved(TokenPair(t), 0).expires = 0 + AccessTTL
          /\ Saved(TokenPair(t), 0).access.exp = clock + AccessTTL
      BY DEF Saved, TokenPair, AccessToken
    <3> QED
      BY <3>1, <3>2, ServerAssumption, TimesAssumption DEF Timely, Init
  <2> QED
    BY <2>1, <2>2 DEF Init
<1> QED
  BY <1>1, <1>2, <1>3 DEF TimeInv, TimelyFiles, TimelyJob

\* Steps that go neither to the server nor to the disk.
LEMMA Aside ==
    ASSUME TypeInv, NEW p \in Proc,
           \/ Register(p) \/ Listen(p) \/ NoCallback(p) \/ GetAccessToken(p) \/ Refused(p)
           \/ Status(p) \/ Call(p) \/ Compare(p)
    PROVE  /\ job'[p].pc \notin {"sent", "answered", "write", "rename"}
           /\ UNCHANGED <<clock, diskVars>>
<1>1. JobTypes /\ job[p] \in Job
  BY DEF TypeInv, JobTypes
<1>2. UNCHANGED <<clock, diskVars>>
  BY DEF Register, Listen, NoCallback, GetAccessToken, Refused, Status, Call, Compare, Quiet
<1>3. ASSUME NEW code, Exits(p, code) PROVE job'[p].pc = "done"
  BY <1>1, <1>3, EndsWith DEF Cleared
<1>4. ASSUME NEW l, GoTo(p, l) PROVE job'[p].pc = l
  BY <1>1, <1>4 DEF GoTo, Becomes, JobTypes, Job
<1>5. CASE Register(p) \/ NoCallback(p) \/ Refused(p) \/ Compare(p)
  BY <1>2, <1>3, <1>4, <1>5 DEF Register, NoCallback, Refused, Compare
<1>6. CASE Listen(p)
  <2>1. CASE Becomes(p, [job[p] EXCEPT !.pc = "listen", !.meta = Meta(p)])
    BY <1>1, <1>2, <2>1 DEF Becomes, JobTypes, Job
  <2> QED
    BY <1>2, <1>3, <1>6, <2>1 DEF Listen
<1>7. CASE GetAccessToken(p)
  <2>1. CASE Readable("tokens") /\ Obtained(p, file["tokens"].text.access)
    <3>1. file["tokens"].text.access \in Access
      BY <2>1, TokensFit DEF TypeInv, Pair
    <3> QED
      BY <1>1, <1>2, <1>7, <2>1, <3>1, ObtainedFits DEF GetAccessToken
  <2> QED
    BY <1>2, <1>3, <1>4, <1>7, <2>1 DEF GetAccessToken
<1>8. CASE Status(p)
  <2>1. CASE Becomes(p, [job[p] EXCEPT !.pc = "get", !.then = "call", !.meta = Meta(p)])
    BY <1>1, <1>2, <2>1 DEF Becomes, JobTypes, Job
  <2> QED
    BY <1>2, <1>3, <1>8, <2>1 DEF Status
<1>9. CASE Call(p)
  <2>1. CASE Recovers(p)
    BY <1>1, <1>2, <2>1 DEF Recovers, Becomes, JobTypes, Job
  <2>2. ASSUME NEW payload, Passed(p, payload)
        PROVE  job'[p].pc \in {"compare", "get"}
    BY <1>1, <2>2 DEF Passed, Becomes, JobTypes, Job
  <2> QED
    BY <1>2, <1>3, <1>9, <2>1, <2>2 DEF Call
<1> QED
  BY <1>5, <1>6, <1>7, <1>8, <1>9

\* One process goes on, at the same time.
LEMMA TimeStep ==
    ASSUME TimeInv, NEW p \in Proc, \A q \in Proc \ {p} : job'[q] = job[q],
           clock' = clock, TimelyFiles', TimelyJob(job'[p], clock)
    PROVE  TimeInv'
BY DEF TimeInv

LEMMA SameFiles ==
    ASSUME TimelyFiles, UNCHANGED diskVars
    PROVE  TimelyFiles'
BY DEF TimelyFiles, diskVars, Readable

LEMMA TimeSends ==
    ASSUME TypeInv, NEW p \in Proc, Post(p) \/ Callback(p) \/ Refresh(p)
    PROVE  TimelyJob(job'[p], clock) /\ UNCHANGED <<clock, diskVars>>
<1>1. JobTypes /\ job[p] \in Job /\ clock \in Nat
  BY DEF TypeInv, JobTypes, ServerTypes
<1>2. UNCHANGED <<clock, diskVars>>
  BY DEF Post, Callback, Refresh, Quiet
<1>3. ASSUME NEW q, NEW id, Sends(p, q, id), q.since = clock
      PROVE  TimelyJob(job'[p], clock)
  <2>1. job'[p].pc = "sent" /\ job'[p].wire = q
    BY <1>1, <1>3 DEF Sends, Becomes, JobTypes, Job
  <2> QED
    BY <1>1, <1>3, <2>1, TimesAssumption DEF TimelyJob
<1>4. ASSUME NEW code, Exits(p, code) PROVE TimelyJob(job'[p], clock)
  <2>1. job'[p].pc = "done"
    BY <1>1, <1>4, EndsWith DEF Cleared
  <2> QED
    BY <2>1 DEF TimelyJob
<1>5. CASE Post(p)
  BY <1>2, <1>3, <1>5 DEF Post
<1>6. CASE Callback(p)
  BY <1>2, <1>3, <1>6 DEF Callback
<1>7. CASE Refresh(p)
  BY <1>2, <1>3, <1>4, <1>7 DEF Refresh
<1> QED
  BY <1>5, <1>6, <1>7

LEMMA TimeServe ==
    ASSUME TypeInv, TimeInv, NEW p \in Proc, Serve(p)
    PROVE  TimelyJob(job'[p], clock) /\ UNCHANGED <<clock, diskVars>>
<1> DEFINE q == job[p].wire
<1>1. PICK answer \in Answers :
         /\ Handles(q, answer) \/ Breaks(q, answer)
         /\ Becomes(p, [job[p] EXCEPT !.pc = "answered", !.reply = answer])
  BY DEF Serve
<1>2. /\ job[p].pc = "sent" /\ q \in Wire
      /\ q.kind = "register" <=> job[p].cmd = "register"
  BY DEF Serve, At, TypeInv, JobTypes, Fit, Carried
<1>3. /\ job'[p].pc = "answered" /\ job'[p].reply = answer
      /\ job'[p].cmd = job[p].cmd /\ job'[p].wire = q
  BY <1>1 DEF Becomes, TypeInv, JobTypes, Job
<1>4. answer.ok => ("id" \in DOMAIN answer <=> q.kind = "register")
  BY <1>1, <1>2, ServerFits DEF TypeInv, Serve
<1>5. q.since <= clock /\ clock <= q.since + Timeout
  BY <1>2 DEF TimeInv, TimelyJob
<1>6. q.since \in Nat
  BY <1>2 DEF Wire
<1> HIDE DEF q
<1>7. ASSUME answer.ok, job[p].cmd # "register"
      PROVE  q.since + AccessTTL <= answer.access.exp
  <2>1. "id" \notin DOMAIN answer
    BY <1>2, <1>4, <1>7
  <2>2. ASSUME NEW id PROVE "id" \in DOMAIN [ok |-> TRUE, id |-> id]
    OBVIOUS
  <2>3. ~Error.ok
    BY DEF Error
  <2>4. PICK t \in Token : answer = TokenPair(t)
    BY <1>7, <2>1, <2>2, <2>3 DEF Answers
  <2>5. answer.access.exp = clock + AccessTTL
    BY <2>4 DEF TokenPair, AccessToken
  <2> QED
    BY <1>5, <1>6, <2>5, ServerAssumption DEF TypeInv, ServerTypes
<1>8. TimelyJob(job'[p], clock)
  BY <1>3, <1>5, <1>7 DEF TimelyJob
<1> QED
  BY <1>8 DEF Serve

LEMMA TimeAccepted ==
    ASSUME TypeInv, TimeInv, NEW p \in Proc, Accepted(p)
    PROVE  TimelyJob(job'[p], clock) /\ clock' = clock /\ TimelyFiles'
<1>1. /\ job[p].pc = "answered" /\ job[p].reply.ok /\ clock' = clock /\ file' = file
      /\ tmp' = [tmp EXCEPT ![Target(p)] = Node("torn", None, @.fds \cup {p})]
  BY DEF Accepted, At
<1>2. job'[p].pc = "write" /\ job'[p].reply = Document(p) /\ job'[p].cmd = job[p].cmd
  BY DEF Accepted, Becomes, TypeInv, JobTypes, Job
<1>3. TimelyFiles'
  <2>1. tmp'["tokens"] = tmp["tokens"] \/ tmp'["tokens"].state = "torn"
    BY <1>1, TargetFits DEF TypeInv, DiskTypes, Files, Node
  <2> QED
    BY <1>1, <2>1 DEF TimeInv, TimelyFiles, Readable
<1>4. ASSUME job[p].cmd # "register"
      PROVE  Timely(Document(p)) /\ clock < Document(p).access.exp
  <2>1. Document(p) = Saved(job[p].reply, clock)
    BY <1>4, TargetFits DEF Document
  <2>2. Document(p) \in Pair
    BY <1>1, <1>4, DocumentFits DEF At
  <2>3. Document(p).access = job[p].reply.access /\ Document(p).expires = clock + AccessTTL
    BY <2>1 DEF Saved
  <2>4. /\ job[p].wire.since + AccessTTL <= job[p].reply.access.exp
        /\ clock <= job[p].wire.since + Timeout
    BY <1>1, <1>4 DEF TimeInv, TimelyJob
  <2>5. job[p].wire.since \in Nat /\ clock \in Nat
    BY <1>1 DEF TypeInv, JobTypes, Fit, Carried, Wire, ServerTypes
  <2>6. job[p].reply.access.exp \in Nat
    BY <2>2, <2>3 DEF Pair, Access
  <2> QED
    BY <2>3, <2>4, <2>5, <2>6, ServerAssumption, TimesAssumption DEF Timely
<1>5. TimelyJob(job'[p], clock)
  BY <1>2, <1>4 DEF TimelyJob
<1> QED
  BY <1>1, <1>3, <1>5

LEMMA TimeWrite ==
    ASSUME TypeInv, TimeInv, NEW p \in Proc, Write(p)
    PROVE  TimelyJob(job'[p], clock) /\ clock' = clock /\ TimelyFiles'
<1>1. /\ job[p].pc = "write" /\ clock' = clock
      /\ tmp' = [tmp EXCEPT ![Target(p)] = Written(@, p)]
      /\ file' = [file EXCEPT ![Target(p)] = Written(@, p)]
  BY DEF Write, At
<1>2. job'[p].pc = "rename" /\ job'[p].reply = job[p].reply /\ job'[p].cmd = job[p].cmd
  BY DEF Write, GoTo, Becomes, TypeInv, JobTypes, Job
<1>3. TimelyJob(job'[p], clock)
  BY <1>1, <1>2 DEF TimeInv, TimelyJob
<1>4. TimelyFiles'
  <2>1. CASE job[p].cmd = "register"
    BY <1>1, <2>1, RegisterWrites DEF TimeInv, TimelyFiles, Readable, TypeInv, DiskTypes, Files
  <2>2. CASE job[p].cmd # "register"
    <3>1. Timely(job[p].reply) /\ Target(p) = "tokens"
      BY <1>1, <2>2, TargetFits DEF TimeInv, TimelyJob, Target
    <3>2. ASSUME NEW n, n.state = "whole" => Timely(n.text)
          PROVE  Written(n, p).state = "whole" => Timely(Written(n, p).text)
      BY <3>1, <3>2 DEF Written, Node
    <3>3. tmp'["tokens"] = Written(tmp["tokens"], p) /\ file'["tokens"] = Written(file["tokens"], p)
      BY <1>1, <3>1 DEF TypeInv, DiskTypes, Files
    <3> QED
      BY <3>2, <3>3 DEF TimeInv, TimelyFiles, Readable
  <2> QED
    BY <2>1, <2>2
<1> QED
  BY <1>1, <1>3, <1>4

LEMMA TimeRename ==
    ASSUME TypeInv, TimeInv, NEW p \in Proc, Rename(p)
    PROVE  TimelyJob(job'[p], clock) /\ clock' = clock /\ TimelyFiles'
<1>1. TimelyJob(job'[p], clock)
  BY RenameGoesOn DEF TimelyJob
<1>2. CASE UNCHANGED diskVars
  BY <1>1, <1>2, SameFiles DEF Rename, TimeInv
<1>3. CASE Saves(p)
  <2>1. \/ file'["tokens"] = file["tokens"] /\ tmp'["tokens"] = tmp["tokens"]
        \/ file'["tokens"] = tmp["tokens"] /\ tmp'["tokens"] = Absent
    BY <1>3, TargetFits DEF Saves, TypeInv, DiskTypes, Files
  <2>2. Absent.state # "whole"
    BY DEF Absent, Node
  <2>3. TimelyFiles'
    BY <2>1, <2>2 DEF TimeInv, TimelyFiles, Readable
  <2> QED
    BY <1>1, <2>3 DEF Rename
<1> QED
  BY <1>2, <1>3 DEF Rename

LEMMA TimeDie ==
    ASSUME TypeInv, TimeInv, NEW p \in Proc, Die(p)
    PROVE  TimelyJob(job'[p], clock) /\ clock' = clock /\ TimelyFiles'
<1>1. TimelyJob(job'[p], clock)
  BY EndsWith DEF Die, TimelyJob, Cleared, TypeInv
<1>2. ASSUME NEW n PROVE Closed(n, p).state = n.state /\ Closed(n, p).text = n.text
  BY DEF Closed, Node
<1>3. file'["tokens"] = Closed(file["tokens"], p)
  BY DEF Die, Files
<1>4. tmp'["tokens"] = Closed(tmp["tokens"], p) \/ tmp'["tokens"] = tmp["tokens"]
      \/ tmp'["tokens"] = Absent
  BY DEF Die, Files, TypeInv, DiskTypes
<1>5. Absent.state # "whole"
  BY DEF Absent, Node
<1>6. TimelyFiles'
  BY <1>2, <1>3, <1>4, <1>5 DEF TimeInv, TimelyFiles, Readable
<1> QED
  BY <1>1, <1>6 DEF Die

LEMMA TimeNext ==
    ASSUME TypeInv, TimeInv, [Next]_vars
    PROVE  TimeInv'
<1>1. ASSUME NEW p \in Proc, Step(p) \/ Callback(p) \/ Die(p)
      PROVE  TimeInv'
  <2>1. \A q \in Proc \ {p} : job'[q] = job[q]
    BY <1>1, StepOthers
  <2>2. ASSUME TimelyJob(job'[p], clock), UNCHANGED <<clock, diskVars>>
        PROVE  TimeInv'
    BY <2>1, <2>2, TimeStep, SameFiles DEF TimeInv
  <2>3. CASE Register(p) \/ Listen(p) \/ NoCallback(p) \/ GetAccessToken(p) \/ Refused(p)
             \/ Status(p) \/ Call(p) \/ Compare(p)
    BY <2>2, <2>3, Aside DEF TimelyJob
  <2>4. CASE Post(p) \/ Callback(p) \/ Refresh(p) \/ Serve(p)
    BY <2>2, <2>4, TimeSends, TimeServe
  <2>5. CASE Accepted(p) \/ Write(p) \/ Rename(p) \/ Die(p)
    BY <2>1, <2>5, TimeAccepted, TimeWrite, TimeRename, TimeDie, TimeStep
  <2> QED
    BY <1>1, <2>3, <2>4, <2>5 DEF Step
<1>2. CASE Tick
  <2>1. clock' = clock + 1 /\ clock \in Nat /\ UNCHANGED <<diskVars, job>>
    BY <1>2 DEF Tick, TypeInv, ServerTypes
  <2>2. ASSUME NEW p \in Proc PROVE TimelyJob(job'[p], clock')
    <3>1. /\ job[p].pc \in {"sent", "answered"} => clock < job[p].wire.since + Timeout
          /\ job[p].pc \notin {"write", "rename"}
      BY <1>2 DEF Tick
    <3>2. job[p].pc \in {"sent", "answered"} => job[p].wire.since \in Nat
      BY DEF TypeInv, JobTypes, Fit, Carried, Wire
    <3> QED
      BY <2>1, <3>1, <3>2, TimesAssumption DEF TimeInv, TimelyJob
  <2> QED
    BY <2>1, <2>2, SameFiles DEF TimeInv
<1>3. CASE ServeLate \/ Restart \/ UNCHANGED vars
  BY <1>3, SameFiles DEF ServeLate, Restart, vars, TimeInv
<1> QED
  BY <1>1, <1>2, <1>3 DEF Next

LEMMA TimeAlways == Spec => []TimeInv
<1>1. TypeInv /\ TimeInv /\ [Next]_vars => TimeInv'
  BY TimeNext
<1> QED
  BY <1>1, TypeAlways, TimeInit, PTL DEF Spec

\* A token handed out, cached or fresh, has not expired at the server, for any
\* delay of an answer below the timeout and any lifetime above the skew
\* (oauth_client.py:333-338).
THEOREM HandedOutIsValid == Spec => HandsOutValid
<1>1. ASSUME TypeInv, TimeInv, [Next]_vars, NEW p \in Proc,
             job'[p].bearer # job[p].bearer, job'[p].bearer # None
      PROVE  job'[p].bearer.exp > clock'
  <2>1. ASSUME NEW q \in Proc, q # p, Step(q) \/ Callback(q) \/ Die(q)
        PROVE  job'[p] = job[p]
    BY <1>1, <2>1, StepOthers
  <2>2. Step(p) \/ Callback(p) \/ Die(p)
    BY <1>1, <2>1 DEF Next, ServeLate, Restart, Tick, vars
  <2>3. ~Onward(p) /\ ~Ends(p)
    BY <1>1 DEF Onward, Ends, Cleared
  <2>4. ~Compare(p)
    BY <1>1, EndsWith DEF Compare, Cleared, TypeInv
  <2>5. \A payload \in Payload : ~Passed(p, payload)
    BY <1>1 DEF Passed, Becomes, TypeInv, JobTypes, Job
  <2>6. CASE GetAccessToken(p) /\ Hands(p, file["tokens"].text.access)
             /\ Readable("tokens") /\ Lasts(file["tokens"].text)
    <3> DEFINE t == file["tokens"].text
    <3>1. t \in Pair /\ Timely(t) /\ t.expires > clock + Skew /\ clock \in Nat
      BY <1>1, <2>6, TokensFit DEF TypeInv, ServerTypes, TimeInv, TimelyFiles, Lasts
    <3>2. job'[p].bearer = t.access /\ clock' = clock
      BY <1>1, <2>6 DEF Hands, GetAccessToken, Quiet
    <3> HIDE DEF t
    <3>3. t.expires \in Nat /\ t.access.exp \in Nat
      BY <3>1 DEF Pair, Access
    <3> QED
      BY <3>1, <3>2, <3>3, TimesAssumption DEF Timely
  <2>7. CASE Rename(p) /\ job[p].cmd # "register" /\ Hands(p, job[p].reply.access)
    <3>1. clock < job[p].reply.access.exp
      BY <1>1, <2>7 DEF Rename, At, TimeInv, TimelyJob
    <3>2. job[p].reply \in Pair /\ clock \in Nat
      BY <1>1, <2>7 DEF Rename, At, TypeInv, ServerTypes, JobTypes, Fit, Carried
    <3>3. job[p].reply.access.exp \in Nat
      BY <3>2 DEF Pair, Access
    <3>4. job'[p].bearer = job[p].reply.access /\ clock' = clock
      BY <1>1, <2>7 DEF Hands, Rename
    <3> QED
      BY <3>1, <3>2, <3>3, <3>4
  <2> QED
    BY <1>1, <2>2, <2>3, <2>4, <2>5, <2>6, <2>7, StepKinds
<1>2. TypeInv /\ TimeInv /\ [Next]_vars =>
        [\A p \in Proc : job'[p].bearer # job[p].bearer /\ job'[p].bearer # None =>
            job'[p].bearer.exp > clock']_vars
  BY <1>1
<1> QED
  BY <1>2, TypeAlways, TimeAlways, PTL DEF Spec, HandsOutValid

-----------------------------------------------------------------------------
(* What a request does to a chain.                                          *)

\* Only an active chain has a token that can be spent.
HolderShape == \A c \in Chain : grant[c].holder # None => grant[c].phase = "active"

ChainInv == GrantShape /\ HolderShape

\* One chain goes on as GrantLifecycle has it, or none.
ChainStep ==
    \/ grant' = grant
    \/ \E c \in Chain, g \in Grant :
          /\ grant' = [grant EXCEPT ![c] = g]
          /\ Lifecycle!Lives(grant[c], g)
          /\ g.phase # "unborn"
          /\ g.holder # None => g.phase = "active"

LEMMA SpendableChain ==
    ASSUME ChainInv, NEW q \in Wire, q.kind = "refresh", NEW c \in Chain, Spendable(q, c)
    PROVE  grant[c].holder \in Token /\ grant[c].phase = "active"
<1>1. q.token \in Token /\ q.token = grant[c].holder
  BY Asked DEF Spendable
<1> QED
  BY <1>1, NoneAssumption DEF ChainInv, HolderShape

\* A token that was minted is in none of the chains again.
LEMMA UnseenIsNew ==
    ASSUME NEW t \in Unseen, NEW c \in Chain
    PROVE  t \in Token \ (grant[c].past \cup {grant[c].holder})
BY MintedOf, NoneAssumption DEF Unseen

LEMMA RotationLives ==
    ASSUME ServerTypes, NEW c \in Chain, grant[c].holder \in Token,
           grant[c].phase = "active", Unseen # {}, Rotation(c)
    PROVE  ChainStep
<1> DEFINE g == [grant[c] EXCEPT !.holder = Draw(Unseen), !.past = @ \cup {grant[c].holder}]
<1>1. Draw(Unseen) \in Unseen
  BY DrawnFrom
<1>2. grant[c] \in Grant /\ Draw(Unseen) \in Token
  BY <1>1, UnseenTokens DEF ServerTypes
<1>3. /\ g \in Grant /\ g.phase = "active" /\ g.holder = Draw(Unseen)
      /\ g.past = grant[c].past \cup {grant[c].holder}
  BY <1>2 DEF Grant
<1>4. grant' = [grant EXCEPT ![c] = g]
  BY <1>2 DEF Rotation, ServerTypes, Grant
<1> HIDE DEF g
<1>5. Lifecycle!Rotates(grant[c], g)
  BY <1>1, <1>3, UnseenIsNew DEF Lifecycle!Rotates
<1> QED
  BY <1>3, <1>4, <1>5 DEF ChainStep, Lifecycle!Lives

LEMMA StrandingLives ==
    ASSUME ServerTypes, NEW c \in Chain, grant[c].holder \in Token,
           grant[c].phase = "active", Stranding(c)
    PROVE  ChainStep
<1> DEFINE g == [phase |-> "stranded", holder |-> None,
                 past |-> grant[c].past \cup {grant[c].holder}]
<1>1. grant[c] \in Grant
  BY DEF ServerTypes
<1>2. /\ g \in Grant /\ g.phase = "stranded" /\ g.holder = None
      /\ g.past = grant[c].past \cup {grant[c].holder}
  BY <1>1 DEF Grant
<1>3. grant' = [grant EXCEPT ![c] = g]
  BY DEF Stranding
<1> HIDE DEF g
<1> QED
  BY <1>2, <1>3 DEF ChainStep, Lifecycle!Lives, Lifecycle!Strands

\* A known token is in a chain that was opened.
LEMMA RevocationLives ==
    ASSUME ServerTypes, ChainInv, NEW q \in Wire, NEW c \in Chain,
           Reuses(q, c), Revocation(c)
    PROVE  ChainStep
<1> DEFINE g == [phase |-> "dead", holder |-> None,
                 past |-> (grant[c].past \cup {grant[c].holder}) \ {None}]
<1>1. grant[c] \in Grant
  BY DEF ServerTypes
<1>2. /\ g \in Grant /\ g.phase = "dead" /\ g.holder = None
      /\ g.past = (grant[c].past \cup {grant[c].holder}) \ {None}
  BY <1>1 DEF Grant
<1>3. grant' = [grant EXCEPT ![c] = g]
  BY DEF Revocation
<1>4. grant[c].phase \in {"active", "stranded"}
  <2>1. grant[c].phase # "unborn"
    BY DEF Reuses, Knows, ChainInv, GrantShape, Unborn
  <2>2. grant[c].phase # "dead"
    BY DEF Reuses
  <2> QED
    BY <1>1, <2>1, <2>2 DEF Grant
<1> HIDE DEF g
<1> QED
  BY <1>2, <1>3, <1>4 DEF ChainStep, Lifecycle!Lives, Lifecycle!Dies

LEMMA OpeningLives ==
    ASSUME ServerTypes, NEW q, NEW answer, Grants(q, answer)
    PROVE  ChainStep
<1> DEFINE c == Draw(UnbornChains)
           t == Draw(Unseen)
<1>1. c \in Chain /\ t \in Token /\ grant[c] = Unborn
  BY DrawnFrom, UnseenTokens DEF Grants, UnbornChains
<1>2. /\ Opened(t) \in Grant /\ Opened(t).phase = "active" /\ Opened(t).holder = t
      /\ Opened(t).past = {}
  BY <1>1 DEF Opened, Grant
<1>3. grant' = [grant EXCEPT ![c] = Opened(t)]
  BY DEF Grants
<1> HIDE DEF c, t
<1>4. Lifecycle!Opens(grant[c], Opened(t))
  BY <1>1, <1>2 DEF Lifecycle!Opens, Unborn
<1> QED
  BY <1>1, <1>2, <1>3, <1>4 DEF ChainStep, Lifecycle!Lives

LEMMA RequestLives ==
    ASSUME ServerTypes, ChainInv, NEW q \in Wire, NEW answer,
           Handles(q, answer) \/ Breaks(q, answer)
    PROVE  ChainStep
<1>1. CASE q.kind = "register" /\ Registers(answer)
  BY <1>1 DEF Registers, ChainStep
<1>2. CASE Grants(q, answer)
  BY <1>2, OpeningLives
<1>3. CASE q.kind = "refresh" /\ Rotates(q, answer)
  BY <1>3, SpendableChain, RotationLives DEF Rotates
<1>4. CASE Refuses(q, answer)
  BY <1>4, RevocationLives DEF Refuses, ChainStep
<1>5. CASE Breaks(q, answer)
  BY <1>5, SpendableChain, RotationLives, StrandingLives DEF Breaks, ChainStep
<1> QED
  BY <1>1, <1>2, <1>3, <1>4, <1>5 DEF Handles

\* Nothing but a request touches a chain.
LEMMA StepLives ==
    ASSUME TypeInv, ChainInv, [Next]_vars
    PROVE  ChainStep
<1>1. ASSUME NEW p \in Proc, Serve(p) PROVE ChainStep
  <2>1. job[p].wire \in Wire
    BY <1>1 DEF Serve, At, TypeInv, JobTypes, Fit, Carried
  <2> QED
    BY <1>1, <2>1, RequestLives DEF Serve, TypeInv
<1>2. CASE ServeLate
  <2>1. \A q \in late : q \in Wire
    BY RefreshIsWire DEF TypeInv
  <2> QED
    BY <1>2, <2>1, RequestLives DEF ServeLate, TypeInv
<1>3. ASSUME NEW p \in Proc, Step(p) \/ Callback(p) \/ Die(p), ~Serve(p)
      PROVE  grant' = grant
  <2>1. CASE Register(p) \/ Listen(p) \/ Callback(p) \/ NoCallback(p) \/ Refresh(p)
             \/ Accepted(p) \/ Write(p) \/ Rename(p) \/ Die(p)
    BY <2>1 DEF Register, Listen, Callback, NoCallback, Refresh, Accepted, Write, Rename,
                Die, serverVars
  <2>2. CASE Post(p) \/ GetAccessToken(p) \/ Refused(p) \/ Status(p) \/ Call(p) \/ Compare(p)
    BY <2>2 DEF Post, GetAccessToken, Refused, Status, Call, Compare, Quiet, serverVars
  <2> QED
    BY <1>3, <2>1, <2>2 DEF Step
<1>4. CASE Restart \/ Tick \/ UNCHANGED vars
  BY <1>4 DEF Restart, Rekey, Tick, vars, serverVars, ChainStep
<1> QED
  BY <1>1, <1>2, <1>3, <1>4 DEF Next, ChainStep

LEMMA ChainInit == Init => ChainInv
<1> SUFFICES ASSUME Init PROVE ChainInv
  OBVIOUS
<1>1. CASE Empty
  BY <1>1 DEF Empty, ChainInv, GrantShape, HolderShape, Unborn
<1>2. CASE Provisioned
  <2>1. \A d \in Chain : grant[d] = Unborn \/ grant[d] = Opened(Draw(Token))
    BY <1>2 DEF Provisioned
  <2> QED
    BY <2>1 DEF ChainInv, GrantShape, HolderShape, Unborn, Opened
<1> QED
  BY <1>1, <1>2 DEF Init

LEMMA ChainNext ==
    ASSUME TypeInv, ChainInv, [Next]_vars
    PROVE  ChainInv'
<1>1. CASE grant' = grant
  BY <1>1 DEF ChainInv, GrantShape, HolderShape
<1>2. ASSUME NEW c \in Chain, NEW g \in Grant, grant' = [grant EXCEPT ![c] = g],
             g.phase # "unborn", g.holder # None => g.phase = "active"
      PROVE  ChainInv'
  <2>1. grant'[c] = g /\ \A d \in Chain \ {c} : grant'[d] = grant[d]
    BY <1>2 DEF TypeInv, ServerTypes
  <2> QED
    BY <1>2, <2>1 DEF ChainInv, GrantShape, HolderShape
<1> QED
  BY <1>1, <1>2, StepLives DEF ChainStep

\* Whatever it is asked, in time or late, and however it fails, the server
\* assumed here does to a chain what GrantLifecycle allows: a spent token never
\* comes back, a dead chain stays dead (auth/storage.py:350-416).
THEOREM LifecycleKept == Spec => ServerKeepsLifecycle
<1>1. ASSUME TypeInv, ChainStep PROVE [Lifecycle!Next]_grant
  <2>1. ASSUME NEW c \in Chain, NEW g \in Grant, grant' = [grant EXCEPT ![c] = g],
               Lifecycle!Lives(grant[c], g)
        PROVE  Lifecycle!Next
    <3>1. grant'[c] = g /\ \A d \in Chain \ {c} : grant'[d] = grant[d]
      BY <1>1, <2>1 DEF TypeInv, ServerTypes
    <3> QED
      BY <2>1, <3>1 DEF Lifecycle!Next
  <2> QED
    BY <1>1, <2>1 DEF ChainStep
<1>2. TypeInv /\ ChainInv /\ [Next]_vars => ChainInv'
  BY ChainNext
<1>3. TypeInv /\ ChainInv /\ [Next]_vars => [Lifecycle!Next]_grant
  BY <1>1, StepLives
<1> QED
  BY <1>2, <1>3, TypeAlways, ChainInit, PTL DEF Spec, ServerKeepsLifecycle

-----------------------------------------------------------------------------
(* What the file keeps while nobody was disturbed.                          *)

\* The token is the one the server will accept, from the client on the disk.
Current(t) ==
    /\ Readable("client")
    /\ \E c \in Chain : /\ grant[c].phase = "active" /\ grant[c].holder = t
                        /\ owner[c] = file["client"].text

Alone == \A p, q \in Proc : Busy(p) /\ Busy(q) => p = q

\* Nobody has a file open that has its final name.
FilesClosed == \A f \in Files : file[f].state # "torn" /\ file[f].fds = {}

TmpOpened == \A f \in Files : \A p \in tmp[f].fds : At(p, "write") /\ Target(p) = f

\* A process that has a pair the file has not.
Bringing == \E p \in Proc : Carrier(p)

PairKept ==
    ~Missing("tokens") =>
        Readable("client") /\ (Current(file["tokens"].text.refresh) \/ Bringing)

\* What a process may rely on.
Sound(p) ==
    /\ job[p].meta # None => Readable("client") /\ file["client"].text = job[p].meta
    /\ Busy(p) /\ job[p].cmd = "register" => Missing("client")
    /\ At(p, "sent") /\ job[p].cmd # "register" =>
          job[p].meta # None /\ job[p].wire.client = job[p].meta
    /\ Asking(p) => Readable("tokens") /\ job[p].wire.token = file["tokens"].text.refresh
    /\ At(p, "answered") => job[p].reply.ok
    /\ Carrier(p) => Current(Brought(p))
    /\ At(p, "write") => tmp[Target(p)].fds = {p}
    /\ At(p, "rename") => tmp[Target(p)] = Node("whole", job[p].reply, {})

KeepInv ==
    ~disturbed =>
        /\ Alone /\ FilesClosed /\ TmpOpened /\ PairKept
        /\ \A p \in Proc : Sound(p)

\* A process that has nothing under way relies on the client it has read.
LEMMA IdleSound ==
    ASSUME NEW q \in Proc, ~Busy(q)', job'[q].meta # None =>
               Readable("client")' /\ file'["client"].text = job'[q].meta
    PROVE  Sound(q)'
BY DEF Sound, Busy, At, Asking, Carrier

LEMMA CarriersBusy ==
    ASSUME NEW p \in Proc, Carrier(p) \/ Asking(p)
    PROVE  Busy(p)
BY DEF Carrier, Asking, Busy

\* A step of the process everyone else waits for.
LEMMA KeepBusy ==
    ASSUME KeepInv, ~disturbed, NEW p \in Proc,
           \A q \in Proc \ {p} : job'[q] = job[q] /\ ~Busy(q),
           file'["client"] = file["client"] \/ Missing("client"),
           FilesClosed', TmpOpened', PairKept', Sound(p)'
    PROVE  KeepInv'
<1>1. ASSUME NEW q \in Proc, q # p
      PROVE  ~Busy(q)' /\ Sound(q)'
  <2>1. job'[q] = job[q] /\ ~Busy(q)
    BY <1>1
  <2>2. job[q].meta # None => Readable("client") /\ file["client"].text = job[q].meta
    BY DEF KeepInv, Sound
  <2>3. job[q].meta # None => file'["client"] = file["client"]
    BY <2>2 DEF Missing, Readable
  <2>4. ~Busy(q)'
    BY <2>1 DEF Busy
  <2>5. job'[q].meta # None =>
               Readable("client")' /\ file'["client"].text = job'[q].meta
    BY <2>1, <2>2, <2>3 DEF Readable
  <2> QED
    BY <2>4, <2>5, IdleSound
<1>2. Alone'
  BY <1>1 DEF Alone
<1>3. \A q \in Proc : Sound(q)'
  BY <1>1
<1> QED
  BY <1>2, <1>3 DEF KeepInv

\* Where grants and files are as they were.
LEMMA SameFilesKept ==
    ASSUME FilesClosed, UNCHANGED diskVars
    PROVE  FilesClosed'
BY DEF FilesClosed, diskVars

LEMMA SamePairKept ==
    ASSUME PairKept, UNCHANGED <<grant, owner, diskVars>>, Bringing => Bringing'
    PROVE  PairKept'
BY DEF PairKept, diskVars, Missing, Readable, Current

LEMMA SameTmpOpened ==
    ASSUME TmpOpened, NEW p \in Proc, UNCHANGED diskVars, DiskTypes,
           \A q \in Proc \ {p} : job'[q] = job[q],
           ~At(p, "write")
    PROVE  TmpOpened'
<1> SUFFICES ASSUME NEW f \in Files, NEW q \in tmp'[f].fds
             PROVE  At(q, "write")' /\ Target(q)' = f
  BY DEF TmpOpened
<1>1. q \in tmp[f].fds /\ q \in Proc
  BY DEF diskVars, DiskTypes, Stored, FileOf
<1>2. At(q, "write") /\ Target(q) = f
  BY <1>1 DEF TmpOpened
<1>3. job'[q] = job[q]
  BY <1>1, <1>2
<1> QED
  BY <1>2, <1>3 DEF At, Target

LEMMA SameKept ==
    ASSUME KeepInv, UNCHANGED <<grant, owner, diskVars, job>>, disturbed' = disturbed
    PROVE  KeepInv'
<1>1. \A p \in Proc : /\ Busy(p)' = Busy(p) /\ Carrier(p)' = Carrier(p)
                      /\ Asking(p)' = Asking(p) /\ Brought(p)' = Brought(p)
                      /\ Target(p)' = Target(p)
  BY DEF Busy, Carrier, Asking, Brought, Target
<1>2. Alone => Alone'
  BY <1>1 DEF Alone
<1>3. FilesClosed => FilesClosed'
  BY SameFilesKept
<1>4. TmpOpened => TmpOpened'
  BY DEF TmpOpened, diskVars, At, Target
<1>5. PairKept => PairKept'
  BY <1>1, SamePairKept DEF Bringing
<1>6. \A p \in Proc : Sound(p) => Sound(p)'
  BY <1>1 DEF Sound, Readable, Missing, diskVars, At, Current
<1> QED
  BY <1>2, <1>3, <1>4, <1>5, <1>6 DEF KeepInv

\* A step of a process that has nothing under way, before or after.
LEMMA KeepIdle ==
    ASSUME TypeInv, KeepInv, NEW p \in Proc, ~Busy(p), ~Busy(p)',
           \A q \in Proc \ {p} : job'[q] = job[q],
           \/ job'[p].meta \in {job[p].meta, None}
           \/ HasMeta(p) /\ job'[p].meta = Meta(p),
           UNCHANGED <<grant, owner, diskVars>>, disturbed' = disturbed
    PROVE  KeepInv'
<1> SUFFICES ASSUME ~disturbed
             PROVE  KeepInv'
  BY DEF KeepInv
<1>1. Alone /\ FilesClosed /\ TmpOpened /\ PairKept /\ \A q \in Proc : Sound(q)
  BY DEF KeepInv
<1>2. \A q \in Proc \ {p} : Busy(q)' = Busy(q)
  BY DEF Busy
<1>3. Alone'
  BY <1>1, <1>2 DEF Alone
<1>4. FilesClosed'
  BY <1>1, SameFilesKept
<1>5. TmpOpened'
  BY <1>1, SameTmpOpened DEF TypeInv, Busy, At
<1>6. PairKept'
  <2>1. \A q \in Proc : Carrier(q) => Carrier(q)'
    BY CarriersBusy DEF Carrier
  <2> QED
    BY <1>1, <2>1, SamePairKept DEF Bringing
<1>7. Sound(p)'
  <2>1. job[p].meta # None => Readable("client") /\ file["client"].text = job[p].meta
    BY <1>1 DEF Sound
  <2>2. job'[p].meta # None => Readable("client") /\ file["client"].text = job'[p].meta
    BY <2>1 DEF HasMeta, Meta
  <2>3. job'[p].meta # None =>
               Readable("client")' /\ file'["client"].text = job'[p].meta
    BY <2>2 DEF Readable, diskVars
  <2> QED
    BY <2>3, IdleSound
<1>8. ASSUME NEW q \in Proc, q # p PROVE Sound(q)'
  <2>1. job'[q] = job[q] /\ Sound(q)
    BY <1>1, <1>8
  <2>2. /\ Busy(q)' = Busy(q) /\ Carrier(q)' = Carrier(q)
        /\ Asking(q)' = Asking(q) /\ Brought(q)' = Brought(q)
        /\ Target(q)' = Target(q)
    BY <2>1 DEF Busy, Carrier, Asking, Brought, Target
  <2> QED
    BY <2>1, <2>2 DEF Sound, Readable, Missing, diskVars, At, Current
<1> QED
  BY <1>3, <1>4, <1>5, <1>6, <1>7, <1>8 DEF KeepInv

LEMMA ExitMeta ==
    ASSUME JobTypes, NEW p \in Proc, NEW code, Exits(p, code)
    PROVE  job'[p].meta = None /\ job'[p].pc = "done" /\ \A q \in Proc \ {p} : job'[q] = job[q]
<1>1. job' = [job EXCEPT ![p] = Ended(job[p].cmd, code)]
  BY DEF Exits, Becomes
<1>2. Ended(job[p].cmd, code).meta = None /\ Ended(job[p].cmd, code).pc = "done"
  BY DEF Ended, NewJob
<1> QED
  BY <1>1, <1>2 DEF JobTypes

LEMMA ObtainedMeta ==
    ASSUME JobTypes, NEW p \in Proc, NEW a, Obtained(p, a)
    PROVE  job'[p].meta \in {job[p].meta, None}
<1>1. job[p] \in Job /\ job[p].then \in {"exit", "status", "call", "again"}
  BY DEF JobTypes, Job
<1> DEFINE j == [job[p] EXCEPT !.reply = None]
<1>2. j \in Job /\ j.meta = job[p].meta /\ j.then = job[p].then
  BY <1>1 DEF Job
<1>3. Obtained(p, a) <=>
        Becomes(p, CASE j.then = "exit" -> [Ended(j.cmd, 0) EXCEPT !.bearer = a]
                     [] j.then = "status" -> [j EXCEPT !.pc = "status"]
                     [] j.then = "call" -> [j EXCEPT !.pc = "call", !.bearer = a]
                     [] j.then = "again" -> [j EXCEPT !.pc = "get", !.then = "call"])
  BY DEF Obtained
<1>4. [Ended(j.cmd, 0) EXCEPT !.bearer = a].meta = None
  BY DEF Ended, NewJob
<1> HIDE DEF j
<1>5. /\ [j EXCEPT !.pc = "status"].meta = j.meta
      /\ [j EXCEPT !.pc = "call", !.bearer = a].meta = j.meta
      /\ [j EXCEPT !.pc = "get", !.then = "call"].meta = j.meta
  BY <1>2 DEF Job
<1> QED
  BY <1>1, <1>2, <1>3, <1>4, <1>5 DEF Becomes, JobTypes

\* Steps without a request or an answer.
LEMMA KeepAside ==
    ASSUME TypeInv, KeepInv, NEW p \in Proc,
           \/ Register(p) /\ job'[p].pc # "post"
           \/ Listen(p) \/ NoCallback(p) \/ GetAccessToken(p)
           \/ Refresh(p) /\ job'[p].pc # "sent"
           \/ Status(p) \/ Call(p) \/ Compare(p)
    PROVE  KeepInv'
<1>1. JobTypes /\ job[p] \in Job
  BY DEF TypeInv, JobTypes
<1>2. ~Busy(p)
  BY DEF Register, Listen, NoCallback, GetAccessToken, Refresh, Status, Call, Compare,
         At, Busy
<1>3. UNCHANGED <<grant, owner, diskVars>>
  BY DEF Register, Listen, NoCallback, GetAccessToken, Refresh, Status, Call, Compare, Quiet,
         serverVars
<1>4. \A q \in Proc \ {p} : job'[q] = job[q]
  BY StepOthers DEF Step
<1> DEFINE Fine == /\ ~Busy(p)' /\ disturbed' = disturbed
                   /\ \/ job'[p].meta \in {job[p].meta, None}
                      \/ HasMeta(p) /\ job'[p].meta = Meta(p)
<1> SUFFICES Fine
  BY <1>2, <1>3, <1>4, KeepIdle
<1>5. ASSUME NEW code, Exits(p, code), disturbed' = disturbed PROVE Fine
  BY <1>1, <1>5, ExitMeta DEF Busy
<1>6. CASE Register(p) /\ job'[p].pc # "post"
  <2>1. ~GoTo(p, "post")
    BY <1>1, <1>6 DEF GoTo, Becomes, JobTypes, Job
  <2> QED
    BY <1>5, <1>6, <2>1 DEF Register
<1>7. CASE Listen(p)
  <2>1. CASE HasMeta(p) /\ Becomes(p, [job[p] EXCEPT !.pc = "listen", !.meta = Meta(p)])
    BY <1>1, <1>7, <2>1 DEF Listen, Becomes, JobTypes, Job, Busy
  <2> QED
    BY <1>5, <1>7, <2>1 DEF Listen
<1>8. CASE NoCallback(p)
  BY <1>5, <1>8 DEF NoCallback
<1>9. CASE GetAccessToken(p)
  <2>1. job'[p].pc # "post" /\ disturbed' = disturbed
    <3>1. CASE Readable("tokens") /\ Obtained(p, file["tokens"].text.access)
      <4>1. file["tokens"].text.access \in Access
        BY <3>1, TokensFit DEF TypeInv, Pair
      <4> QED
        BY <1>1, <1>9, <3>1, <4>1, ObtainedFits DEF GetAccessToken, Quiet
    <3>2. ASSUME NEW code, Exits(p, code) PROVE job'[p].pc # "post"
      BY <1>1, <3>2, ExitMeta
    <3>3. CASE GoTo(p, "reload")
      BY <1>1, <1>9, <3>3 DEF GoTo, Becomes, JobTypes, Job, GetAccessToken, Quiet
    <3> QED
      BY <1>9, <3>1, <3>2, <3>3 DEF GetAccessToken, Quiet
  <2>2. ~Busy(p)'
    BY <1>9, <2>1, Aside DEF Busy
  <2>3. job'[p].meta \in {job[p].meta, None}
    <3>1. CASE Obtained(p, file["tokens"].text.access)
      BY <1>1, <3>1, ObtainedMeta
    <3>2. CASE GoTo(p, "reload")
      BY <1>1, <3>2 DEF GoTo, Becomes, JobTypes, Job
    <3> QED
      BY <1>1, <1>9, <3>1, <3>2, ExitMeta DEF GetAccessToken
  <2> QED
    BY <2>1, <2>2, <2>3
<1>10. CASE Refresh(p) /\ job'[p].pc # "sent"
  <2>1. ASSUME NEW q, NEW id, Sends(p, q, id) PROVE FALSE
    BY <1>1, <1>10, <2>1 DEF Sends, Becomes, JobTypes, Job
  <2> QED
    BY <1>5, <1>10, <2>1 DEF Refresh
<1>11. CASE Status(p)
  <2>1. CASE HasMeta(p)
             /\ Becomes(p, [job[p] EXCEPT !.pc = "get", !.then = "call", !.meta = Meta(p)])
    BY <1>1, <1>11, <2>1 DEF Status, Quiet, Becomes, JobTypes, Job, Busy
  <2> QED
    BY <1>5, <1>11, <2>1 DEF Status, Quiet
<1>12. CASE Call(p)
  <2>1. disturbed' = disturbed
    BY <1>12 DEF Call, Quiet
  <2>2. CASE Recovers(p)
    BY <1>1, <2>1, <2>2 DEF Recovers, Becomes, JobTypes, Job, Busy
  <2>3. ASSUME NEW payload, Passed(p, payload) PROVE Fine
    BY <1>1, <2>1, <2>3 DEF Passed, Becomes, JobTypes, Job, Busy
  <2> QED
    BY <1>5, <1>12, <2>1, <2>2, <2>3 DEF Call
<1>13. CASE Compare(p)
  BY <1>5, <1>13 DEF Compare, Quiet
<1> QED
  BY <1>6, <1>7, <1>8, <1>9, <1>10, <1>11, <1>12, <1>13

\* A request is decided on, and sent.
LEMMA KeepRegister ==
    ASSUME TypeInv, KeepInv, NEW p \in Proc, Register(p), job'[p].pc = "post"
    PROVE  KeepInv'
<1> SUFFICES ASSUME ~disturbed' PROVE KeepInv'
  BY DEF KeepInv
<1>1. JobTypes /\ job[p] \in Job
  BY DEF TypeInv, JobTypes
<1>2. Missing("client") /\ GoTo(p, "post") /\ Enters(p)
  BY <1>1, ExitMeta DEF Register
<1>3. /\ ~disturbed /\ \A q \in Proc \ {p} : job'[q] = job[q] /\ ~Busy(q)
      /\ UNCHANGED <<grant, owner, diskVars>> /\ ~Busy(p)
  BY <1>2, StepOthers DEF Enters, Step, Register, serverVars, At, Busy
<1>4. /\ job'[p].cmd = job[p].cmd /\ job'[p].meta = job[p].meta
  BY <1>1, <1>2 DEF GoTo, Becomes, JobTypes, Job
<1>5. FilesClosed /\ TmpOpened /\ PairKept /\ Sound(p)
  BY <1>3 DEF KeepInv
<1>6. FilesClosed'
  BY <1>3, <1>5, SameFilesKept
<1>7. TmpOpened'
  BY <1>3, <1>5, SameTmpOpened DEF TypeInv, Busy, At
<1>8. PairKept'
  <2>1. \A q \in Proc : ~Carrier(q)
    BY <1>3, CarriersBusy
  <2> QED
    BY <1>3, <1>5, <2>1, SamePairKept DEF Bringing
<1>9. Sound(p)'
  <2>1. job[p].meta # None => Readable("client") /\ file["client"].text = job[p].meta
    BY <1>5 DEF Sound
  <2> QED
    BY <1>2, <1>3, <1>4, <2>1 DEF Sound, At, Asking, Carrier, Missing, Readable, diskVars
<1> QED
  BY <1>3, <1>6, <1>7, <1>8, <1>9, KeepBusy DEF diskVars

\* What is sent is what the files hold.
LEMMA KeepSends ==
    ASSUME TypeInv, TypeInv', KeepInv, NEW p \in Proc, ~Carrier(p), ~At(p, "write"),
           ~disturbed, \A q \in Proc \ {p} : job'[q] = job[q] /\ ~Busy(q),
           UNCHANGED <<grant, owner, diskVars>>,
           job'[p].pc = "sent", job'[p].cmd = job[p].cmd,
           job[p].cmd = "register" => Missing("client") /\ job'[p].meta = None,
           job[p].cmd # "register" =>
               /\ Readable("client") /\ job'[p].meta = file["client"].text
               /\ job'[p].meta # None /\ job'[p].wire.client = job'[p].meta,
           job'[p].wire.kind = "refresh" =>
               Readable("tokens") /\ job'[p].wire.token = file["tokens"].text.refresh
    PROVE  KeepInv'
<1>1. FilesClosed /\ TmpOpened /\ PairKept
  BY DEF KeepInv
<1>2. FilesClosed'
  BY <1>1, SameFilesKept
<1>3. TmpOpened'
  BY <1>1, SameTmpOpened DEF TypeInv
<1>4. PairKept'
  <2>1. \A q \in Proc : ~Carrier(q)
    BY CarriersBusy
  <2> QED
    BY <1>1, <2>1, SamePairKept DEF Bringing
<1>5. Sound(p)'
  BY DEF Sound, At, Asking, Carrier, Missing, Readable, diskVars
<1> QED
  BY <1>2, <1>3, <1>4, <1>5, KeepBusy DEF diskVars

LEMMA KeepPost ==
    ASSUME TypeInv, TypeInv', KeepInv, NEW p \in Proc, Post(p)
    PROVE  KeepInv'
<1> SUFFICES ASSUME ~disturbed' PROVE KeepInv'
  BY DEF KeepInv
<1>1. At(p, "post") /\ Busy(p) /\ job[p].cmd = "register" /\ ~disturbed
  BY DEF Post, At, Busy, TypeInv, JobTypes, Fit, Placed, Quiet
<1>2. Missing("client") /\ \A q \in Proc \ {p} : job'[q] = job[q] /\ ~Busy(q)
  BY <1>1, StepOthers DEF KeepInv, Alone, Sound, Step
<1>3. /\ job'[p].pc = "sent" /\ job'[p].cmd = job[p].cmd /\ job'[p].meta = None
      /\ job'[p].wire.kind = "register"
  BY DEF Post, Sends, Becomes, TypeInv, JobTypes, Job
<1>4. UNCHANGED <<grant, owner, diskVars>>
  BY DEF Post, Quiet, serverVars
<1> QED
  BY <1>1, <1>2, <1>3, <1>4, KeepSends DEF Carrier, At

LEMMA KeepCallback ==
    ASSUME TypeInv, TypeInv', KeepInv, NEW p \in Proc, Callback(p)
    PROVE  KeepInv'
<1> SUFFICES ASSUME ~disturbed' PROVE KeepInv'
  BY DEF KeepInv
<1>1. At(p, "listen") /\ job[p].cmd = "auth" /\ job[p].meta \in ClientId
  BY DEF Callback, At, TypeInv, JobTypes, Fit, Placed
<1>2. ~disturbed /\ \A q \in Proc \ {p} : job'[q] = job[q] /\ ~Busy(q)
  BY StepOthers DEF Callback, Enters
<1>3. /\ job'[p].pc = "sent" /\ job'[p].cmd = job[p].cmd /\ job'[p].meta = job[p].meta
      /\ job'[p].wire = [kind |-> "code", client |-> job[p].meta, since |-> clock]
  BY DEF Callback, Sends, Becomes, TypeInv, JobTypes, Job
<1>4. UNCHANGED <<grant, owner, diskVars>>
  BY DEF Callback, serverVars
<1>5. job[p].meta # None /\ Readable("client") /\ file["client"].text = job[p].meta
  BY <1>1, <1>2, NoneAssumption DEF KeepInv, Sound
<1>6. job'[p].wire.client = job[p].meta /\ job'[p].wire.kind = "code"
  BY <1>3
<1> QED
  BY <1>1, <1>2, <1>3, <1>4, <1>5, <1>6, KeepSends DEF Carrier, At

LEMMA KeepRefresh ==
    ASSUME TypeInv, TypeInv', KeepInv, NEW p \in Proc, Refresh(p), job'[p].pc = "sent"
    PROVE  KeepInv'
<1> SUFFICES ASSUME ~disturbed' PROVE KeepInv'
  BY DEF KeepInv
<1> DEFINE q == [kind |-> "refresh", token |-> file["tokens"].text.refresh,
                 client |-> Meta(p), since |-> clock]
<1>1. At(p, "reload") /\ job[p].cmd # "register"
  BY DEF Refresh, At, TypeInv, JobTypes, Fit, Placed
<1>2. Readable("tokens") /\ HasMeta(p) /\ Sends(p, q, Meta(p)) /\ Enters(p)
  BY ExitMeta DEF Refresh, TypeInv
<1>3. ~disturbed /\ \A r \in Proc \ {p} : job'[r] = job[r] /\ ~Busy(r)
  BY <1>2, StepOthers DEF Step, Enters
<1>4. q.kind = "refresh" /\ q.client = Meta(p) /\ q.token = file["tokens"].text.refresh
  OBVIOUS
<1> HIDE DEF q
<1>5. /\ job'[p].pc = "sent" /\ job'[p].cmd = job[p].cmd /\ job'[p].meta = Meta(p)
      /\ job'[p].wire = q
  BY <1>2 DEF Sends, Becomes, TypeInv, JobTypes, Job
<1>6. UNCHANGED <<grant, owner, diskVars>>
  BY DEF Refresh, serverVars
<1>7. Meta(p) # None /\ Readable("client") /\ file["client"].text = Meta(p)
  <2>1. Meta(p) # None
    BY <1>2, MetaFits, NoneAssumption DEF TypeInv
  <2>2. job[p].meta # None => Readable("client") /\ file["client"].text = job[p].meta
    BY <1>3 DEF KeepInv, Sound
  <2> QED
    BY <1>2, <2>1, <2>2 DEF HasMeta, Meta
<1> QED
  BY <1>1, <1>2, <1>3, <1>4, <1>5, <1>6, <1>7, KeepSends DEF Carrier, At

-----------------------------------------------------------------------------
(* The answer to a request that nobody disturbs.                            *)

\* Chain c is active, with that token, of that client.
OpenFor(t, id) == \E c \in Chain : /\ grant'[c].phase = "active" /\ grant'[c].holder = t
                                   /\ owner'[c] = id

LEMMA RotatedFor ==
    ASSUME ServerTypes, ChainInv, NEW q \in Wire, q.kind = "refresh",
           NEW answer, Rotates(q, answer)
    PROVE  \E t \in Token : answer = TokenPair(t) /\ OpenFor(t, q.client)
<1>1. PICK c \in Chain : /\ Spendable(q, c) /\ Unseen # {} /\ Rotation(c)
                         /\ answer = TokenPair(Draw(Unseen)) /\ owner' = owner
  BY DEF Rotates
<1>2. grant[c].phase = "active" /\ owner[c] = q.client
  BY <1>1, SpendableChain DEF Spendable
<1> DEFINE t == Draw(Unseen)
<1>3. t \in Token
  BY <1>1, DrawnFrom, UnseenTokens
<1>4. grant[c] \in Grant
  BY DEF ServerTypes
<1>5. grant'[c].holder = t /\ grant'[c].phase = "active"
  BY <1>1, <1>2, <1>4 DEF Rotation, ServerTypes, Grant
<1> HIDE DEF t
<1> QED
  BY <1>1, <1>2, <1>3, <1>5 DEF OpenFor, t

LEMMA GrantedFor ==
    ASSUME ServerTypes, NEW q, NEW answer, Grants(q, answer)
    PROVE  \E t \in Token : answer = TokenPair(t) /\ OpenFor(t, q.client)
<1> DEFINE c == Draw(UnbornChains)
           t == Draw(Unseen)
<1>1. c \in Chain /\ t \in Token
  BY DrawnFrom, UnseenTokens DEF Grants, UnbornChains
<1>2. /\ grant' = [grant EXCEPT ![c] = Opened(t)]
      /\ owner' = [owner EXCEPT ![c] = q.client]
      /\ answer = TokenPair(t)
  BY DEF Grants
<1> HIDE DEF c, t
<1>3. grant'[c] = Opened(t) /\ owner'[c] = q.client
  BY <1>1, <1>2 DEF ServerTypes
<1>4. Opened(t).phase = "active" /\ Opened(t).holder = t
  BY DEF Opened
<1> QED
  BY <1>1, <1>2, <1>3, <1>4 DEF OpenFor

LEMMA KeepServe ==
    ASSUME TypeInv, TypeInv', ChainInv, KeepInv, NEW p \in Proc, Serve(p)
    PROVE  KeepInv'
<1> SUFFICES ASSUME ~disturbed' PROVE KeepInv'
  BY DEF KeepInv
<1>1. PICK answer \in Answers :
         /\ Handles(job[p].wire, answer) /\ ~disturbed
         /\ Becomes(p, [job[p] EXCEPT !.pc = "answered", !.reply = answer])
  <2>1. PICK answer \in Answers :
           /\ \/ Handles(job[p].wire, answer) /\ disturbed' = disturbed
              \/ disturbed' = TRUE
           /\ Becomes(p, [job[p] EXCEPT !.pc = "answered", !.reply = answer])
    BY Zenon DEF Serve
  <2>2. disturbed' # TRUE /\ (disturbed' = disturbed => ~disturbed)
    BY Zenon DEF TypeInv
  <2>3. Handles(job[p].wire, answer) /\ ~disturbed
    BY <2>1, <2>2, Zenon
  <2> QED
    BY <2>1, <2>3, Zenon
<1> DEFINE q == job[p].wire
<1>2. /\ At(p, "sent") /\ Busy(p) /\ q \in Wire
      /\ q.kind = "register" <=> job[p].cmd = "register"
      /\ q.kind \in {"register", "code", "refresh"}
  BY DEF Serve, At, Busy, TypeInv, JobTypes, Fit, Carried, Wire
<1>3. /\ Alone /\ FilesClosed /\ TmpOpened /\ PairKept /\ Sound(p)
      /\ \A r \in Proc \ {p} : job'[r] = job[r] /\ ~Busy(r)
  BY <1>1, <1>2, StepOthers DEF KeepInv, Alone, Step
<1>4. /\ job'[p].pc = "answered" /\ job'[p].reply = answer /\ job'[p].wire = q
      /\ job'[p].cmd = job[p].cmd /\ job'[p].meta = job[p].meta
  BY <1>1 DEF Becomes, TypeInv, JobTypes, Job
<1>5. UNCHANGED diskVars
  BY DEF Serve
<1>6. /\ job[p].cmd = "register" => Missing("client")
      /\ job[p].meta # None => Readable("client") /\ file["client"].text = job[p].meta
      /\ job[p].cmd # "register" => job[p].meta # None /\ q.client = job[p].meta
      /\ q.kind = "refresh" => Readable("tokens") /\ q.token = file["tokens"].text.refresh
  BY <1>2, <1>3 DEF Sound, Asking, At
<1>7. CASE job[p].cmd = "register"
  <2>1. answer.ok
    BY <1>1, <1>2, <1>7 DEF Handles, Registers, Grants, Rotates, Refuses
  <2>2. Missing("tokens")
    BY <1>3, <1>6, <1>7 DEF PairKept, Missing, Readable
  <2>3. PairKept'
    BY <1>5, <2>2 DEF PairKept, Missing, diskVars
  <2>4. Sound(p)'
    BY <1>4, <1>5, <1>6, <1>7, <2>1
       DEF Sound, At, Asking, Carrier, Missing, Readable, diskVars
  <2>5. FilesClosed' /\ TmpOpened'
    BY <1>2, <1>3, <1>5, SameFilesKept, SameTmpOpened DEF TypeInv, At
  <2> QED
    BY <1>1, <1>3, <1>5, <2>3, <2>4, <2>5, KeepBusy DEF diskVars
<1>8. CASE job[p].cmd # "register"
  <2>1. \E t \in Token : answer = TokenPair(t) /\ OpenFor(t, q.client)
    <3>1. CASE q.kind = "code"
      <4>1. Grants(q, answer)
        BY <1>1, <3>1 DEF Handles
      <4> QED
        BY <4>1, GrantedFor DEF TypeInv
    <3>2. CASE q.kind = "refresh"
      <4>1. ~Bringing
        BY <1>2, <1>3, CarriersBusy DEF Bringing, At, Carrier
      <4>2. Current(file["tokens"].text.refresh)
        BY <1>3, <1>6, <3>2, <4>1 DEF PairKept, Missing, Readable
      <4>3. \E c \in Chain : Spendable(q, c)
        BY <1>6, <1>8, <3>2, <4>2 DEF Current, Spendable
      <4>4. Rotates(q, answer)
        BY <1>1, <3>2, <4>3 DEF Handles, Refuses
      <4> QED
        BY <1>2, <3>2, <4>4, RotatedFor DEF TypeInv
    <3> QED
      BY <1>2, <1>8, <3>1, <3>2
  <2>2. PICK t \in Token : answer = TokenPair(t) /\ OpenFor(t, q.client)
    BY <2>1
  <2>3. answer.ok /\ answer.refresh = t
    BY <2>2 DEF TokenPair
  <2>4. /\ file' = file /\ Readable("client") /\ q.client = file["client"].text
    BY <1>5, <1>6, <1>8 DEF diskVars
  <2>5. Current(Brought(p))'
    <3>1. Brought(p)' = t
      BY <1>4, <2>3 DEF Brought
    <3> HIDE DEF q
    <3>2. Readable("client")' /\ OpenFor(t, file'["client"].text)
      BY <2>2, <2>4 DEF Readable
    <3> QED
      BY <3>1, <3>2 DEF Current, OpenFor
  <2>6. Carrier(p)'
    BY <1>4, <1>8, <2>3 DEF Carrier
  <2>7. PairKept'
    BY <2>4, <2>6 DEF PairKept, Bringing, Readable
  <2>8. Sound(p)'
    BY <1>4, <1>5, <1>6, <1>8, <2>3, <2>5
       DEF Sound, At, Asking, Missing, Readable, diskVars
  <2>9. FilesClosed' /\ TmpOpened'
    BY <1>2, <1>3, <1>5, SameFilesKept, SameTmpOpened DEF TypeInv, At
  <2> QED
    BY <1>1, <1>3, <1>5, <2>7, <2>8, <2>9, KeepBusy DEF diskVars
<1> QED
  BY <1>7, <1>8

\* The answer is an answer.
LEMMA KeepRefused ==
    ASSUME TypeInv, KeepInv, NEW p \in Proc, Refused(p)
    PROVE  KeepInv'
<1>1. disturbed' = disturbed /\ At(p, "answered") /\ ~job[p].reply.ok
  BY DEF Refused, Quiet
<1>2. ~disturbed => FALSE
  BY <1>1 DEF KeepInv, Sound
<1> QED
  BY <1>1, <1>2 DEF KeepInv

\* The temporary file is opened, and nobody else has it open.
LEMMA KeepAccepted ==
    ASSUME TypeInv, KeepInv, NEW p \in Proc, Accepted(p)
    PROVE  KeepInv'
<1> SUFFICES ASSUME ~disturbed PROVE KeepInv'
  BY DEF KeepInv, Accepted
<1> DEFINE f == Target(p)
<1>1. /\ At(p, "answered") /\ Busy(p) /\ job[p].reply.ok /\ f \in Files
      /\ UNCHANGED <<grant, owner, file>>
      /\ tmp' = [tmp EXCEPT ![f] = Node("torn", None, @.fds \cup {p})]
  BY TargetFits DEF Accepted, At, Busy, serverVars
<1>2. /\ job'[p].pc = "write" /\ job'[p].reply = Document(p) /\ job'[p].cmd = job[p].cmd
      /\ job'[p].meta = job[p].meta
  BY DEF Accepted, Becomes, TypeInv, JobTypes, Job
<1>3. /\ FilesClosed /\ TmpOpened /\ PairKept /\ Sound(p)
      /\ \A q \in Proc \ {p} : job'[q] = job[q] /\ ~Busy(q)
  BY <1>1, StepOthers DEF KeepInv, Alone, Step
<1>4. \A g \in Files : tmp[g].fds = {}
  <2> SUFFICES ASSUME NEW g \in Files, NEW q \in tmp[g].fds PROVE FALSE
    OBVIOUS
  <2>1. q \in Proc /\ At(q, "write")
    BY <1>3 DEF TmpOpened, TypeInv, DiskTypes, Stored, FileOf
  <2> QED
    BY <1>1, <1>3, <2>1 DEF At, Busy
<1>5. Target(p)' = f
  BY <1>2 DEF Target
<1> HIDE DEF f
<1>6. tmp'[f].fds = {p} /\ \A g \in Files \ {f} : tmp'[g].fds = {}
  BY <1>1, <1>4 DEF TypeInv, DiskTypes, Node
<1>7. FilesClosed'
  BY <1>1, <1>3 DEF FilesClosed
<1>8. TmpOpened'
  BY <1>2, <1>5, <1>6 DEF TmpOpened, At
<1>9. Carrier(p)' = Carrier(p) /\ (Carrier(p) => Brought(p)' = Brought(p))
  <2>1. Carrier(p)' = Carrier(p)
    BY <1>1, <1>2 DEF Carrier, At
  <2>2. ASSUME Carrier(p) PROVE Document(p) = Saved(job[p].reply, clock)
    BY <2>2, TargetFits DEF Document, Carrier
  <2> QED
    BY <1>2, <2>1, <2>2 DEF Brought, Saved
<1>10. PairKept'
  <2>1. Bringing => Bringing'
    BY <1>3, <1>9, CarriersBusy DEF Bringing
  <2>2. \A t : Current(t) => Current(t)'
    BY <1>1 DEF Current, Readable
  <2> QED
    BY <1>1, <1>3, <2>1, <2>2 DEF PairKept, Missing, Readable, Current
<1>11. Sound(p)'
  <2>1. Carrier(p)' => Current(Brought(p))'
    <3> SUFFICES ASSUME Carrier(p)' PROVE Current(Brought(p))'
      OBVIOUS
    <3>1. Current(Brought(p)) /\ Brought(p)' = Brought(p)
      BY <1>3, <1>9 DEF Sound
    <3> QED
      BY <1>1, <3>1 DEF Current, Readable
  <2> QED
    BY <1>1, <1>2, <1>3, <1>5, <1>6, <2>1 DEF Sound, At, Asking, Busy, Missing, Readable
<1> QED
  BY <1>1, <1>3, <1>7, <1>8, <1>10, <1>11, KeepBusy

LEMMA KeepWrite ==
    ASSUME TypeInv, KeepInv, NEW p \in Proc, Write(p)
    PROVE  KeepInv'
<1> SUFFICES ASSUME ~disturbed PROVE KeepInv'
  BY DEF KeepInv, Write
<1> DEFINE f == Target(p)
<1>1. /\ At(p, "write") /\ Busy(p) /\ f \in Files
      /\ UNCHANGED <<grant, owner>>
      /\ tmp' = [tmp EXCEPT ![f] = Written(@, p)]
      /\ file' = [file EXCEPT ![f] = Written(@, p)]
  BY TargetFits DEF Write, At, Busy, serverVars
<1>2. /\ job'[p].pc = "rename" /\ job'[p].reply = job[p].reply /\ job'[p].cmd = job[p].cmd
      /\ job'[p].meta = job[p].meta
  BY DEF Write, GoTo, Becomes, TypeInv, JobTypes, Job
<1>3. /\ FilesClosed /\ TmpOpened /\ PairKept /\ Sound(p)
      /\ \A q \in Proc \ {p} : job'[q] = job[q] /\ ~Busy(q)
  BY <1>1, StepOthers DEF KeepInv, Alone, Step
<1>4. file' = file
  <2>1. Written(file[f], p) = file[f]
    BY <1>1, <1>3 DEF FilesClosed, Written
  <2> QED
    BY <1>1, <2>1 DEF TypeInv, DiskTypes
<1>5. Target(p)' = f
  BY <1>2 DEF Target
<1>6. tmp'[f] = Node("whole", job[p].reply, {}) /\ \A g \in Files \ {f} : tmp'[g] = tmp[g]
  <2>1. tmp[f].fds = {p}
    BY <1>1, <1>3 DEF Sound
  <2>2. Written(tmp[f], p) = Node("whole", job[p].reply, {})
    BY <2>1 DEF Written
  <2> QED
    BY <1>1, <2>2 DEF TypeInv, DiskTypes
<1> HIDE DEF f
<1>7. FilesClosed'
  BY <1>3, <1>4 DEF FilesClosed
<1>8. TmpOpened'
  <2> SUFFICES ASSUME NEW g \in Files, NEW q \in tmp'[g].fds PROVE FALSE
    BY DEF TmpOpened
  <2>1. g # f
    BY <1>6 DEF Node
  <2>2. q \in tmp[g].fds /\ q \in Proc
    BY <1>6, <2>1 DEF TypeInv, DiskTypes, Stored, FileOf
  <2>3. At(q, "write") /\ Target(q) = g
    BY <1>3, <2>2 DEF TmpOpened
  <2> QED
    BY <1>3, <2>1, <2>2, <2>3 DEF At, Busy, f
<1>9. Carrier(p)' = Carrier(p) /\ Brought(p)' = Brought(p)
  BY <1>1, <1>2 DEF Carrier, At, Brought
<1>10. PairKept'
  <2>1. Bringing => Bringing'
    BY <1>3, <1>9, CarriersBusy DEF Bringing
  <2> QED
    BY <1>1, <1>3, <1>4, <2>1 DEF PairKept, Missing, Readable, Current
<1>11. Sound(p)'
  <2>1. Carrier(p)' => Current(Brought(p))'
    <3> SUFFICES ASSUME Carrier(p)' PROVE Current(Brought(p))'
      OBVIOUS
    <3>1. Current(Brought(p)) /\ Brought(p)' = Brought(p)
      BY <1>3, <1>9 DEF Sound
    <3> QED
      BY <1>1, <1>4, <3>1 DEF Current, Readable
  <2> QED
    BY <1>1, <1>2, <1>3, <1>4, <1>5, <1>6, <2>1 DEF Sound, At, Asking, Busy, Missing, Readable
<1> QED
  BY <1>3, <1>4, <1>7, <1>8, <1>10, <1>11, KeepBusy

\* The pair the server will accept is in the file.
LEMMA KeepRename ==
    ASSUME TypeInv, KeepInv, NEW p \in Proc, Rename(p)
    PROVE  KeepInv'
<1> SUFFICES ASSUME ~disturbed PROVE KeepInv'
  BY DEF KeepInv, Rename
<1> DEFINE f == Target(p)
<1>1. At(p, "rename") /\ Busy(p) /\ f \in Files /\ UNCHANGED <<grant, owner>>
  BY TargetFits DEF Rename, At, Busy, serverVars
<1>2. /\ FilesClosed /\ TmpOpened /\ PairKept /\ Sound(p)
      /\ \A q \in Proc \ {p} : job'[q] = job[q] /\ ~Busy(q)
  BY <1>1, StepOthers DEF KeepInv, Alone, Step
<1>3. tmp[f] = Node("whole", job[p].reply, {}) /\ tmp[f] # Absent
  <2>1. tmp[f] = Node("whole", job[p].reply, {})
    BY <1>1, <1>2 DEF Sound
  <2> QED
    BY <2>1 DEF Node, Absent
<1>4. /\ file'[f] = Node("whole", job[p].reply, {})
      /\ tmp'[f] = Absent
      /\ \A g \in Files \ {f} : file'[g] = file[g] /\ tmp'[g] = tmp[g]
  BY <1>1, <1>3 DEF Rename, Saves, TypeInv, DiskTypes
<1> HIDE DEF f
<1>5. ~Busy(p)' /\ ~Carrier(p)'
  <2>1. job'[p].pc # "post"
    <3>1. JobTypes /\ job[p] \in Job
      BY DEF TypeInv, JobTypes
    <3>2. ASSUME NEW code, Exits(p, code) PROVE job'[p].pc # "post"
      BY <3>1, <3>2, ExitMeta
    <3>3. CASE job[p].cmd \notin {"register", "auth"} /\ Obtained(p, job[p].reply.access)
      <4>1. job[p].reply.access \in Access
        BY <1>1, <3>3 DEF At, TypeInv, JobTypes, Fit, Carried, Pair
      <4> QED
        BY <1>1, <3>1, <3>3, <4>1, ObtainedFits DEF At
    <3> QED
      BY <3>2, <3>3 DEF Rename
  <2> QED
    BY <2>1, RenameGoesOn DEF Busy, Carrier
<1>6. job'[p].meta \in {job[p].meta, None}
  BY <1>3, ExitMeta, ObtainedMeta DEF Rename, TypeInv, f
<1>7. FilesClosed'
  BY <1>2, <1>4 DEF FilesClosed, Node
<1>8. TmpOpened'
  <2> SUFFICES ASSUME NEW g \in Files, NEW q \in tmp'[g].fds PROVE FALSE
    BY DEF TmpOpened
  <2>1. q \in tmp[g].fds /\ q \in Proc
    BY <1>4 DEF TypeInv, DiskTypes, Stored, FileOf, Absent, Node
  <2> QED
    BY <1>1, <1>2, <2>1 DEF TmpOpened, At, Busy
<1>9. CASE job[p].cmd = "register"
  <2>1. f = "client" /\ Missing("client") /\ job'[p].meta = None
    <3>1. job'[p].meta = None
      BY <1>3, <1>9, ExitMeta DEF Rename, TypeInv, f
    <3> QED
      BY <1>1, <1>2, <1>9, <3>1 DEF Sound, Target, f
  <2>2. Missing("tokens") /\ file'["tokens"] = file["tokens"]
    BY <1>2, <1>4, <2>1 DEF PairKept, Missing, Readable, Files
  <2>3. PairKept'
    BY <2>2 DEF PairKept, Missing
  <2>4. Sound(p)'
    BY <1>5, <2>1, IdleSound
  <2> QED
    BY <1>2, <1>7, <1>8, <2>1, <2>3, <2>4, KeepBusy
<1>10. CASE job[p].cmd # "register"
  <2>1. f = "tokens" /\ Carrier(p) /\ file'["client"] = file["client"]
    BY <1>1, <1>4, <1>10 DEF Target, Carrier, At, Files, f
  <2>2. Current(job[p].reply.refresh)
    BY <1>2, <2>1 DEF Sound, Brought
  <2>3. PairKept'
    <3> DEFINE t == job[p].reply.refresh
    <3>1. file'["tokens"].text.refresh = t
      BY <1>4, <2>1 DEF Node
    <3>2. Current(t)
      BY <2>2
    <3> HIDE DEF t
    <3>3. Readable("client")' /\ Current(file["tokens"].text.refresh)'
      BY <1>1, <2>1, <3>1, <3>2 DEF Current, Readable
    <3> QED
      BY <3>3 DEF PairKept
  <2>4. Sound(p)'
    <3>1. job[p].meta # None => Readable("client") /\ file["client"].text = job[p].meta
      BY <1>2 DEF Sound
    <3> QED
      BY <1>5, <1>6, <2>1, <3>1, IdleSound DEF Readable
  <2> QED
    BY <1>2, <1>7, <1>8, <2>1, <2>3, <2>4, KeepBusy
<1> QED
  BY <1>9, <1>10

\* A death that takes nothing with it.
LEMMA KeepDie ==
    ASSUME TypeInv, KeepInv, NEW p \in Proc, Die(p)
    PROVE  KeepInv'
<1> SUFFICES ASSUME ~disturbed' PROVE KeepInv'
  BY DEF KeepInv
<1>1. /\ ~disturbed /\ disturbed' = FALSE /\ disturbed = FALSE
      /\ job[p].pc \notin {"write", "rename"}
      /\ ~(At(p, "answered") /\ job[p].reply.ok)
  <2>1. disturbed' = (disturbed \/ job[p].pc \in {"write", "rename"}
                                \/ (At(p, "answered") /\ job[p].reply.ok))
    BY DEF Die
  <2> QED
    BY <2>1, Zenon DEF TypeInv
<1>2. /\ Alone /\ FilesClosed /\ TmpOpened /\ PairKept /\ Sound(p)
      /\ \A q \in Proc \ {p} : job'[q] = job[q]
  BY <1>1, StepOthers DEF KeepInv
<1>3. At(p, "post") \/ At(p, "sent") \/ At(p, "listen")
  BY <1>1, <1>2 DEF Die, Busy, At, Sound
<1>4. UNCHANGED <<grant, owner, diskVars>>
  <2>1. ASSUME NEW n, NEW g, Stored(n, g), p \notin n.fds PROVE Closed(n, p) = n
    <3>1. n.fds \ {p} = n.fds
      BY <2>1
    <3> QED
      BY <2>1, <3>1 DEF Closed, Node, Stored, FileOf
  <2>2. \A g \in Files : Closed(file[g], p) = file[g] /\ Closed(tmp[g], p) = tmp[g]
    <3>1. \A g \in Files : p \notin file[g].fds /\ p \notin tmp[g].fds
      BY <1>2, <1>3 DEF FilesClosed, TmpOpened, At
    <3> QED
      BY <2>1, <3>1 DEF TypeInv, DiskTypes
  <2>3. file' = file
    BY <2>2 DEF Die, TypeInv, DiskTypes
  <2>4. tmp' = tmp
    BY <1>3, <2>2 DEF Die, TypeInv, DiskTypes, At
  <2> QED
    BY <2>3, <2>4 DEF Die, serverVars, diskVars
<1>5. job'[p].meta = None /\ job'[p].pc = "done"
  BY ExitMeta DEF Die, TypeInv
<1>6. ~Busy(p)' /\ ~Carrier(p) /\ ~Carrier(p)' /\ ~At(p, "write")
  BY <1>3, <1>5 DEF Busy, Carrier, At
<1>7. CASE At(p, "listen")
  <2>1. ~Busy(p) /\ disturbed' = disturbed
    BY <1>1, <1>7 DEF At, Busy
  <2> QED
    BY <1>2, <1>4, <1>5, <1>6, <2>1, KeepIdle
<1>8. CASE ~At(p, "listen")
  <2>1. \A q \in Proc \ {p} : ~Busy(q)
    BY <1>2, <1>3, <1>8 DEF Alone, Busy, At
  <2>2. FilesClosed' /\ TmpOpened'
    BY <1>2, <1>4, <1>6, SameFilesKept, SameTmpOpened DEF TypeInv
  <2>3. PairKept'
    <3>1. ~Bringing
      BY <1>6, <2>1, CarriersBusy DEF Bringing
    <3> QED
      BY <1>2, <1>4, <3>1, SamePairKept
  <2>4. Sound(p)'
    BY <1>5, <1>6, IdleSound
  <2> QED
    BY <1>1, <1>2, <1>4, <2>1, <2>2, <2>3, <2>4, KeepBusy DEF diskVars
<1> QED
  BY <1>7, <1>8

\* A late request that changes a grant disturbs.
LEMMA KeepServeLate ==
    ASSUME TypeInv, KeepInv, ServeLate
    PROVE  KeepInv'
<1> SUFFICES ASSUME ~disturbed' PROVE KeepInv'
  BY DEF KeepInv
<1>1. grant' = grant /\ disturbed' = disturbed
  <2>1. disturbed' = (disturbed \/ grant' # grant)
    BY DEF ServeLate
  <2> QED
    BY <2>1, Zenon DEF TypeInv
<1>2. PICK q \in late : \E answer \in Answers : Handles(q, answer)
  BY DEF ServeLate
<1>3. q.kind = "refresh"
  BY <1>2 DEF TypeInv, RefreshWire
<1>4. owner' = owner
  BY <1>2, <1>3 DEF Handles, Rotates, Refuses
<1> QED
  BY <1>1, <1>4, SameKept DEF ServeLate

LEMMA KeepInit == Init => KeepInv
<1> SUFFICES ASSUME Init PROVE KeepInv
  OBVIOUS
<1>1. ASSUME NEW p \in Proc PROVE ~Busy(p) /\ job[p].meta = None
  <2>1. PICK c \in Command, v \in Validates \cup {<<>>} : job[p] = NewJob(c, v)
    BY DEF Init
  <2>2. job[p].pc = Entry(c) /\ job[p].meta = None
    BY <2>1 DEF NewJob
  <2>3. Entry(c) \in {"register", "auth", "reload", "get", "status"}
    BY CommandAssumption DEF Entry
  <2> QED
    BY <2>2, <2>3 DEF Busy
<1>2. \A p \in Proc : Sound(p)
  BY <1>1 DEF Sound, Busy, At, Asking, Carrier
<1>3. TmpOpened
  BY DEF TmpOpened, Init, Absent, Node
<1>4. FilesClosed /\ PairKept
  <2>1. CASE Empty
    BY <2>1 DEF Empty, FilesClosed, PairKept, Missing, Files, Absent, Node
  <2>2. CASE Provisioned
    <3> DEFINE c == Draw(Chain)
               t == Draw(Token)
               id == Draw(ClientId)
    <3>1. c \in Chain
      BY ServerAssumption, DrawnFrom
    <3>2. grant[c] = Opened(t) /\ owner[c] = id
      BY <2>2, <3>1 DEF Provisioned
    <3>3. /\ file["client"] = Node("whole", id, {})
          /\ file["tokens"] = Node("whole", Saved(TokenPair(t), 0), {})
      BY <2>2 DEF Provisioned, Files
    <3>4. Saved(TokenPair(t), 0).refresh = t
      BY DEF Saved, TokenPair
    <3> HIDE DEF c, t, id
    <3>5. Current(file["tokens"].text.refresh)
      BY <3>1, <3>2, <3>3, <3>4 DEF Current, Readable, Node, Opened
    <3>6. FilesClosed
      BY <3>3 DEF FilesClosed, Files, Node
    <3> QED
      BY <3>5, <3>6 DEF PairKept, Current
  <2> QED
    BY <2>1, <2>2 DEF Init
<1> QED
  BY <1>1, <1>2, <1>3, <1>4 DEF KeepInv, Alone

LEMMA KeepNext ==
    ASSUME TypeInv, TypeInv', ChainInv, KeepInv, [Next]_vars
    PROVE  KeepInv'
<1>1. ASSUME NEW p \in Proc, Step(p) \/ Callback(p) \/ Die(p)
      PROVE  KeepInv'
  BY <1>1, KeepAside, KeepRegister, KeepPost, KeepCallback, KeepRefresh, KeepServe,
     KeepRefused, KeepAccepted, KeepWrite, KeepRename, KeepDie DEF Step
<1>2. CASE Restart
  BY <1>2, SameKept DEF Restart, Rekey
<1>3. CASE Tick
  BY <1>3, SameKept DEF Tick, serverVars
<1>4. CASE UNCHANGED vars
  BY <1>4, SameKept DEF vars, serverVars
<1> QED
  BY <1>1, <1>2, <1>3, <1>4, KeepServeLate DEF Next

LEMMA KeepAlways == Spec => [](TypeInv /\ KeepInv)
<1>1. TypeInv /\ ChainInv /\ [Next]_vars => ChainInv'
  BY ChainNext
<1>2. TypeInv /\ TypeInv' /\ ChainInv /\ KeepInv /\ [Next]_vars => KeepInv'
  BY KeepNext
<1> QED
  BY <1>1, <1>2, TypeAlways, ChainInit, KeepInit, PTL DEF Spec

\* Unless processes overlapped or an answer that changed a grant was lost, the
\* refresh token in the file is the one the server will accept, from the client
\* in the other file (oauth_client.py:293-330).
THEOREM GrantIsKept == Spec => []KeepsItsGrant
<1>1. ASSUME TypeInv, KeepInv PROVE KeepsItsGrant
  <2> SUFFICES ASSUME ~disturbed, \A p \in Proc : ~Busy(p), ~Missing("tokens")
               PROVE  Readable("tokens") /\ Current(file["tokens"].text.refresh)
    BY DEF KeepsItsGrant, Current
  <2>1. Readable("tokens")
    BY <1>1 DEF KeepInv, FilesClosed, Readable, Missing, TypeInv, DiskTypes, Stored, FileOf,
                Files
  <2>2. ~Bringing
    BY CarriersBusy DEF Bringing
  <2> QED
    BY <1>1, <2>1, <2>2 DEF KeepInv, PairKept
<1> QED
  BY <1>1, KeepAlways, PTL

LEMMA ObtainedExit ==
    ASSUME JobTypes, NEW p \in Proc, NEW a, Obtained(p, a)
    PROVE  job'[p].exit \in {job[p].exit, 0}
<1>1. job[p] \in Job /\ job[p].then \in {"exit", "status", "call", "again"}
  BY DEF JobTypes, Job
<1> DEFINE j == [job[p] EXCEPT !.reply = None]
<1>2. j \in Job /\ j.exit = job[p].exit /\ j.then = job[p].then
  BY <1>1 DEF Job
<1>3. Obtained(p, a) <=>
        Becomes(p, CASE j.then = "exit" -> [Ended(j.cmd, 0) EXCEPT !.bearer = a]
                     [] j.then = "status" -> [j EXCEPT !.pc = "status"]
                     [] j.then = "call" -> [j EXCEPT !.pc = "call", !.bearer = a]
                     [] j.then = "again" -> [j EXCEPT !.pc = "get", !.then = "call"])
  BY DEF Obtained
<1>4. [Ended(j.cmd, 0) EXCEPT !.bearer = a].exit = 0
  BY DEF Ended, NewJob
<1> HIDE DEF j
<1>5. /\ [j EXCEPT !.pc = "status"].exit = j.exit
      /\ [j EXCEPT !.pc = "call", !.bearer = a].exit = j.exit
      /\ [j EXCEPT !.pc = "get", !.then = "call"].exit = j.exit
  BY <1>2 DEF Job
<1> QED
  BY <1>1, <1>2, <1>3, <1>4, <1>5 DEF Becomes, JobTypes

\* Where exit code 2 comes from.
LEMMA ExitCodes ==
    ASSUME TypeInv, NEW p \in Proc, Step(p) \/ Callback(p) \/ Die(p)
    PROVE  \/ job'[p].exit \in {job[p].exit, 0, 1, 3}
           \/ Missing("tokens") \/ Missing("client") \/ Refused(p)
<1> DEFINE Harmless == job'[p].exit \in {job[p].exit, 0, 1, 3}
<1>1. JobTypes /\ job[p] \in Job /\ Fit(job[p])
  BY DEF TypeInv, JobTypes
<1>2. ASSUME Exits(p, 0) \/ Exits(p, 1) \/ Exits(p, 3) \/ Exits(p, Unforeseen(p))
      PROVE  Harmless
  BY <1>1, <1>2, EndsWith DEF Unforeseen
<1>3. ASSUME NEW j, Becomes(p, j), j.exit = job[p].exit PROVE Harmless
  BY <1>1, <1>3 DEF Becomes, JobTypes
<1>4. ASSUME NEW l, GoTo(p, l) PROVE Harmless
  BY <1>1, <1>4 DEF GoTo, Becomes, JobTypes, Job
<1>5. ASSUME NEW q, NEW id, Sends(p, q, id) PROVE Harmless
  BY <1>1, <1>5 DEF Sends, Becomes, JobTypes, Job
<1>6. ASSUME NEW a, Obtained(p, a) PROVE Harmless
  BY <1>1, <1>6, ObtainedExit
<1> SUFFICES Harmless \/ Missing("tokens") \/ Missing("client") \/ Refused(p)
  OBVIOUS
<1> HIDE DEF Harmless
<1>7. CASE Register(p)
  BY <1>2, <1>4, <1>7 DEF Register
<1>8. CASE Post(p) \/ Callback(p)
  BY <1>5, <1>8 DEF Post, Callback
<1>9. CASE Listen(p)
  <2>1. [job[p] EXCEPT !.pc = "listen", !.meta = Meta(p)].exit = job[p].exit
    BY <1>1 DEF Job
  <2> QED
    BY <1>2, <1>3, <1>9, <2>1 DEF Listen, NoMeta
<1>10. CASE NoCallback(p) \/ Die(p)
  BY <1>2, <1>10 DEF NoCallback, Die
<1>11. CASE GetAccessToken(p)
  BY <1>2, <1>4, <1>6, <1>11 DEF GetAccessToken
<1>12. CASE Refresh(p)
  BY <1>2, <1>5, <1>12 DEF Refresh, NoMeta
<1>13. CASE Serve(p)
  BY <1>1, <1>13 DEF Serve, Becomes, JobTypes, Job, Harmless
<1>14. CASE Accepted(p)
  BY <1>1, <1>14 DEF Accepted, Becomes, JobTypes, Job, Harmless
<1>15. CASE Write(p)
  BY <1>4, <1>15 DEF Write
<1>16. CASE Rename(p)
  BY <1>2, <1>6, <1>16 DEF Rename
<1>17. CASE Status(p)
  <2>1. [job[p] EXCEPT !.pc = "get", !.then = "call", !.meta = Meta(p)].exit = job[p].exit
    BY <1>1 DEF Job
  <2> QED
    BY <1>2, <1>3, <1>17, <2>1 DEF Status, NoMeta
<1>18. CASE Call(p)
  <2>1. CASE Recovers(p)
    BY <1>1, <2>1 DEF Recovers, Becomes, JobTypes, Job, Harmless
  <2>2. ASSUME NEW payload, Passed(p, payload) PROVE Harmless
    BY <1>1, <2>2 DEF Passed, Becomes, JobTypes, Job, Harmless
  <2> QED
    BY <1>2, <1>18, <2>1, <2>2 DEF Call
<1>19. CASE Compare(p)
  BY <1>2, <1>19 DEF Compare
<1>20. CASE Refused(p)
  BY <1>20
<1> QED
  BY <1>7, <1>8, <1>9, <1>10, <1>11, <1>12, <1>13, <1>14, <1>15, <1>16, <1>17, <1>18, <1>19,
     <1>20 DEF Step

\* Nobody is told to authenticate again whose refresh token is good, as long as
\* nothing overlapped, no answer was lost and the server did not fail
\* (cli.py:66-71,132-137, validate.py:65-70).
THEOREM NobodySentToAuthInVain == Spec => NotSentToAuthInVain
<1>1. ASSUME TypeInv, KeepInv, [Next]_vars, NEW p \in Proc,
             job'[p].exit = 2, job[p].exit # 2, ~disturbed, ~Missing("tokens")
      PROVE  FALSE
  <2>1. ASSUME NEW q \in Proc, q # p, Step(q) \/ Callback(q) \/ Die(q)
        PROVE  job'[p] = job[p]
    BY <1>1, <2>1, StepOthers
  <2>2. Step(p) \/ Callback(p) \/ Die(p)
    BY <1>1, <2>1 DEF Next, ServeLate, Restart, Tick, vars
  <2>3. ~Missing("client")
    BY <1>1 DEF KeepInv, PairKept, Missing, Readable
  <2>4. ~Refused(p)
    BY <1>1 DEF KeepInv, Sound, Refused
  <2> QED
    BY <1>1, <2>2, <2>3, <2>4, ExitCodes
<1>2. TypeInv /\ KeepInv /\ [Next]_vars =>
        [\A p \in Proc : job'[p].exit = 2 /\ job[p].exit # 2 =>
            disturbed \/ Missing("tokens")]_vars
  BY <1>1
<1> QED
  BY <1>2, KeepAlways, PTL DEF Spec, NotSentToAuthInVain

-----------------------------------------------------------------------------
(* Where an access token is.  It goes from the server to one process, from  *)
(* there to the temporary file and from there to tokens.json, and never     *)
(* back; so the token that was answered 401 is behind the one that follows. *)

Here(node, id) == node.state = "whole" /\ node.text.access.id = id

InFile(id) == Here(file["tokens"], id)
InTmp(id) == Here(tmp["tokens"], id)

\* The access token that a process brings.
New(p) == job[p].reply.access.id

Unwritten(p) == Carrier(p) /\ ~At(p, "rename")

\* A descriptor is in one of the two files at most.
DescriptorInv ==
    /\ \A p \in file["tokens"].fds \cup tmp["tokens"].fds :
          p \in Proc /\ At(p, "write") /\ Target(p) = "tokens"
    /\ file["tokens"].fds \cap tmp["tokens"].fds = {}

\* Nobody is to bring that token, nor is the temporary file.
Gone(id) == ~InTmp(id) /\ \A q \in Proc : Unwritten(q) => New(q) # id

\* No two places have the same token, but a process that has written it.
Apart ==
    /\ \A p, q \in Proc : Carrier(p) /\ Carrier(q) /\ p # q => New(p) # New(q)
    /\ \A p \in Proc : Unwritten(p) => ~InFile(New(p)) /\ ~InTmp(New(p))
    /\ \A id : ~(InFile(id) /\ InTmp(id))

UsesMinted(j) ==
    /\ j.bearer # None => j.bearer.id \in Minted(grant)
    /\ j.spurned # None => j.spurned.id \in Minted(grant)

AllMinted ==
    /\ \A id : InFile(id) \/ InTmp(id) => id \in Minted(grant)
    /\ \A p \in Proc : (Carrier(p) => New(p) \in Minted(grant)) /\ UsesMinted(job[p])

\* The token that was answered 401 does not come back.
Behind(j) ==
    /\ j.bearer # None => Gone(j.bearer.id)
    /\ j.spurned # None =>
          /\ Gone(j.spurned.id)
          /\ j.then = "call" => ~InFile(j.spurned.id)
          /\ j.pc = "call" => j.bearer.id # j.spurned.id
    /\ j.pc = "get" => j.then # "again"
    /\ j.pc = "status" \/ j.then = "status" => j.spurned = None

Ahead(p) == Carrier(p) /\ job[p].spurned # None => New(p) # job[p].spurned.id

FreshInv ==
    /\ DescriptorInv /\ Apart /\ AllMinted
    /\ \A p \in Proc : Behind(job[p]) /\ Ahead(p)

\* What becomes of the two files: they lose a token, the temporary file takes
\* the other's name, or a process writes what it has brought, in either.
Loses == \A id : (InFile(id)' => InFile(id)) /\ (InTmp(id)' => InTmp(id))

Moved == \A id : (InFile(id)' => InTmp(id)) /\ ~InTmp(id)'

Puts(p) ==
    /\ Unwritten(p) /\ ~Unwritten(p)'
    /\ \/ \A id : (InFile(id)' => InFile(id)) /\ (InTmp(id)' => InTmp(id) \/ id = New(p))
       \/ \A id : (InFile(id)' => InFile(id) \/ id = New(p)) /\ (InTmp(id)' => InTmp(id))

\* A step of p that brings no token nobody had.
Brings(p) ==
    /\ \A q \in Proc \ {p} : job'[q] = job[q]
    /\ Loses \/ Moved \/ Puts(p)
    /\ Carrier(p)' => Carrier(p) /\ New(p)' = New(p)
    /\ Unwritten(p)' => Unwritten(p)

LEMMA GoneStays ==
    ASSUME NEW p \in Proc, Brings(p), NEW id, Gone(id)
    PROVE  Gone(id)' /\ (InFile(id)' => InFile(id))
<1>1. ASSUME NEW q \in Proc, Unwritten(q)'
      PROVE  Unwritten(q) /\ New(q)' = New(q)
  BY <1>1 DEF Brings, Unwritten, Carrier, At, New
<1>2. ~InTmp(id)' /\ (InFile(id)' => InFile(id))
  BY DEF Brings, Loses, Moved, Puts, Gone
<1>3. \A q \in Proc : Unwritten(q)' => New(q)' # id
  BY <1>1 DEF Gone
<1> QED
  BY <1>2, <1>3 DEF Gone

LEMMA FreshTurn ==
    ASSUME FreshInv, NEW p \in Proc, Brings(p), DescriptorInv',
           \A t : t \in Minted(grant) => t \in Minted(grant'),
           Behind(job[p])', Ahead(p)', UsesMinted(job[p])'
    PROVE  FreshInv'
<1>1. Minted(grant)' = Minted(grant')
  BY DEF Minted
<1>2. ASSUME NEW q \in Proc
      PROVE  /\ Carrier(q)' => Carrier(q) /\ New(q)' = New(q)
             /\ Unwritten(q)' => Unwritten(q)
  BY DEF Brings, Unwritten, Carrier, At, New
<1>3. Apart'
  <2>1. \A q, r \in Proc : Carrier(q)' /\ Carrier(r)' /\ q # r => New(q)' # New(r)'
    BY <1>2 DEF FreshInv, Apart
  <2>2. ASSUME NEW q \in Proc, Unwritten(q)'
        PROVE  ~InFile(New(q))' /\ ~InTmp(New(q))'
    <3>1. Unwritten(q) /\ Carrier(q) /\ New(q)' = New(q)
      BY <1>2, <2>2 DEF Unwritten
    <3>2. ~InFile(New(q)) /\ ~InTmp(New(q))
      BY <3>1 DEF FreshInv, Apart
    <3>3. Puts(p) => New(q) # New(p)
      <4>1. ASSUME Puts(p) PROVE q # p /\ Carrier(p)
        BY <2>2, <4>1 DEF Puts, Unwritten
      <4> QED
        BY <3>1, <4>1 DEF FreshInv, Apart
    <3>4. ASSUME NEW id, ~InFile(id), ~InTmp(id), Puts(p) => id # New(p)
          PROVE  ~InFile(id)' /\ ~InTmp(id)'
      BY <3>4 DEF Brings, Loses, Moved, Puts
    <3> QED
      BY <3>1, <3>2, <3>3, <3>4 DEF InFile, InTmp
  <2>3. ASSUME NEW id PROVE ~(InFile(id)' /\ InTmp(id)')
    <3>1. ~(InFile(id) /\ InTmp(id))
      BY DEF FreshInv, Apart
    <3>2. Puts(p) => ~InFile(New(p)) /\ ~InTmp(New(p))
      BY DEF FreshInv, Apart, Puts
    <3> QED
      BY <3>1, <3>2 DEF Brings, Loses, Moved, Puts
  <2> QED
    BY <2>1, <2>2, <2>3 DEF Apart
<1>4. AllMinted'
  <2>1. ASSUME NEW id, InFile(id)' \/ InTmp(id)' PROVE id \in Minted(grant)'
    <3>1. Puts(p) => New(p) \in Minted(grant)
      BY DEF FreshInv, AllMinted, Puts, Unwritten
    <3> QED
      BY <1>1, <2>1, <3>1 DEF Brings, Loses, Moved, Puts, FreshInv, AllMinted
  <2>2. ASSUME NEW q \in Proc, Carrier(q)' PROVE New(q)' \in Minted(grant)'
    BY <1>1, <1>2, <2>2 DEF FreshInv, AllMinted
  <2>3. ASSUME NEW q \in Proc, q # p PROVE UsesMinted(job[q])'
    BY <1>1, <2>3 DEF Brings, FreshInv, AllMinted, UsesMinted
  <2> QED
    BY <2>1, <2>2, <2>3 DEF AllMinted
<1>5. ASSUME NEW q \in Proc, q # p PROVE Behind(job[q])' /\ Ahead(q)'
  <2>1. job'[q] = job[q] /\ Behind(job[q]) /\ Ahead(q)
    BY <1>5 DEF Brings, FreshInv
  <2>2. Ahead(q)'
    BY <1>2, <2>1 DEF Ahead
  <2> DEFINE b == job[q].bearer
             s == job[q].spurned
  <2>3. /\ b # None => Gone(b.id)'
        /\ s # None => Gone(s.id)' /\ (InFile(s.id)' => InFile(s.id))
    BY <2>1, GoneStays DEF Behind
  <2> QED
    BY <2>1, <2>2, <2>3 DEF Behind, Gone, InFile, InTmp
<1> QED
  BY <1>3, <1>4, <1>5 DEF FreshInv

\* What is left of a process that has ended, and what it has with a token.
LEMMA ExitTokens ==
    ASSUME JobTypes, NEW p \in Proc, NEW code, Exits(p, code)
    PROVE  /\ job'[p].bearer = None /\ job'[p].spurned = None
           /\ job'[p].then = "exit" /\ job'[p].pc = "done"
<1>1. job'[p] = Ended(job[p].cmd, code)
  BY DEF Exits, Becomes, JobTypes
<1>2. /\ Ended(job[p].cmd, code).bearer = None /\ Ended(job[p].cmd, code).spurned = None
      /\ Ended(job[p].cmd, code).then = "exit" /\ Ended(job[p].cmd, code).pc = "done"
  BY DEF Ended, NewJob
<1> QED
  BY <1>1, <1>2

LEMMA ObtainedTokens ==
    ASSUME JobTypes, NEW p \in Proc, NEW a, Obtained(p, a)
    PROVE  \/ /\ job'[p].bearer = a /\ job'[p].spurned = None
              /\ job'[p].then = "exit" /\ job'[p].pc = "done"
           \/ /\ job[p].then = "status" /\ job'[p].then = "status" /\ job'[p].pc = "status"
              /\ job'[p].bearer = job[p].bearer /\ job'[p].spurned = job[p].spurned
           \/ /\ job[p].then = "call" /\ job'[p].then = "call" /\ job'[p].pc = "call"
              /\ job'[p].bearer = a /\ job'[p].spurned = job[p].spurned
           \/ /\ job[p].then = "again" /\ job'[p].then = "call" /\ job'[p].pc = "get"
              /\ job'[p].bearer = job[p].bearer /\ job'[p].spurned = job[p].spurned
<1>1. job[p] \in Job /\ job[p].then \in {"exit", "status", "call", "again"}
  BY DEF JobTypes, Job
<1> DEFINE j == [job[p] EXCEPT !.reply = None]
<1>2. /\ j \in Job /\ j.then = job[p].then /\ j.bearer = job[p].bearer
      /\ j.spurned = job[p].spurned
  BY <1>1 DEF Job
<1>3. Obtained(p, a) <=>
        Becomes(p, CASE j.then = "exit" -> [Ended(j.cmd, 0) EXCEPT !.bearer = a]
                     [] j.then = "status" -> [j EXCEPT !.pc = "status"]
                     [] j.then = "call" -> [j EXCEPT !.pc = "call", !.bearer = a]
                     [] j.then = "again" -> [j EXCEPT !.pc = "get", !.then = "call"])
  BY DEF Obtained
<1>4. LET k == [Ended(j.cmd, 0) EXCEPT !.bearer = a] IN
      k.bearer = a /\ k.spurned = None /\ k.then = "exit" /\ k.pc = "done"
  BY DEF Ended, NewJob
<1> HIDE DEF j
<1>5. LET k == [j EXCEPT !.pc = "status"] IN
      k.bearer = j.bearer /\ k.spurned = j.spurned /\ k.then = j.then /\ k.pc = "status"
  BY <1>2 DEF Job
<1>6. LET k == [j EXCEPT !.pc = "call", !.bearer = a] IN
      k.bearer = a /\ k.spurned = j.spurned /\ k.then = j.then /\ k.pc = "call"
  BY <1>2 DEF Job
<1>7. LET k == [j EXCEPT !.pc = "get", !.then = "call"] IN
      k.bearer = j.bearer /\ k.spurned = j.spurned /\ k.then = "call" /\ k.pc = "get"
  BY <1>2 DEF Job
<1>8. CASE j.then = "exit"
  BY <1>1, <1>3, <1>4, <1>8 DEF Becomes, JobTypes
<1>9. CASE j.then = "status"
  BY <1>1, <1>2, <1>3, <1>5, <1>9 DEF Becomes, JobTypes
<1>10. CASE j.then = "call"
  BY <1>1, <1>2, <1>3, <1>6, <1>10 DEF Becomes, JobTypes
<1>11. CASE j.then = "again"
  BY <1>1, <1>2, <1>3, <1>7, <1>11 DEF Becomes, JobTypes
<1> QED
  BY <1>1, <1>2, <1>8, <1>9, <1>10, <1>11

\* A process that goes on elsewhere, with the tokens it had or none.
LEMMA BehindStays ==
    ASSUME NEW j, NEW k, Behind(j), UsesMinted(j),
           k.bearer \in {j.bearer, None}, k.spurned \in {j.spurned, None},
           k.then \in {j.then, "exit"}, k.pc \notin {"get", "call", "status"}
    PROVE  Behind(k) /\ UsesMinted(k)
BY DEF Behind, UsesMinted

\* The token in the file is on its way nowhere else.
LEMMA FiledIsGone ==
    ASSUME TypeInv, FreshInv, Readable("tokens")
    PROVE  LET id == file["tokens"].text.access.id IN
           InFile(id) /\ Gone(id) /\ id \in Minted(grant)
<1> DEFINE id == file["tokens"].text.access.id
<1>1. InFile(id)
  BY DEF InFile, Here, Readable
<1> HIDE DEF id
<1> QED
  BY <1>1 DEF FreshInv, Apart, AllMinted, Gone, id

\* A step of p that touches neither the server nor the disk.
LEMMA FreshElsewhere ==
    ASSUME TypeInv, FreshInv, NEW p \in Proc, \A q \in Proc \ {p} : job'[q] = job[q],
           UNCHANGED <<grant, diskVars>>, ~Carrier(p)', ~At(p, "write"),
           Behind(job'[p]), UsesMinted(job'[p])
    PROVE  FreshInv'
<1>1. Brings(p)
  BY DEF Brings, Loses, diskVars, InFile, InTmp, Unwritten
<1>2. Minted(grant)' = Minted(grant) /\ Minted(grant') = Minted(grant)
  BY DEF Minted
<1>3. DescriptorInv'
  <2>1. DescriptorInv /\ file' = file /\ tmp' = tmp
    BY DEF FreshInv, diskVars
  <2>2. \A q \in Proc \ {p} : At(q, "write")' = At(q, "write") /\ Target(q)' = Target(q)
    BY DEF At, Target
  <2> QED
    BY <2>1, <2>2 DEF DescriptorInv
<1>4. UsesMinted(job[p])' /\ Ahead(p)'
  BY <1>2 DEF UsesMinted, Ahead
<1>5. Behind(job[p])'
  <2>1. ASSUME NEW id, Gone(id) PROVE Gone(id)' /\ (InFile(id)' => InFile(id))
    BY <1>1, <2>1, GoneStays
  <2>2. /\ job'[p].bearer # None => Gone(job'[p].bearer.id)
        /\ job'[p].spurned # None =>
              /\ Gone(job'[p].spurned.id)
              /\ job'[p].then = "call" => ~InFile(job'[p].spurned.id)
              /\ job'[p].pc = "call" => job'[p].bearer.id # job'[p].spurned.id
        /\ job'[p].pc = "get" => job'[p].then # "again"
        /\ job'[p].pc = "status" \/ job'[p].then = "status" => job'[p].spurned = None
    BY DEF Behind
  <2> QED
    BY <2>1, <2>2 DEF Behind, Gone, InFile, InTmp
<1> QED
  BY <1>1, <1>2, <1>3, <1>4, <1>5, FreshTurn

LEMMA FreshAside ==
    ASSUME TypeInv, FreshInv, NEW p \in Proc,
           \/ Register(p) \/ Post(p) \/ Listen(p) \/ Callback(p) \/ NoCallback(p)
           \/ GetAccessToken(p) \/ Refresh(p) \/ Refused(p) \/ Status(p) \/ Call(p)
           \/ Compare(p)
    PROVE  FreshInv'
<1>1. JobTypes /\ job[p] \in Job /\ Placed(job[p])
  BY DEF TypeInv, JobTypes, Fit
<1>2. Behind(job[p]) /\ UsesMinted(job[p])
  BY DEF FreshInv, AllMinted
<1> DEFINE Fine == /\ job'[p].pc \notin {"answered", "write", "rename"}
                   /\ Behind(job'[p]) /\ UsesMinted(job'[p])
<1> SUFFICES Fine
  <2>1. UNCHANGED <<grant, diskVars>> /\ ~At(p, "write")
    BY DEF Register, Post, Listen, Callback, NoCallback, GetAccessToken, Refresh, Refused,
           Status, Call, Compare, Quiet, serverVars, At
  <2>2. ASSUME Fine PROVE ~Carrier(p)' /\ Behind(job'[p]) /\ UsesMinted(job'[p])
    BY <2>2 DEF Carrier
  <2>3. \A q \in Proc \ {p} : job'[q] = job[q]
    BY StepOthers DEF Step
  <2> HIDE DEF Fine
  <2> QED
    BY <2>1, <2>2, <2>3, FreshElsewhere
<1>3. ASSUME NEW code, Exits(p, code) PROVE Fine
  BY <1>1, <1>2, <1>3, ExitTokens, BehindStays
<1>4. ASSUME job'[p].bearer = job[p].bearer, job'[p].spurned = job[p].spurned,
             job'[p].then = job[p].then,
             job'[p].pc \notin {"get", "call", "status", "answered", "write", "rename"}
      PROVE  Fine
  BY <1>2, <1>4, BehindStays
<1>5. ASSUME NEW q, NEW id, Sends(p, q, id) PROVE Fine
  <2>1. /\ job'[p].bearer = job[p].bearer /\ job'[p].spurned = job[p].spurned
        /\ job'[p].then = job[p].then /\ job'[p].pc = "sent"
    BY <1>1, <1>5 DEF Sends, Becomes, JobTypes, Job
  <2> QED
    BY <1>4, <2>1
<1>6. ASSUME NEW l \in {"post", "reload"}, GoTo(p, l) PROVE Fine
  <2>1. /\ job'[p].bearer = job[p].bearer /\ job'[p].spurned = job[p].spurned
        /\ job'[p].then = job[p].then /\ job'[p].pc = l
    BY <1>1, <1>6 DEF GoTo, Becomes, JobTypes, Job
  <2> QED
    BY <1>4, <2>1
<1> HIDE DEF Fine
<1>7. CASE Register(p) \/ Post(p) \/ Callback(p) \/ NoCallback(p) \/ Refresh(p) \/ Refused(p)
           \/ Compare(p)
  BY <1>3, <1>5, <1>6, <1>7
     DEF Register, Post, Callback, NoCallback, Refresh, Refused, Compare
<1>8. CASE Listen(p)
  <2>1. ASSUME Becomes(p, [job[p] EXCEPT !.pc = "listen", !.meta = Meta(p)]) PROVE Fine
    <3>1. /\ job'[p].bearer = job[p].bearer /\ job'[p].spurned = job[p].spurned
          /\ job'[p].then = job[p].then /\ job'[p].pc = "listen"
      BY <1>1, <2>1 DEF Becomes, JobTypes, Job
    <3> QED
      BY <1>4, <3>1
  <2> QED
    BY <1>3, <1>8, <2>1 DEF Listen
<1>9. CASE GetAccessToken(p)
  <2>1. ASSUME Readable("tokens"), Obtained(p, file["tokens"].text.access) PROVE Fine
    <3> DEFINE a == file["tokens"].text.access
    <3>1. InFile(a.id) /\ Gone(a.id) /\ a.id \in Minted(grant) /\ a # None
      BY <2>1, FiledIsGone, TokensFit, NoneAssumption DEF TypeInv, Pair
    <3>2. job[p].then # "again"
      BY <1>2, <1>9 DEF Behind, GetAccessToken, At
    <3> HIDE DEF a
    <3>3. \/ /\ job'[p].bearer = a /\ job'[p].spurned = None
             /\ job'[p].then = "exit" /\ job'[p].pc = "done"
          \/ /\ job[p].then = "status" /\ job'[p].then = "status" /\ job'[p].pc = "status"
             /\ job'[p].bearer = job[p].bearer /\ job'[p].spurned = job[p].spurned
          \/ /\ job[p].then = "call" /\ job'[p].then = "call" /\ job'[p].pc = "call"
             /\ job'[p].bearer = a /\ job'[p].spurned = job[p].spurned
      BY <1>1, <2>1, <3>2, ObtainedTokens DEF a
    <3>4. Behind(job'[p])
      BY <1>2, <3>1, <3>3 DEF Behind
    <3>5. UsesMinted(job'[p])
      BY <1>2, <3>1, <3>3 DEF UsesMinted
    <3> QED
      BY <3>3, <3>4, <3>5 DEF Fine
  <2> QED
    BY <1>3, <1>6, <1>9, <2>1 DEF GetAccessToken
<1>10. CASE Status(p)
  <2>1. ASSUME Becomes(p, [job[p] EXCEPT !.pc = "get", !.then = "call", !.meta = Meta(p)])
        PROVE  Fine
    <3>1. /\ job'[p].bearer = job[p].bearer /\ job'[p].spurned = job[p].spurned
          /\ job'[p].then = "call" /\ job'[p].pc = "get"
      BY <1>1, <2>1 DEF Becomes, JobTypes, Job
    <3>2. job[p].spurned = None
      BY <1>2, <1>10 DEF Behind, Status, At
    <3> QED
      BY <1>2, <3>1, <3>2 DEF Behind, UsesMinted, Fine
  <2> QED
    BY <1>3, <1>10, <2>1 DEF Status
<1>11. CASE Call(p)
  <2>1. job[p].then = "call" /\ job[p].bearer # None
    BY <1>1, <1>11, NoneAssumption DEF Call, At, Placed
  <2>2. ASSUME Recovers(p) PROVE Fine
    <3>1. /\ job'[p].bearer = None /\ job'[p].spurned = job[p].bearer
          /\ job'[p].then = "again" /\ job'[p].pc = "reload"
      BY <1>1, <2>2 DEF Recovers, Becomes, JobTypes, Job
    <3> QED
      BY <1>2, <3>1 DEF Behind, UsesMinted, Fine
  <2>3. ASSUME NEW payload, Passed(p, payload) PROVE Fine
    <3>1. /\ job'[p].bearer = None /\ job'[p].spurned = None
          /\ job'[p].then = job[p].then /\ job'[p].pc \in {"compare", "get"}
      BY <1>1, <2>3 DEF Passed, Becomes, JobTypes, Job
    <3> QED
      BY <2>1, <3>1 DEF Behind, UsesMinted, Fine
  <2> QED
    BY <1>3, <1>11, <2>2, <2>3 DEF Call
<1> QED
  BY <1>7, <1>8, <1>9, <1>10, <1>11

\* Descriptors stay where no token file is touched and p has none.
LEMMA SameDescriptors ==
    ASSUME DescriptorInv, NEW p \in Proc, \A q \in Proc \ {p} : job'[q] = job[q],
           UNCHANGED <<file["tokens"], tmp["tokens"]>>,
           ~At(p, "write") \/ Target(p) # "tokens"
    PROVE  DescriptorInv'
<1>1. \A q \in Proc \ {p} : At(q, "write")' = At(q, "write") /\ Target(q)' = Target(q)
  BY DEF At, Target
<1> QED
  BY <1>1 DEF DescriptorInv

\* The server mints a token that nobody has.
LEMMA FreshServe ==
    ASSUME TypeInv, ChainInv, FreshInv, NEW p \in Proc, Serve(p)
    PROVE  FreshInv'
<1> DEFINE q == job[p].wire
<1>1. PICK answer \in Answers :
         /\ Handles(q, answer) \/ Breaks(q, answer)
         /\ Becomes(p, [job[p] EXCEPT !.pc = "answered", !.reply = answer])
  BY DEF Serve
<1>2. /\ job[p].pc = "sent" /\ q \in Wire
      /\ q.kind = "register" <=> job[p].cmd = "register"
  BY DEF Serve, At, TypeInv, JobTypes, Fit, Carried
<1>3. /\ job'[p].pc = "answered" /\ job'[p].reply = answer /\ job'[p].cmd = job[p].cmd
      /\ job'[p].bearer = job[p].bearer /\ job'[p].spurned = job[p].spurned
      /\ job'[p].then = job[p].then
      /\ \A r \in Proc \ {p} : job'[r] = job[r]
  BY <1>1 DEF Becomes, TypeInv, JobTypes, Job
<1>4. Grows /\ Moves(q, answer)
  BY <1>1, <1>2, ServerMoves DEF TypeInv, ChainInv
<1>5. UNCHANGED <<file, tmp>>
  BY DEF Serve, diskVars
<1> HIDE DEF q
<1>6. /\ \A t : t \in Minted(grant) => t \in Minted(grant')
      /\ Minted(grant)' = Minted(grant')
  BY <1>4 DEF Grows, Minted
<1>7. DescriptorInv'
  BY <1>2, <1>3, <1>5, SameDescriptors DEF FreshInv, At
<1>8. Behind(job[p]) /\ UsesMinted(job[p])
  BY DEF FreshInv, AllMinted
<1>9. CASE ~Carrier(p)'
  <2>1. Brings(p)
    BY <1>3, <1>5, <1>9 DEF Brings, Loses, InFile, InTmp, Unwritten
  <2>2. UsesMinted(job[p])' /\ Ahead(p)'
    BY <1>3, <1>6, <1>8, <1>9 DEF UsesMinted, Ahead
  <2>3. \A id : Gone(id) => Gone(id)' /\ (InFile(id)' => InFile(id))
    BY <2>1, GoneStays
  <2>4. Behind(job[p])'
    BY <1>3, <1>8, <2>3 DEF Behind, Gone, InFile, InTmp
  <2> QED
    BY <1>6, <1>7, <2>1, <2>2, <2>4, FreshTurn
<1>10. CASE Carrier(p)'
  <2>1. PICK t : t \in Unseen /\ answer = TokenPair(t) /\ \E c \in Chain : grant'[c].holder = t
    <3>1. answer.ok /\ job[p].cmd # "register"
      BY <1>3, <1>10 DEF Carrier
    <3>2. answer # Error
      BY <3>1 DEF Error
    <3>3. answer = TokenPair(Draw(Unseen)) /\ \E c \in Chain : HasNewHolder(c)
      BY <1>2, <1>4, <3>1, <3>2 DEF Moves, q
    <3>4. Unseen # {} /\ \E c \in Chain : grant'[c].holder = Draw(Unseen)
      BY <3>3 DEF HasNewHolder
    <3> QED
      BY <3>3, <3>4, DrawnFrom
  <2>2. t \notin Minted(grant) /\ t \in Minted(grant')
    <3>1. t # None
      BY <2>1, UnseenTokens, NoneAssumption
    <3> QED
      BY <2>1, <3>1, MintedOf DEF Unseen
  <2>3. New(p)' = t
    BY <1>3, <2>1 DEF New, TokenPair, AccessToken
  <2>4. ASSUME NEW r \in Proc, r # p
        PROVE  /\ Carrier(r)' = Carrier(r) /\ Unwritten(r)' = Unwritten(r)
               /\ New(r)' = New(r) /\ Ahead(r)' = Ahead(r)
    BY <1>3, <2>4 DEF Carrier, Unwritten, At, New, Ahead
  <2>5. ASSUME NEW id, id \in Minted(grant), Gone(id) PROVE Gone(id)'
    BY <1>5, <2>2, <2>3, <2>4, <2>5 DEF Gone, InTmp
  <2>6. \A id : InFile(id)' = InFile(id) /\ InTmp(id)' = InTmp(id)
    BY <1>5 DEF InFile, InTmp
  <2>7. Apart'
    <3>1. \A r \in Proc : Carrier(r) => New(r) # t
      BY <2>2 DEF FreshInv, AllMinted
    <3>2. \A r, s \in Proc : Carrier(r)' /\ Carrier(s)' /\ r # s => New(r)' # New(s)'
      BY <2>3, <2>4, <3>1 DEF FreshInv, Apart
    <3>3. ~InFile(t) /\ ~InTmp(t)
      BY <2>2 DEF FreshInv, AllMinted
    <3>4. \A r \in Proc : Unwritten(r)' => ~InFile(New(r))' /\ ~InTmp(New(r))'
      BY <1>5, <2>3, <2>4, <3>3 DEF FreshInv, Apart, InFile, InTmp
    <3> QED
      BY <2>6, <3>2, <3>4 DEF FreshInv, Apart
  <2>8. AllMinted'
    <3>1. \A r \in Proc : UsesMinted(job[r])'
      BY <1>3, <1>6 DEF FreshInv, AllMinted, UsesMinted
    <3>2. \A r \in Proc : Carrier(r)' => New(r)' \in Minted(grant)'
      BY <1>6, <2>2, <2>3, <2>4 DEF FreshInv, AllMinted
    <3> QED
      BY <1>6, <2>6, <3>1, <3>2 DEF FreshInv, AllMinted
  <2>9. ASSUME NEW r \in Proc PROVE Behind(job[r])'
    <3>1. Behind(job[r]) /\ UsesMinted(job[r])
      BY DEF FreshInv, AllMinted
    <3>2. /\ job'[r].bearer = job[r].bearer /\ job'[r].spurned = job[r].spurned
          /\ job'[r].then = job[r].then /\ job'[r].pc \in {job[r].pc, "answered"}
      BY <1>3
    <3>3. /\ job[r].bearer # None => Gone(job[r].bearer.id)'
          /\ job[r].spurned # None => Gone(job[r].spurned.id)'
      BY <2>5, <3>1, <3>2 DEF Behind, UsesMinted, Gone, InTmp
    <3> QED
      BY <1>5, <3>1, <3>2, <3>3 DEF Behind, Gone, InFile, InTmp
  <2>10. ASSUME NEW r \in Proc PROVE Ahead(r)'
    <3>1. CASE r = p
      BY <1>3, <1>8, <2>2, <2>3, <3>1 DEF Ahead, UsesMinted
    <3> QED
      BY <2>4, <3>1 DEF FreshInv
  <2> QED
    BY <1>7, <2>7, <2>8, <2>9, <2>10 DEF FreshInv
<1> QED
  BY <1>9, <1>10

\* The tokens p has in use, where it goes on elsewhere.
LEMMA OwnStays ==
    ASSUME FreshInv, NEW p \in Proc, Brings(p),
           \A t : t \in Minted(grant) => t \in Minted(grant'),
           job'[p].bearer \in {job[p].bearer, None},
           job'[p].spurned \in {job[p].spurned, None},
           job'[p].then \in {job[p].then, "exit"},
           job'[p].pc \notin {"get", "call", "status"}
    PROVE  Behind(job[p])' /\ Ahead(p)' /\ UsesMinted(job[p])'
<1>1. Behind(job[p]) /\ Ahead(p) /\ UsesMinted(job[p]) /\ Minted(grant)' = Minted(grant')
  BY DEF FreshInv, AllMinted, Minted
<1>2. \A id : Gone(id) => Gone(id)' /\ (InFile(id)' => InFile(id))
  BY GoneStays
<1>3. Behind(job[p])'
  BY <1>1, <1>2 DEF Behind, Gone, InFile, InTmp
<1>4. Ahead(p)'
  BY <1>1 DEF Ahead, Brings
<1>5. UsesMinted(job[p])'
  BY <1>1 DEF UsesMinted
<1> QED
  BY <1>3, <1>4, <1>5

LEMMA FreshAccepted ==
    ASSUME TypeInv, FreshInv, NEW p \in Proc, Accepted(p)
    PROVE  FreshInv'
<1>1. /\ At(p, "answered") /\ job[p].reply.ok /\ UNCHANGED <<grant, file>>
      /\ tmp' = [tmp EXCEPT ![Target(p)] = Node("torn", None, @.fds \cup {p})]
  BY DEF Accepted, serverVars
<1>2. /\ job'[p].pc = "write" /\ job'[p].reply = Document(p) /\ job'[p].cmd = job[p].cmd
      /\ job'[p].bearer = job[p].bearer /\ job'[p].spurned = job[p].spurned
      /\ job'[p].then = job[p].then
      /\ \A q \in Proc \ {p} : job'[q] = job[q]
  BY DEF Accepted, Becomes, TypeInv, JobTypes, Job
<1>3. \/ Target(p) # "tokens" /\ tmp'["tokens"] = tmp["tokens"]
      \/ /\ Target(p) = "tokens"
         /\ tmp'["tokens"] = Node("torn", None, tmp["tokens"].fds \cup {p})
  BY <1>1, TargetFits DEF TypeInv, DiskTypes, Files
<1>4. Carrier(p)' => Carrier(p) /\ New(p)' = New(p)
  <2> SUFFICES ASSUME Carrier(p)' PROVE Carrier(p) /\ New(p)' = New(p)
    OBVIOUS
  <2>1. Carrier(p)
    BY <1>1, <1>2 DEF Carrier, At
  <2>2. Document(p) = Saved(job[p].reply, clock)
    BY <2>1, TargetFits DEF Document, Carrier
  <2> QED
    BY <1>2, <2>1, <2>2 DEF New, Saved
<1>5. Brings(p)
  <2>1. Unwritten(p)' => Unwritten(p)
    BY <1>1, <1>4 DEF Unwritten, At
  <2>2. Loses
    BY <1>1, <1>3 DEF Loses, InFile, InTmp, Here, Node
  <2> QED
    BY <1>2, <1>4, <2>1, <2>2 DEF Brings
<1>6. DescriptorInv'
  <2>1. CASE Target(p) # "tokens"
    BY <1>1, <1>2, <1>3, <2>1, SameDescriptors DEF FreshInv
  <2>2. CASE Target(p) = "tokens"
    <3>1. \A q \in Proc \ {p} : At(q, "write")' = At(q, "write") /\ Target(q)' = Target(q)
      BY <1>2 DEF At, Target
    <3>2. At(p, "write")' /\ Target(p)' = "tokens"
      BY <1>2, <2>2 DEF At, Target
    <3>3. p \notin file["tokens"].fds
      BY <1>1 DEF FreshInv, DescriptorInv, At
    <3>4. tmp'["tokens"].fds = tmp["tokens"].fds \cup {p} /\ file' = file
      BY <1>1, <1>3, <2>2 DEF Node
    <3> QED
      BY <3>1, <3>2, <3>3, <3>4 DEF FreshInv, DescriptorInv
  <2> QED
    BY <2>1, <2>2
<1>7. \A t : t \in Minted(grant) => t \in Minted(grant')
  BY <1>1
<1> QED
  BY <1>2, <1>5, <1>6, <1>7, OwnStays, FreshTurn

LEMMA FreshWrite ==
    ASSUME TypeInv, FreshInv, NEW p \in Proc, Write(p)
    PROVE  FreshInv'
<1>1. /\ At(p, "write") /\ UNCHANGED grant
      /\ tmp' = [tmp EXCEPT ![Target(p)] = Written(@, p)]
      /\ file' = [file EXCEPT ![Target(p)] = Written(@, p)]
  BY DEF Write, serverVars
<1>2. /\ job'[p].pc = "rename" /\ job'[p].reply = job[p].reply /\ job'[p].cmd = job[p].cmd
      /\ job'[p].bearer = job[p].bearer /\ job'[p].spurned = job[p].spurned
      /\ job'[p].then = job[p].then
      /\ \A q \in Proc \ {p} : job'[q] = job[q]
  BY DEF Write, GoTo, Becomes, TypeInv, JobTypes, Job
<1>3. Carrier(p)' = Carrier(p) /\ New(p)' = New(p) /\ ~Unwritten(p)'
  BY <1>1, <1>2 DEF Carrier, At, New, Unwritten
<1>4. CASE Target(p) # "tokens"
  <2>1. tmp'["tokens"] = tmp["tokens"] /\ file'["tokens"] = file["tokens"]
    BY <1>1, <1>4 DEF TypeInv, DiskTypes, Files
  <2>2. Brings(p)
    BY <1>2, <1>3, <2>1 DEF Brings, Loses, InFile, InTmp
  <2>3. DescriptorInv'
    BY <1>2, <1>4, <2>1, SameDescriptors DEF FreshInv
  <2> QED
    BY <1>1, <1>2, <2>2, <2>3, OwnStays, FreshTurn
<1>5. CASE Target(p) = "tokens"
  <2>1. tmp'["tokens"] = Written(tmp["tokens"], p) /\ file'["tokens"] = Written(file["tokens"], p)
    BY <1>1, <1>5 DEF TypeInv, DiskTypes, Files
  <2>2. Unwritten(p)
    BY <1>1, <1>5, TargetFits DEF Unwritten, Carrier, At, Target
  <2>3. p \notin file["tokens"].fds \/ p \notin tmp["tokens"].fds
    BY DEF FreshInv, DescriptorInv
  <2>4. ASSUME NEW n, NEW id
        PROVE  /\ p \notin n.fds => Written(n, p) = n
               /\ Here(Written(n, p), id) => Here(n, id) \/ id = New(p)
    BY DEF Written, Node, Here, New
  <2>5. Puts(p)
    BY <1>3, <2>1, <2>2, <2>3, <2>4 DEF Puts, InFile, InTmp
  <2>6. Brings(p)
    BY <1>2, <1>3, <2>5 DEF Brings
  <2>7. DescriptorInv'
    <3>1. \A q \in Proc \ {p} : At(q, "write")' = At(q, "write") /\ Target(q)' = Target(q)
      BY <1>2 DEF At, Target
    <3>2. ASSUME NEW n, NEW q \in Written(n, p).fds PROVE q \in n.fds /\ q # p
      BY DEF Written, Node
    <3>3. \A q \in file'["tokens"].fds : q \in file["tokens"].fds /\ q # p
      BY <2>1, <3>2
    <3>4. \A q \in tmp'["tokens"].fds : q \in tmp["tokens"].fds /\ q # p
      BY <2>1, <3>2
    <3>5. \A q \in file'["tokens"].fds \cup tmp'["tokens"].fds :
             q \in Proc /\ At(q, "write")' /\ Target(q)' = "tokens"
      BY <3>1, <3>3, <3>4 DEF FreshInv, DescriptorInv
    <3>6. file'["tokens"].fds \cap tmp'["tokens"].fds = {}
      BY <3>3, <3>4 DEF FreshInv, DescriptorInv
    <3> QED
      BY <3>5, <3>6 DEF DescriptorInv
  <2> QED
    BY <1>1, <1>2, <2>6, <2>7, OwnStays, FreshTurn
<1> QED
  BY <1>4, <1>5

\* The pair is in the file, and the process has its token.
LEMMA FreshRename ==
    ASSUME TypeInv, FreshInv, NEW p \in Proc, Rename(p)
    PROVE  FreshInv'
<1>1. /\ At(p, "rename") /\ UNCHANGED grant /\ JobTypes
      /\ \A q \in Proc \ {p} : job'[q] = job[q]
      /\ ~Carrier(p)' /\ ~Unwritten(p)'
  BY RenameGoesOn DEF Rename, serverVars, TypeInv, Carrier, Unwritten
<1>2. CASE Exits(p, Unforeseen(p)) /\ UNCHANGED diskVars
  <2>1. Behind(job'[p]) /\ UsesMinted(job'[p])
    <3>1. Behind(job[p]) /\ UsesMinted(job[p])
      BY DEF FreshInv, AllMinted
    <3> QED
      BY <1>1, <1>2, <3>1, ExitTokens, BehindStays
  <2> QED
    BY <1>1, <1>2, <2>1, FreshElsewhere DEF At
<1>3. CASE Saves(p) /\ job[p].cmd = "register"
  <2>1. file'["tokens"] = file["tokens"] /\ tmp'["tokens"] = tmp["tokens"]
    BY <1>3, RegisterWrites DEF Saves, TypeInv, DiskTypes, Files
  <2>2. Brings(p)
    BY <1>1, <2>1 DEF Brings, Loses, InFile, InTmp
  <2>3. DescriptorInv'
    BY <1>1, <2>1, SameDescriptors DEF FreshInv, At
  <2>4. Exits(p, 0) \/ Exits(p, Unforeseen(p))
    BY <1>3 DEF Rename
  <2> QED
    BY <1>1, <2>2, <2>3, <2>4, ExitTokens, OwnStays, FreshTurn
<1>4. CASE Saves(p) /\ job[p].cmd # "register"
  <2>1. file'["tokens"] = tmp["tokens"] /\ tmp'["tokens"] = Absent
    BY <1>4 DEF Saves, TypeInv, DiskTypes, Files, Target
  <2>2. Moved
    BY <2>1 DEF Moved, InFile, InTmp, Absent, Node, Here
  <2>3. Brings(p)
    BY <1>1, <2>2 DEF Brings
  <2>4. DescriptorInv'
    <3>1. \A q \in Proc \ {p} : At(q, "write")' = At(q, "write") /\ Target(q)' = Target(q)
      BY <1>1 DEF At, Target
    <3>2. file'["tokens"].fds = tmp["tokens"].fds /\ tmp'["tokens"].fds = {}
      BY <2>1 DEF Absent, Node
    <3>3. ~At(p, "write")
      BY <1>1 DEF At
    <3> QED
      BY <3>1, <3>2, <3>3 DEF FreshInv, DescriptorInv
  <2>5. CASE Exits(p, 0) \/ Exits(p, Unforeseen(p))
    BY <1>1, <2>3, <2>4, <2>5, ExitTokens, OwnStays, FreshTurn
  <2>6. CASE Obtained(p, job[p].reply.access)
    <3> DEFINE a == job[p].reply.access
    <3>1. Carrier(p) /\ New(p) = a.id /\ a.id \in Minted(grant)
      BY <1>1, <1>4 DEF Carrier, At, New, FreshInv, AllMinted
    <3>2. \A q \in Proc : Unwritten(q)' => New(q)' # a.id
      <4> SUFFICES ASSUME NEW q \in Proc, Unwritten(q)' PROVE New(q)' # a.id
        OBVIOUS
      <4>1. q # p /\ Carrier(q) /\ New(q)' = New(q)
        BY <1>1 DEF Unwritten, Carrier, New
      <4> QED
        BY <3>1, <4>1 DEF FreshInv, Apart
    <3>3. \A id : ~InTmp(id)'
      BY <2>2 DEF Moved
    <3>4. Behind(job[p]) /\ UsesMinted(job[p]) /\ Ahead(p)
      BY DEF FreshInv, AllMinted
    <3>5. \A id : Gone(id) => Gone(id)' /\ ~InFile(id)'
      BY <2>2, <2>3, GoneStays DEF Moved, Gone
    <3>6. job[p].spurned # None => Gone(job[p].spurned.id) /\ a.id # job[p].spurned.id
      BY <3>1, <3>4 DEF Behind, Ahead
    <3> HIDE DEF a
    <3>7. \/ /\ job'[p].bearer = a /\ job'[p].spurned = None
             /\ job'[p].then = "exit" /\ job'[p].pc = "done"
          \/ /\ job[p].then = "status" /\ job'[p].then = "status" /\ job'[p].pc = "status"
             /\ job'[p].bearer = job[p].bearer /\ job'[p].spurned = job[p].spurned
          \/ /\ job[p].then = "call" /\ job'[p].then = "call" /\ job'[p].pc = "call"
             /\ job'[p].bearer = a /\ job'[p].spurned = job[p].spurned
          \/ /\ job[p].then = "again" /\ job'[p].then = "call" /\ job'[p].pc = "get"
             /\ job'[p].bearer = job[p].bearer /\ job'[p].spurned = job[p].spurned
      BY <1>1, <2>6, ObtainedTokens DEF a
    <3>8. Behind(job[p])'
      BY <3>2, <3>3, <3>4, <3>5, <3>6, <3>7 DEF Behind, Gone, InFile, InTmp
    <3>9. UsesMinted(job[p])' /\ Ahead(p)'
      <4>1. Minted(grant)' = Minted(grant)
        BY <1>1 DEF Minted
      <4> QED
        BY <1>1, <3>1, <3>4, <3>7, <4>1 DEF UsesMinted, Ahead
    <3> QED
      BY <1>1, <2>3, <2>4, <3>8, <3>9, FreshTurn
  <2> QED
    BY <1>4, <2>5, <2>6 DEF Rename
<1> QED
  BY <1>2, <1>3, <1>4 DEF Rename

LEMMA FreshDie ==
    ASSUME TypeInv, FreshInv, NEW p \in Proc, Die(p)
    PROVE  FreshInv'
<1>1. UNCHANGED grant /\ \A q \in Proc \ {p} : job'[q] = job[q]
  BY StepOthers DEF Die, serverVars
<1>2. /\ job'[p].bearer = None /\ job'[p].spurned = None
      /\ job'[p].then = "exit" /\ job'[p].pc = "done"
  BY ExitTokens DEF Die, TypeInv
<1>3. ~Carrier(p)' /\ ~Unwritten(p)'
  BY <1>2 DEF Carrier, Unwritten
<1>4. /\ file'["tokens"] = Closed(file["tokens"], p)
      /\ \/ tmp'["tokens"] = Closed(tmp["tokens"], p)
         \/ tmp'["tokens"] = Absent
         \/ Target(p) # "tokens" /\ tmp'["tokens"] = tmp["tokens"]
  BY DEF Die, Files, TypeInv, DiskTypes
<1>5. ASSUME NEW n
      PROVE  /\ \A id : Here(Closed(n, p), id) => Here(n, id)
             /\ Closed(n, p).fds = n.fds \ {p}
  BY DEF Closed, Node, Here
<1>6. Brings(p)
  <2>1. \A id : ~Here(Absent, id)
    BY DEF Absent, Node, Here
  <2>2. Loses
    BY <1>4, <1>5, <2>1 DEF Loses, InFile, InTmp
  <2> QED
    BY <1>1, <1>3, <2>2 DEF Brings
<1>7. DescriptorInv'
  <2>1. \A q \in Proc \ {p} : At(q, "write")' = At(q, "write") /\ Target(q)' = Target(q)
    BY <1>1 DEF At, Target
  <2>2. file'["tokens"].fds = file["tokens"].fds \ {p}
    BY <1>4, <1>5
  <2>3. \A q \in tmp'["tokens"].fds : q \in tmp["tokens"].fds /\ q # p
    <3>1. Absent.fds = {}
      BY DEF Absent, Node
    <3>2. Target(p) # "tokens" => p \notin tmp["tokens"].fds
      BY DEF FreshInv, DescriptorInv
    <3> QED
      BY <1>4, <1>5, <3>1, <3>2
  <2> QED
    BY <2>1, <2>2, <2>3 DEF FreshInv, DescriptorInv
<1> QED
  BY <1>1, <1>2, <1>6, <1>7, OwnStays, FreshTurn

\* The server mints a token nobody waits for; the clock and the key pass.
LEMMA FreshElse ==
    ASSUME FreshInv, UNCHANGED <<file, tmp, job>>,
           \A t : t \in Minted(grant) => t \in Minted(grant')
    PROVE  FreshInv'
<1>1. Minted(grant)' = Minted(grant')
  BY DEF Minted
<1>2. \A p \in Proc : /\ Carrier(p)' = Carrier(p) /\ Unwritten(p)' = Unwritten(p)
                      /\ New(p)' = New(p) /\ At(p, "write")' = At(p, "write")
                      /\ Target(p)' = Target(p) /\ Ahead(p)' = Ahead(p)
  BY DEF Carrier, Unwritten, At, New, Target, Ahead
<1>3. \A id : InFile(id)' = InFile(id) /\ InTmp(id)' = InTmp(id)
  BY DEF InFile, InTmp
<1>4. \A id : Gone(id)' = Gone(id)
  BY <1>2, <1>3 DEF Gone
<1>5. DescriptorInv' /\ Apart'
  BY <1>2, <1>3 DEF FreshInv, DescriptorInv, Apart, InFile, InTmp
<1>6. AllMinted'
  BY <1>1, <1>2, <1>3 DEF FreshInv, AllMinted, UsesMinted
<1>7. ASSUME NEW p \in Proc PROVE Behind(job[p])'
  <2>1. Behind(job[p]) /\ job'[p] = job[p]
    BY DEF FreshInv
  <2> QED
    BY <1>3, <1>4, <2>1 DEF Behind, Gone, InFile, InTmp
<1> QED
  BY <1>2, <1>5, <1>6, <1>7 DEF FreshInv

LEMMA FreshInit == Init => FreshInv
<1> SUFFICES ASSUME Init PROVE FreshInv
  OBVIOUS
<1>1. ASSUME NEW p \in Proc
      PROVE  /\ job[p].bearer = None /\ job[p].spurned = None /\ job[p].then # "again"
             /\ ~Carrier(p)
  <2>1. PICK c \in Command, v \in Validates \cup {<<>>} : job[p] = NewJob(c, v)
    BY DEF Init
  <2>2. /\ job[p].bearer = None /\ job[p].spurned = None /\ job[p].then # "again"
    BY <2>1 DEF NewJob
  <2> QED
    BY <2>2, InitialPositions DEF Carrier
<1>2. \A id : ~InTmp(id)
  BY DEF Init, InTmp, Here, Absent, Node, Files
<1>3. ASSUME NEW id, InFile(id) PROVE id \in Minted(grant)
  <2>1. CASE Empty
    BY <1>3, <2>1 DEF Empty, InFile, Here, Absent, Node, Files
  <2>2. CASE Provisioned
    <3> DEFINE c == Draw(Chain)
               t == Draw(Token)
    <3>1. c \in Chain /\ t \in Token
      BY ServerAssumption, DrawnFrom
    <3>2. grant[c] = Opened(t)
      BY <2>2, <3>1 DEF Provisioned
    <3>3. file["tokens"] = Node("whole", Saved(TokenPair(t), 0), {})
      BY <2>2 DEF Provisioned, Files
    <3>4. Saved(TokenPair(t), 0).access.id = t
      BY DEF Saved, TokenPair, AccessToken
    <3> HIDE DEF c, t
    <3>5. id = t
      BY <1>3, <3>3, <3>4 DEF InFile, Here, Node
    <3>6. grant[c].holder = t
      BY <3>2 DEF Opened
    <3> QED
      BY <3>1, <3>5, <3>6, MintedOf, NoneAssumption
  <2> QED
    BY <2>1, <2>2 DEF Init
<1>4. DescriptorInv
  <2>1. tmp["tokens"].fds = {}
    BY DEF Init, Files, Absent, Node
  <2>2. file["tokens"].fds = {}
    BY DEF Init, Empty, Provisioned, Files, Absent, Node
  <2> QED
    BY <2>1, <2>2 DEF DescriptorInv
<1> QED
  BY <1>1, <1>2, <1>3, <1>4 DEF FreshInv, Apart, AllMinted, UsesMinted, Behind, Ahead, Unwritten

LEMMA FreshNext ==
    ASSUME TypeInv, ChainInv, FreshInv, [Next]_vars
    PROVE  FreshInv'
<1>1. ASSUME NEW p \in Proc, Step(p) \/ Callback(p) \/ Die(p)
      PROVE  FreshInv'
  BY <1>1, FreshAside, FreshServe, FreshAccepted, FreshWrite, FreshRename, FreshDie DEF Step
<1>2. CASE ServeLate
  <2>1. PICK q \in late : \E answer \in Answers : Handles(q, answer)
    BY <1>2 DEF ServeLate
  <2>2. q \in Wire
    BY <2>1, RefreshIsWire DEF TypeInv
  <2>3. Grows
    BY <2>1, <2>2, ServerMoves DEF TypeInv, ChainInv
  <2> QED
    BY <1>2, <2>3, FreshElse DEF ServeLate, diskVars, Grows
<1>3. CASE Restart \/ Tick \/ UNCHANGED vars
  BY <1>3, FreshElse DEF Restart, Rekey, Tick, vars, serverVars, diskVars
<1> QED
  BY <1>1, <1>2, <1>3 DEF Next

\* The call that follows a 401 is made with another access token, however many
\* processes refresh, write over each other's files or die meanwhile
\* (mcp_client.py:139-141).
THEOREM RetriesAnew == Spec => []RetryIsNoRepeat
<1>1. TypeInv /\ FreshInv => RetryIsNoRepeat
  <2> SUFFICES ASSUME TypeInv, FreshInv, NEW p \in Proc, At(p, "call"), job[p].spurned # None
               PROVE  job[p].bearer # job[p].spurned
    BY DEF RetryIsNoRepeat
  <2>1. Behind(job[p])
    BY DEF FreshInv
  <2> QED
    BY <2>1 DEF Behind, At
<1>2. TypeInv /\ ChainInv /\ [Next]_vars => ChainInv'
  BY ChainNext
<1>3. TypeInv /\ ChainInv /\ FreshInv /\ [Next]_vars => FreshInv'
  BY FreshNext
<1> QED
  BY <1>1, <1>2, <1>3, TypeAlways, ChainInit, FreshInit, PTL DEF Spec
=============================================================================
