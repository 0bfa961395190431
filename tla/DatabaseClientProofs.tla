------------------------ MODULE DatabaseClientProofs ------------------------
(***************************************************************************)
(* The spacing of arXiv requests and the rate of PubMed requests, for any  *)
(* number of requests, retries and cancellations, any interval or window,  *)
(* any number of permits and any delays.                                   *)
(***************************************************************************)
EXTENDS DatabaseClient, SequenceTheorems, FiniteSetTheorems, TLAPS

Slot == Request \X Attempt

\* Types, and the awaits of an arXiv request.
ArxivTypes ==
    /\ pc \in [Request -> {"new", "lock", "spacing", "get", "backoff"} \cup Outcome]
    /\ attempt \in [Request -> Attempt]
    /\ sleep \in [Request -> Nat]
    /\ lock \in Request \cup {None}
    /\ lastEnd \in Age
    /\ sent \in [Slot -> Age]

\* Who sleeps for the interval or has a GET under way holds the lock.
LockHeld == \A r \in Request : pc[r] \in {"spacing", "get"} => lock = r

\* A recent GET is either still under way or ended no earlier than it was
\* sent, so that the interval since its end is not over either.
EndCovers ==
    \A p \in Slot : Recent(sent[p]) =>
        \/ pc[p[1]] = "get" /\ p[2] = attempt[p[1]]
        \/ lastEnd # None /\ lastEnd <= sent[p]

\* A sleep ends no earlier than the interval.
SleepCovers ==
    \A r \in Request : pc[r] = "spacing" =>
        lastEnd # None /\ sleep[r] + lastEnd >= Horizon

SpacedPairs == \A p, q \in Slot : Recent(sent[p]) /\ Recent(sent[q]) => p = q

ArxivInv ==
    service = "arxiv" =>
        ArxivTypes /\ LockHeld /\ EndCovers /\ SleepCovers /\ SpacedPairs

-----------------------------------------------------------------------------
\* While the lock is free, or its holder sleeps, and the interval since the
\* last end is over, no GET is recent: the next may be sent.
LEMMA NothingRecent ==
    ASSUME ArxivTypes, EndCovers, \A r \in Request : pc[r] # "get",
           ~Recent(lastEnd)
    PROVE  \A p \in Slot : ~Recent(sent[p])
BY HorizonAssumption DEF ArxivTypes, EndCovers, Recent, Age, Slot

\* A GET that is sent when none is recent leaves one that is.
LEMMA SendKeeps ==
    ASSUME NEW r \in Request, ArxivTypes, \A p \in Slot : ~Recent(sent[p]),
           Send(r), attempt' = attempt
    PROVE  /\ sent' \in [Slot -> Age]
           /\ EndCovers'
           /\ SpacedPairs'
<1>1. <<r, attempt[r]>> \in Slot
  BY DEF ArxivTypes, Slot
<1>2. sent' = [sent EXCEPT ![<<r, attempt[r]>>] = 0] /\ pc' = [pc EXCEPT ![r] = "get"]
  BY DEF Send, Goto
<1>3. sent' \in [Slot -> Age]
  BY <1>1, <1>2 DEF ArxivTypes, Age
<1>4. \A p \in Slot : p # <<r, attempt[r]>> => ~Recent(sent'[p])
  BY <1>2 DEF ArxivTypes
<1>5. pc'[r] = "get"
  BY <1>2 DEF ArxivTypes
<1>6. EndCovers'
  BY <1>4, <1>5 DEF EndCovers, Slot, Recent
<1>7. SpacedPairs'
  BY <1>4 DEF SpacedPairs, Recent
<1> QED
  BY <1>3, <1>6, <1>7

\* The end of a GET covers all GETs sent before.
LEMMA EndKeeps ==
    ASSUME ArxivTypes, SpacedPairs, lastEnd' = 0, sent' = sent
    PROVE  EndCovers' /\ SpacedPairs'
<1>1. \A p \in Slot : sent[p] # None => 0 <= sent[p]
  BY DEF ArxivTypes, Age
<1>2. 0 # None
  BY NoneAssumption
<1> QED
  BY <1>1, <1>2 DEF EndCovers, SpacedPairs, Recent, Slot

LEMMA InitArxiv == Init => ArxivInv
<1> SUFFICES ASSUME Init PROVE ArxivInv
  OBVIOUS
<1> USE DEF Init
<1>1. 0 \in Attempt
  BY RetriesAssumption DEF Attempt
<1>2. ArxivTypes
  BY <1>1 DEF ArxivTypes, Slot, Age
<1>3. \A r \in Request : pc[r] = "new"
  OBVIOUS
<1>4. LockHeld /\ SleepCovers
  BY <1>3 DEF LockHeld, SleepCovers
<1>5. \A p \in Slot : ~Recent(sent[p])
  BY DEF Slot, Recent
<1>6. EndCovers /\ SpacedPairs
  BY <1>5 DEF EndCovers, SpacedPairs
<1> QED
  BY <1>2, <1>4, <1>6 DEF ArxivInv

-----------------------------------------------------------------------------
LEMMA ServiceStays == [Next]_vars => service' = service
BY DEF Next, vars, Tick, Arrive, Progress, TakePermit, ArxivLock, ArxivWake,
       PacerLock, PacerWake, Courtesy, Reply, Refused, TransportError, Retry,
       Cancel

\* Every step of Next keeps the invariant.
LEMMA StepArxiv == ArxivInv /\ [Next]_vars => ArxivInv'
<1> SUFFICES ASSUME service = "arxiv", ArxivTypes, LockHeld, EndCovers,
                    SleepCovers, SpacedPairs, [Next]_vars
             PROVE  ArxivInv'
  BY ServiceStays DEF ArxivInv
<1>1. CASE UNCHANGED vars
  BY <1>1 DEF vars, ArxivInv, ArxivTypes, LockHeld, EndCovers, SleepCovers,
              SpacedPairs, Recent
<1>2. ASSUME NEW r \in Request, Arrive(r) PROVE ArxivInv'
  <2>1. /\ pc' = [pc EXCEPT ![r] = "lock"]
        /\ UNCHANGED <<attempt, sleep, lock, lastEnd, sent>>
        /\ pc[r] = "new"
    BY <1>2 DEF Arrive, Goto
  <2> QED
    BY <2>1 DEF ArxivInv, ArxivTypes, LockHeld, EndCovers, SleepCovers,
                SpacedPairs, Recent, Slot
<1>3. ASSUME NEW r \in Request, TakePermit(r) PROVE ArxivInv'
  BY <1>3 DEF TakePermit, ArxivTypes, Outcome
<1>4. ASSUME NEW r \in Request, ArxivLock(r) PROVE ArxivInv'
  <2>1. \A q \in Request : pc[q] # "spacing" /\ pc[q] # "get"
    BY <1>4, NoneAssumption DEF ArxivLock, LockHeld
  <2>2. CASE Recent(lastEnd)
    <3>1. /\ lock' = r
          /\ sleep' = [sleep EXCEPT ![r] = Horizon - lastEnd]
          /\ pc' = [pc EXCEPT ![r] = "spacing"]
          /\ UNCHANGED <<attempt, lastEnd, sent>>
      BY <1>4, <2>2 DEF ArxivLock, Sleep, Goto
    <3>2. lastEnd \in Nat /\ Horizon - lastEnd \in Nat
      BY <2>2, HorizonAssumption DEF ArxivTypes, Age, Recent
    <3>3. ArxivTypes'
      BY <3>1, <3>2 DEF ArxivTypes
    <3>4. LockHeld' /\ SleepCovers'
      BY <2>1, <3>1, <3>2, NoneAssumption, HorizonAssumption
      DEF ArxivTypes, LockHeld, SleepCovers
    <3>5. EndCovers' /\ SpacedPairs'
      BY <2>1, <3>1 DEF EndCovers, SpacedPairs, Recent, Slot
    <3> QED
      BY <3>3, <3>4, <3>5 DEF ArxivInv
  <2>3. CASE ~Recent(lastEnd)
    <3>1. /\ lock' = r
          /\ Send(r)
          /\ UNCHANGED <<attempt, sleep, lastEnd>>
      BY <1>4, <2>3 DEF ArxivLock
    <3>2. \A p \in Slot : ~Recent(sent[p])
      BY <2>1, <2>3, NothingRecent
    <3>3. sent' \in [Slot -> Age] /\ EndCovers' /\ SpacedPairs'
      BY <3>1, <3>2, SendKeeps
    <3>4. pc' = [pc EXCEPT ![r] = "get"]
      BY <3>1 DEF Send, Goto
    <3>5. ArxivTypes'
      BY <3>1, <3>3, <3>4 DEF ArxivTypes
    <3>6. LockHeld' /\ SleepCovers'
      BY <2>1, <3>1, <3>4 DEF ArxivTypes, LockHeld, SleepCovers
    <3> QED
      BY <3>3, <3>5, <3>6 DEF ArxivInv
  <2> QED
    BY <2>2, <2>3
<1>5. ASSUME NEW r \in Request, ArxivWake(r) PROVE ArxivInv'
  <2>1. /\ pc[r] = "spacing" /\ sleep[r] = 0
        /\ Send(r)
        /\ UNCHANGED <<attempt, sleep, lock, lastEnd>>
    BY <1>5 DEF ArxivWake
  <2>2. lock = r /\ \A q \in Request : pc[q] # "get"
    BY <2>1 DEF LockHeld
  <2>3. ~Recent(lastEnd)
    BY <2>1, HorizonAssumption DEF SleepCovers, ArxivTypes, Age, Recent
  <2>4. \A p \in Slot : ~Recent(sent[p])
    BY <2>2, <2>3, NothingRecent
  <2>5. sent' \in [Slot -> Age] /\ EndCovers' /\ SpacedPairs'
    BY <2>1, <2>4, SendKeeps
  <2>6. pc' = [pc EXCEPT ![r] = "get"]
    BY <2>1 DEF Send, Goto
  <2>7. ArxivTypes'
    BY <2>1, <2>5, <2>6 DEF ArxivTypes
  <2>8. LockHeld' /\ SleepCovers'
    BY <2>1, <2>2, <2>6 DEF ArxivTypes, LockHeld, SleepCovers
  <2> QED
    BY <2>5, <2>7, <2>8 DEF ArxivInv
<1>6. ASSUME NEW r \in Request, pc[r] = "get", GetOver, UNCHANGED sent,
             attempt' \in [Request -> Attempt], sleep' \in [Request -> Nat],
             \A q \in Request \ {r} : sleep'[q] = sleep[q],
             NEW o \in {"backoff"} \cup Outcome, pc' = [pc EXCEPT ![r] = o]
      PROVE  ArxivInv'
  <2>1. lastEnd' = 0 /\ lock' = None
    BY <1>6 DEF GetOver
  <2>2. ArxivTypes'
    BY <1>6, <2>1 DEF ArxivTypes, Age
  <2>3. \A q \in Request : pc'[q] # "spacing" /\ pc'[q] # "get"
    BY <1>6 DEF ArxivTypes, LockHeld, Outcome
  <2>4. LockHeld' /\ SleepCovers'
    BY <2>3 DEF LockHeld, SleepCovers
  <2>5. EndCovers' /\ SpacedPairs'
    BY <1>6, <2>1, EndKeeps
  <2> QED
    BY <2>2, <2>4, <2>5 DEF ArxivInv
<1>7. ASSUME NEW r \in Request, Reply(r) PROVE ArxivInv'
  BY <1>6, <1>7 DEF Reply, Responded, Goto, ArxivTypes, Outcome
<1>8. ASSUME NEW r \in Request, Refused(r) PROVE ArxivInv'
  <2>1. pc[r] = "get" /\ GetOver /\ UNCHANGED sent
    BY <1>8 DEF Refused, Responded
  <2>2. CASE BackOff(r)
    <3>1. /\ attempt' \in [Request -> Attempt]
          /\ sleep' \in [Request -> Nat]
          /\ \A q \in Request \ {r} : sleep'[q] = sleep[q]
      BY <2>2, RetriesAssumption, DelayAssumption
      DEF BackOff, Sleep, ArxivTypes, Attempt
    <3>2. pc' = [pc EXCEPT ![r] = "backoff"]
      BY <2>2 DEF BackOff, Goto
    <3> QED
      BY <1>6, <2>1, <3>1, <3>2
  <2>3. ASSUME NEW o \in {"response", "limited"}, GiveUp(r, o) PROVE ArxivInv'
    BY <1>6, <2>1, <2>3 DEF GiveUp, Goto, ArxivTypes, Outcome
  <2> QED
    BY <1>8, <2>2, <2>3 DEF Refused
<1>9. ASSUME NEW r \in Request, TransportError(r) PROVE ArxivInv'
  BY <1>6, <1>9 DEF TransportError, Goto, ArxivTypes, Outcome
<1>10. ASSUME NEW r \in Request, Retry(r) PROVE ArxivInv'
  <2>1. /\ pc' = [pc EXCEPT ![r] = "lock"]
        /\ UNCHANGED <<attempt, sleep, lock, lastEnd, sent>>
        /\ pc[r] = "backoff"
    BY <1>10 DEF Retry, Goto
  <2> QED
    BY <2>1 DEF ArxivInv, ArxivTypes, LockHeld, EndCovers, SleepCovers,
                SpacedPairs, Recent, Slot
<1>11. ASSUME NEW r \in Request, Cancel(r) PROVE ArxivInv'
  <2>1. /\ pc' = [pc EXCEPT ![r] = "cancelled"]
        /\ sleep' = [sleep EXCEPT ![r] = 0]
        /\ lock' = IF lock = r THEN None ELSE lock
        /\ lastEnd' = IF pc[r] = "get" THEN 0 ELSE lastEnd
        /\ UNCHANGED <<attempt, sent>>
    BY <1>11 DEF Cancel, Goto, Sleep
  <2>2. ArxivTypes'
    BY <2>1 DEF ArxivTypes, Age, Outcome
  <2>3. LockHeld'
    BY <2>1 DEF LockHeld, ArxivTypes
  <2>4. SleepCovers'
    <3> SUFFICES ASSUME NEW q \in Request, pc'[q] = "spacing"
                 PROVE  lastEnd' # None /\ sleep'[q] + lastEnd' >= Horizon
      BY DEF SleepCovers
    <3>1. q # r /\ pc[q] = "spacing" /\ sleep'[q] = sleep[q]
      BY <2>1 DEF ArxivTypes
    <3>2. pc[r] # "get"
      BY <3>1 DEF LockHeld
    <3> QED
      BY <2>1, <3>1, <3>2 DEF SleepCovers
  <2>5. EndCovers' /\ SpacedPairs'
    <3>1. CASE pc[r] = "get"
      BY <2>1, <3>1, EndKeeps
    <3>2. CASE pc[r] # "get"
      BY <2>1, <3>2 DEF EndCovers, SpacedPairs, Recent, Slot, ArxivTypes
    <3> QED
      BY <3>1, <3>2
  <2> QED
    BY <2>2, <2>3, <2>4, <2>5 DEF ArxivInv
<1>12. CASE Tick
  <2>1. /\ lastEnd' = Older(lastEnd)
        /\ sent' = [p \in Slot |-> Older(sent[p])]
        /\ sleep' = [r \in Request |-> IF sleep[r] > 0 THEN sleep[r] - 1 ELSE 0]
        /\ UNCHANGED <<pc, attempt, lock>>
    BY <1>12 DEF Tick, Slot
  <2>2. ASSUME NEW age \in Age PROVE Older(age) \in Age
    BY <2>2 DEF Older, Age
  <2>3. ArxivTypes'
    BY <2>1, <2>2 DEF ArxivTypes
  <2>4. LockHeld'
    BY <2>1 DEF LockHeld
  <2>5. SleepCovers'
    BY <2>1, HorizonAssumption, NoneAssumption
    DEF SleepCovers, Older, ArxivTypes, Age
  <2>6. ASSUME NEW p \in Slot, Recent(sent'[p])
        PROVE  Recent(sent[p]) /\ sent'[p] = sent[p] + 1
    BY <2>1, <2>6, HorizonAssumption, NoneAssumption
    DEF Older, Recent, ArxivTypes, Age
  <2>7. SpacedPairs'
    BY <2>6 DEF SpacedPairs, Recent
  <2>8. EndCovers'
    <3> SUFFICES ASSUME NEW p \in Slot, Recent(sent'[p])
                 PROVE  \/ pc'[p[1]] = "get" /\ p[2] = attempt'[p[1]]
                        \/ lastEnd' # None /\ lastEnd' <= sent'[p]
      BY DEF EndCovers, Recent
    <3>1. Recent(sent[p]) /\ sent'[p] = sent[p] + 1
      BY <2>6
    <3> QED
      BY <2>1, <3>1, HorizonAssumption, NoneAssumption
      DEF EndCovers, Older, Recent, ArxivTypes, Age
  <2> QED
    BY <2>3, <2>4, <2>5, <2>7, <2>8 DEF ArxivInv
<1> QED
  BY <1>1, <1>2, <1>3, <1>4, <1>5, <1>7, <1>8, <1>9, <1>10, <1>11, <1>12
  DEF Next, Progress, PacerLock, PacerWake, Courtesy

-----------------------------------------------------------------------------
\* Of any two GETs at arXiv, retries included, the second is sent when the
\* interval since the first is over: for every number of requests, every
\* interval and all delays.
THEOREM ArxivIsSpaced == Spec => []ArxivSpaced
<1>1. ArxivInv => ArxivSpaced
  BY DEF ArxivInv, SpacedPairs, ArxivSpaced, Slot
<1> QED
  BY <1>1, InitArxiv, StepArxiv, PTL DEF Spec

-----------------------------------------------------------------------------
(* Timestamps of the pacer.                                                 *)

LEMMA LeastNat ==
    ASSUME NEW T \in SUBSET Nat, T # {}
    PROVE  \E n \in T : \A m \in T : n <= m
<1>1. \E n \in T : \A m \in T : ~ (<<m, n>> \in OpToRel(<, Nat))
  BY NatLessThanWellFounded, WFMin
<1>2. \A m, n \in Nat : m < n => <<m, n>> \in OpToRel(<, Nat)
  BY DEF OpToRel
<1>3. PICK n \in T : \A m \in T : ~ (<<m, n>> \in OpToRel(<, Nat))
  BY <1>1
<1>4. ASSUME NEW m \in T PROVE n <= m
  <2>1. m \in Nat /\ n \in Nat /\ ~ (m < n)
    BY <1>2, <1>3
  <2> QED
    BY <2>1
<1> QED
  BY <1>4

\* The timestamps in the window are the last ones: what is dropped are the
\* first ones, and all of those if the oldest one left.
LEMMA WindowIsTail ==
    ASSUME stamps \in Seq(Nat)
    PROVE  \E n \in 0..Len(stamps) :
             /\ \A i \in 1..n : ~Recent(stamps[i])
             /\ n < Len(stamps) => Recent(stamps[n + 1])
             /\ InWindow = SubSeq(stamps, n + 1, Len(stamps))
             /\ InWindow \in Seq(Nat) /\ Len(InWindow) = Len(stamps) - n
             /\ \A i \in 1..(Len(stamps) - n) : InWindow[i] = stamps[n + i]
<1> DEFINE N == Len(stamps)
           P(n) == /\ \A i \in 1..n : ~Recent(stamps[i])
                   /\ n < N => Recent(stamps[n + 1])
<1>1. N \in Nat /\ \A i \in 1..N : stamps[i] \in Nat
  BY LenProperties
<1>2. \E n \in 0..N : P(n)
  <2> DEFINE T == {i \in 1..N : Recent(stamps[i])} \cup {N + 1}
  <2>1. T \in SUBSET Nat /\ T # {}
    BY <1>1
  <2>2. PICK m \in T : \A i \in T : m <= i
    BY <2>1, LeastNat
  <2>3. m \in 1..(N + 1) /\ \A i \in 1..(m - 1) : ~Recent(stamps[i])
    BY <1>1, <2>2
  <2>4. m - 1 \in 0..N /\ P(m - 1)
    BY <1>1, <2>2, <2>3
  <2> QED
    BY <2>4
<1> DEFINE old == CHOOSE n \in 0..N : P(n)
<1>3. old \in 0..N /\ P(old)
  BY <1>2
<1>4. InWindow = SubSeq(stamps, old + 1, N)
  BY DEF InWindow
<1> HIDE DEF old, P
<1>5. /\ SubSeq(stamps, old + 1, N) \in Seq(Nat)
      /\ Len(SubSeq(stamps, old + 1, N)) = N - old
      /\ \A i \in 1..(N - old) : SubSeq(stamps, old + 1, N)[i] = stamps[old + i]
  <2> DEFINE s == SubSeq(stamps, old + 1, N)
  <2>1. /\ old + 1 \in Int /\ N \in Int /\ \A i \in (old + 1)..N : stamps[i] \in Nat
    BY <1>1, <1>3
  <2>2. /\ s \in Seq(Nat)
        /\ Len(s) = IF old + 1 <= N THEN N - (old + 1) + 1 ELSE 0
        /\ \A i \in 1..(N - (old + 1) + 1) : s[i] = stamps[old + 1 + i - 1]
    BY <2>1, SubSeqProperties
  <2>3. N - (old + 1) + 1 = N - old
    BY <1>1, <1>3
  <2>4. ASSUME NEW i \in 1..(N - old) PROVE s[i] = stamps[old + i]
    BY <1>1, <1>3, <2>2, <2>3
  <2>5. s \in Seq(Nat) /\ Len(s) = N - old
    <3>1. CASE old + 1 <= N
      BY <1>1, <1>3, <2>2, <2>3, <3>1
    <3>2. CASE ~(old + 1 <= N)
      <4>1. N - old = 0
        BY <1>1, <1>3, <3>2
      <4> QED
        BY <2>2, <3>2, <4>1
    <3> QED
      BY <3>1, <3>2
  <2> QED
    BY <2>4, <2>5
<1> QED
  BY <1>3, <1>4, <1>5 DEF P

LEMMA HeadIsFirst ==
    ASSUME NEW s \in Seq(Nat), s # <<>>
    PROVE  Head(s) = s[1] /\ s[1] \in Nat /\ Len(s) \in Nat \ {0}
<1>1. Len(s) \in Nat \ {0}
  BY EmptySeq
<1>2. SubSeq(s, 1, Len(s)) = s
  BY SubSeqFull
<1>3. Head(SubSeq(s, 1, Len(s))) = s[1]
  BY <1>1, HeadTailOfSubSeq
<1> QED
  BY <1>1, <1>2, <1>3, ElementOfSeq

LEMMA AppendIs ==
    ASSUME NEW s \in Seq(Nat)
    PROVE  /\ Append(s, 0) \in Seq(Nat) /\ Len(Append(s, 0)) = Len(s) + 1
           /\ Append(s, 0)[Len(s) + 1] = 0
           /\ \A i \in 1..Len(s) : Append(s, 0)[i] = s[i]
BY AppendProperties

LEMMA OlderIsAge == ASSUME NEW age \in Age PROVE Older(age) \in Age
BY DEF Older, Age

LEMMA OlderIsNat == ASSUME NEW age \in Nat PROVE Older(age) \in Nat
BY DEF Older

\* Time passes for the timestamps one by one.
LEMMA StampsOlder ==
    ASSUME stamps \in Seq(Nat)
    PROVE  /\ [i \in DOMAIN stamps |-> Older(stamps[i])] \in Seq(Nat)
           /\ Len([i \in DOMAIN stamps |-> Older(stamps[i])]) = Len(stamps)
<1> DEFINE s == [i \in DOMAIN stamps |-> Older(stamps[i])]
<1>1. Len(stamps) \in Nat /\ DOMAIN stamps = 1..Len(stamps) /\ \A i \in 1..Len(stamps) : stamps[i] \in Nat
  BY LenProperties
<1>2. s \in [1..Len(stamps) -> Nat]
  BY <1>1, OlderIsNat
<1>3. s \in Seq(Nat)
  BY <1>1, <1>2, SeqDef
<1>4. DOMAIN s = 1..Len(s) /\ Len(s) \in Nat
  BY <1>3, LenProperties
<1> QED
  BY <1>1, <1>3, <1>4

-----------------------------------------------------------------------------
(* Types, of all five clients.                                              *)

LEMMA InitTypes == Init => TypeOK
<1>1. 0 \in Attempt
  BY RetriesAssumption DEF Attempt
<1> QED
  BY <1>1, EmptySeq DEF Init, TypeOK, Age

LEMMA StepTypes == TypeOK /\ [Next]_vars => TypeOK'
<1> SUFFICES ASSUME TypeOK, [Next]_vars PROVE TypeOK'
  OBVIOUS
<1> USE DEF TypeOK, Goto, Waiting, Outcome
<1>1. ASSUME NEW r \in Request, Send(r) PROVE sent' \in [Request \X Attempt -> Age]
  BY <1>1 DEF Send, Age
<1>2. InWindow \in Seq(Nat) /\ Append(InWindow, 0) \in Seq(Nat)
  BY WindowIsTail, AppendIs
<1>3. ASSUME NEW r \in Request, BackOff(r)
      PROVE  /\ attempt' \in [Request -> Attempt] /\ sleep' \in [Request -> Nat]
             /\ pc' = [pc EXCEPT ![r] = "backoff"]
  BY <1>3, RetriesAssumption, DelayAssumption DEF BackOff, Sleep, Attempt
<1>4. ASSUME GetOver PROVE lastEnd' \in Age /\ lock' \in Request \cup {None}
  BY <1>4 DEF GetOver, Age
<1>5. ASSUME NEW r \in Request, Arrive(r) PROVE TypeOK'
  BY <1>1, <1>5 DEF Arrive, Send
<1>6. ASSUME NEW r \in Request, TakePermit(r) PROVE TypeOK'
  BY <1>1, <1>6 DEF TakePermit, Send
<1>7. ASSUME NEW r \in Request, ArxivLock(r) PROVE TypeOK'
  <2>1. CASE Recent(lastEnd)
    <3>1. Horizon - lastEnd \in Nat
      BY <2>1, HorizonAssumption DEF Recent, Age
    <3> QED
      BY <1>7, <2>1, <3>1 DEF ArxivLock, Sleep
  <2>2. CASE ~Recent(lastEnd)
    BY <1>1, <1>7, <2>2 DEF ArxivLock, Send
  <2> QED
    BY <2>1, <2>2
<1>8. ASSUME NEW r \in Request, ArxivWake(r) PROVE TypeOK'
  BY <1>1, <1>8 DEF ArxivWake, Send
<1>9. ASSUME NEW r \in Request, PacerLock(r) PROVE TypeOK'
  <2>1. CASE Len(InWindow) >= Permits
    <3>1. Head(InWindow) \in Nat /\ Recent(Head(InWindow))
      <4>1. PICK n \in 0..Len(stamps) :
              /\ n < Len(stamps) => Recent(stamps[n + 1])
              /\ Len(InWindow) = Len(stamps) - n
              /\ \A i \in 1..(Len(stamps) - n) : InWindow[i] = stamps[n + i]
        BY WindowIsTail
      <4>2. Len(stamps) \in Nat
        BY LenProperties
      <4>3. n < Len(stamps) /\ InWindow[1] = stamps[n + 1]
        BY <2>1, <4>1, <4>2, PermitsAssumption
      <4>4. InWindow # <<>>
        BY <1>2, <4>1, <4>2, <4>3, EmptySeq
      <4> QED
        BY <1>2, <4>1, <4>3, <4>4, HeadIsFirst
    <3>2. Horizon - Head(InWindow) \in Nat
      BY <3>1, HorizonAssumption DEF Recent
    <3> QED
      BY <1>2, <1>9, <2>1, <3>2 DEF PacerLock, Sleep
  <2>2. CASE ~(Len(InWindow) >= Permits)
    BY <1>1, <1>2, <1>9, <2>2 DEF PacerLock, Send
  <2> QED
    BY <2>1, <2>2
<1>10. ASSUME NEW r \in Request, PacerWake(r) PROVE TypeOK'
  BY <1>1, <1>2, <1>10 DEF PacerWake, Send
<1>11. ASSUME NEW r \in Request, Courtesy(r) PROVE TypeOK'
  BY <1>11, HorizonAssumption DEF Courtesy, Sleep
<1>12. ASSUME NEW r \in Request, Reply(r) PROVE TypeOK'
  BY <1>4, <1>12 DEF Reply
<1>13. ASSUME NEW r \in Request, Refused(r) PROVE TypeOK'
  BY <1>3, <1>4, <1>13 DEF Refused, GiveUp
<1>14. ASSUME NEW r \in Request, TransportError(r) PROVE TypeOK'
  BY <1>3, <1>4, <1>14 DEF TransportError, GiveUp
<1>15. ASSUME NEW r \in Request, Retry(r) PROVE TypeOK'
  BY <1>1, <1>15 DEF Retry, Send
<1>16. ASSUME NEW r \in Request, Cancel(r) PROVE TypeOK'
  BY <1>16 DEF Cancel, Sleep, Age
<1>17. CASE Tick
  <2>1. sleep' \in [Request -> Nat]
    BY <1>17 DEF Tick
  <2> QED
    BY <1>17, <2>1, OlderIsAge, StampsOlder DEF Tick
<1>18. CASE UNCHANGED vars
  BY <1>18 DEF vars
<1> QED
  BY <1>5, <1>6, <1>7, <1>8, <1>9, <1>10, <1>11, <1>12, <1>13, <1>14, <1>15, <1>16, <1>17, <1>18
  DEF Next, Progress

\* Types of what the clients keep, timestamps included.
THEOREM ClientTypes == Spec => []TypeOK
BY InitTypes, StepTypes, PTL DEF Spec

-----------------------------------------------------------------------------
(* The rate of PubMed requests.                                             *)

RateParts ==
    /\ PacerInv
    /\ \A r \in Request : AttemptInv(r)
    /\ StampedInv
    /\ AtMostPermits(HoldingPermit)
    /\ \A p \in Retries : Recent(sent[p]) => AtMostPermits(Beside(sent[p]))

LEMMA AtMostSubset ==
    ASSUME NEW S, NEW T \in SUBSET S, AtMostPermits(S)
    PROVE  AtMostPermits(T)
<1>1. /\ IsFiniteSet(T) /\ Cardinality(T) <= Cardinality(S)
      /\ Cardinality(T) \in Nat /\ Cardinality(S) \in Nat
  BY FS_Subset, FS_CardinalityType DEF AtMostPermits
<1> QED
  BY <1>1, PermitsAssumption DEF AtMostPermits

LEMMA RetryIsSlot ==
    /\ \A r \in Request, a \in 1..MaxRetries : <<r, a>> \in Retries /\ <<r, a>> \in Slot /\ a \in Attempt
    /\ \A r \in Request : <<r, 0>> \in Slot /\ 0 \in Attempt
    /\ Retries \subseteq Slot
BY RetriesAssumption DEF Retries, Slot, Attempt

LEMMA InitRate == Init => RateInv
<1> SUFFICES ASSUME Init PROVE RateParts
  BY DEF RateInv, RateParts
<1>1. \A p \in Slot : sent[p] = None
  BY DEF Init, Slot
<1>2. PacerInv
  BY EmptySeq, PermitsAssumption DEF Init, PacerInv
<1>3. ASSUME NEW r \in Request PROVE AttemptInv(r)
  BY <1>1 DEF Init, AttemptInv, Slot, Recent
<1>4. FirstRecent = {} /\ \A p \in Retries : ~Recent(sent[p])
  BY <1>1, RetryIsSlot DEF FirstRecent, Recent
<1>5. StampedInv
  <2>1. [r \in {} |-> 0] \in [FirstRecent -> DOMAIN stamps]
    BY <1>4
  <2> QED
    BY <1>4, <2>1 DEF StampedInv
<1>6. AtMostPermits(HoldingPermit)
  <2>1. HoldingPermit = {}
    BY DEF Init, HoldingPermit
  <2> QED
    BY <2>1, FS_EmptySet, PermitsAssumption DEF AtMostPermits
<1> QED
  BY <1>2, <1>3, <1>4, <1>5, <1>6 DEF RateParts

LEMMA StampedStays ==
    ASSUME StampedInv, UNCHANGED <<stamps, sent>>
    PROVE  StampedInv'
<1>1. FirstRecent' = FirstRecent
  BY DEF FirstRecent, Recent
<1>2. PICK stamp \in [FirstRecent -> DOMAIN stamps] :
        /\ \A q, r \in FirstRecent : stamp[q] = stamp[r] => q = r
        /\ \A r \in FirstRecent : stamps[stamp[r]] = sent[<<r, 0>>]
  BY DEF StampedInv
<1> QED
  BY <1>1, <1>2 DEF StampedInv

\* A request that does not send leaves the others, the timestamps and the
\* GETs alone; if it retries, it sleeps for a window.
LEMMA QuietKeeps ==
    ASSUME TypeOK, TypeOK', RateParts, NEW r \in Request,
           NEW there \in {"permit", "response", "error", "cancelled", "backoff"},
           pc' = [pc EXCEPT ![r] = there], UNCHANGED <<stamps, sent>>,
           \A q \in Request \ {r} : sleep'[q] = sleep[q] /\ attempt'[q] = attempt[q],
           \A q \in Request \ {r} : lock = q => lock' = q,
           there = "permit" => pc[r] = "new" /\ attempt' = attempt,
           there = "backoff" => pc[r] = "get" /\ attempt'[r] >= 1 /\ sleep'[r] >= Horizon
    PROVE  RateParts'
<1> USE DEF RateParts
<1>1. pc'[r] = there /\ \A q \in Request \ {r} : pc'[q] = pc[q]
  BY DEF TypeOK
<1>2. PacerInv'
  BY <1>1 DEF PacerInv
<1>3. ASSUME NEW q \in Request PROVE AttemptInv(q)'
  <2>1. CASE q # r
    BY <1>1, <2>1 DEF AttemptInv, Recent
  <2>2. CASE q = r /\ there # "backoff"
    BY <1>1, <2>2 DEF AttemptInv, Recent
  <2>3. CASE q = r /\ there = "backoff"
    <3>1. ASSUME NEW a \in Attempt, Recent(sent[<<r, a>>])
          PROVE  sleep'[r] + sent[<<r, a>>] >= Horizon
      <4>1. sent[<<r, a>>] \in Nat /\ sleep'[r] \in Nat
        BY <3>1 DEF TypeOK, Age, Recent
      <4> QED
        BY <2>3, <4>1, HorizonAssumption
    <3> QED
      BY <1>1, <2>3, <3>1 DEF AttemptInv, Recent
  <2> QED
    BY <2>1, <2>2, <2>3
<1>4. StampedInv'
  BY StampedStays
<1>5. HoldingPermit' \subseteq HoldingPermit
  BY <1>1 DEF HoldingPermit
<1>6. ASSUME NEW p \in Retries, Recent(sent'[p]) PROVE AtMostPermits(Beside(sent[p]))'
  <2>1. Recent(sent[p]) /\ sent[p] \in Nat /\ sent'[p] = sent[p]
    BY <1>6, RetryIsSlot DEF Recent, TypeOK, Age, Slot
  <2>2. ASSUME NEW q \in Request, q \in Beside(sent[p])' PROVE q \in Beside(sent[p])
    <3>1. CASE q # r \/ there # "backoff"
      BY <1>1, <2>1, <2>2, <3>1 DEF Beside
    <3>2. CASE q = r /\ there = "backoff"
      <4>1. sleep'[r] \in Nat /\ sleep'[r] >= Horizon
        BY <3>2 DEF TypeOK
      <4>2. ~(sleep'[r] + sent'[p] < Horizon)
        BY <2>1, <4>1, HorizonAssumption
      <4> QED
        BY <2>1, <2>2, <3>2, <4>2 DEF Beside
    <3> QED
      BY <3>1, <3>2
  <2>3. Beside(sent[p])' \subseteq Beside(sent[p])
    BY <2>2 DEF Beside
  <2> QED
    BY <2>1, <2>3, AtMostSubset DEF AtMostPermits
<1> QED
  BY <1>2, <1>3, <1>4, <1>5, <1>6, AtMostSubset DEF AtMostPermits, Recent

LEMMA TakePermitKeeps ==
    ASSUME TypeOK, RateParts, service = "pubmed", NEW r \in Request, TakePermit(r)
    PROVE  RateParts'
<1> USE DEF RateParts
<1>1. /\ pc[r] = "permit" /\ Cardinality(HoldingPermit) < Permits
      /\ pc'[r] = "lock" /\ \A q \in Request \ {r} : pc'[q] = pc[q]
      /\ UNCHANGED <<attempt, sleep, lock, stamps, sent>>
  BY DEF TakePermit, Goto, TypeOK
<1>2. PacerInv'
  BY <1>1 DEF PacerInv
<1>3. ASSUME NEW q \in Request PROVE AttemptInv(q)'
  <2>1. CASE q # r
    BY <1>1, <2>1 DEF AttemptInv, Recent
  <2>2. CASE q = r
    BY <1>1, <2>2 DEF AttemptInv, Recent
  <2> QED
    BY <2>1, <2>2
<1>4. StampedInv'
  BY <1>1, StampedStays
<1>5. AtMostPermits(HoldingPermit)'
  <2>1. HoldingPermit' = HoldingPermit \cup {r} /\ r \notin HoldingPermit
    BY <1>1 DEF HoldingPermit
  <2>2. IsFiniteSet(HoldingPermit) /\ Cardinality(HoldingPermit) \in Nat
    BY FS_CardinalityType DEF AtMostPermits
  <2>3. /\ IsFiniteSet(HoldingPermit \cup {r})
        /\ Cardinality(HoldingPermit \cup {r}) = Cardinality(HoldingPermit) + 1
    BY <2>1, <2>2, FS_AddElement
  <2>4. Cardinality(HoldingPermit) + 1 <= Permits
    BY <1>1, <2>2, PermitsAssumption
  <2> QED
    BY <2>1, <2>3, <2>4 DEF AtMostPermits
<1>6. ASSUME NEW p \in Retries, Recent(sent'[p]) PROVE AtMostPermits(Beside(sent[p]))'
  <2>1. Recent(sent[p]) /\ sent'[p] = sent[p]
    BY <1>1, <1>6 DEF Recent
  <2>2. Beside(sent[p])' \subseteq Beside(sent[p])
    BY <1>1, <2>1 DEF Beside
  <2> QED
    BY <2>1, <2>2, AtMostSubset DEF AtMostPermits
<1> QED
  BY <1>2, <1>3, <1>4, <1>5, <1>6 DEF Recent

LEMMA GoOn ==
    ASSUME NEW r \in Request, TypeOK, pc[r] \in {"lock", "spacing", "get", "backoff"},
           NEW there \in {"spacing", "get"}, pc' = [pc EXCEPT ![r] = there],
           AtMostPermits(HoldingPermit)
    PROVE  AtMostPermits(HoldingPermit)'
<1>1. HoldingPermit' = HoldingPermit
  BY DEF HoldingPermit, TypeOK
<1> QED
  BY <1>1 DEF AtMostPermits

\* The window is full: the request sleeps until its oldest timestamp leaves.
LEMMA PacerSleepKeeps ==
    ASSUME TypeOK, RateParts, service = "pubmed", NEW r \in Request, PacerLock(r),
           Len(InWindow) >= Permits
    PROVE  RateParts'
<1> USE DEF RateParts
<1>1. /\ pc[r] = "lock" /\ lock = None /\ lock' = r
      /\ pc' = [pc EXCEPT ![r] = "spacing"]
      /\ sleep' = [sleep EXCEPT ![r] = Horizon - Head(InWindow)]
      /\ stamps' = InWindow /\ UNCHANGED <<attempt, sent>>
  BY DEF PacerLock, Goto, Sleep
<1>2. PICK n \in 0..Len(stamps) :
        /\ \A i \in 1..n : ~Recent(stamps[i])
        /\ InWindow \in Seq(Nat) /\ Len(InWindow) = Len(stamps) - n
        /\ \A i \in 1..(Len(stamps) - n) : InWindow[i] = stamps[n + i]
  BY WindowIsTail DEF TypeOK
<1>3. /\ Len(stamps) \in Nat /\ Len(stamps) <= Permits
      /\ DOMAIN stamps = 1..Len(stamps) /\ DOMAIN InWindow = 1..Len(InWindow)
  BY <1>2, LenProperties DEF TypeOK, PacerInv
<1>4. n = 0 /\ Len(InWindow) = Len(stamps)
  BY <1>2, <1>3, PermitsAssumption
<1>5. InWindow # <<>>
  BY <1>2, EmptySeq, PermitsAssumption
<1>6. Head(InWindow) \in Nat
  BY <1>2, <1>5, HeadIsFirst
<1>7. /\ pc'[r] = "spacing" /\ \A q \in Request \ {r} : pc'[q] = pc[q] /\ sleep'[q] = sleep[q]
      /\ sleep'[r] = Horizon - Head(InWindow)
  BY <1>1 DEF TypeOK
<1>8. \A q \in Request : pc[q] # "spacing"
  BY <1>1, NoneAssumption DEF PacerInv
<1>9. PacerInv'
  <2>1. sleep'[r] + Head(InWindow) >= Horizon
    BY <1>6, <1>7, HorizonAssumption
  <2> QED
    BY <1>1, <1>3, <1>4, <1>5, <1>7, <1>8, <2>1 DEF PacerInv
<1>10. ASSUME NEW q \in Request PROVE AttemptInv(q)'
  <2>1. CASE q # r
    BY <1>1, <1>7, <2>1 DEF AttemptInv, Recent
  <2>2. CASE q = r
    BY <1>1, <1>7, <2>2 DEF AttemptInv, Recent
  <2> QED
    BY <2>1, <2>2
<1>11. StampedInv'
  <2>1. FirstRecent' = FirstRecent
    BY <1>1 DEF FirstRecent, Recent
  <2>2. PICK stamp \in [FirstRecent -> DOMAIN stamps] :
          /\ \A q, p \in FirstRecent : stamp[q] = stamp[p] => q = p
          /\ \A q \in FirstRecent : stamps[stamp[q]] = sent[<<q, 0>>]
    BY DEF StampedInv
  <2>3. DOMAIN stamps' = DOMAIN stamps /\ \A i \in DOMAIN stamps : stamps'[i] = stamps[i]
    BY <1>1, <1>2, <1>3, <1>4
  <2>4. stamp \in [FirstRecent' -> DOMAIN stamps']
    BY <2>1, <2>3
  <2> QED
    BY <1>1, <2>1, <2>2, <2>3, <2>4 DEF StampedInv
<1>12. ASSUME NEW p \in Retries, Recent(sent'[p]) PROVE AtMostPermits(Beside(sent[p]))'
  <2>1. Recent(sent[p]) /\ sent'[p] = sent[p]
    BY <1>1, <1>12 DEF Recent
  <2>2. Beside(sent[p])' \subseteq Beside(sent[p])
    BY <1>1, <1>7, <2>1 DEF Beside
  <2> QED
    BY <2>1, <2>2, AtMostSubset DEF AtMostPermits
<1>13. AtMostPermits(HoldingPermit)'
  BY <1>1, GoOn
<1> QED
  BY <1>9, <1>10, <1>11, <1>12, <1>13 DEF Recent

\* The pacer lets a first attempt pass, with a timestamp of its own.
LEMMA FirstSendKeeps ==
    ASSUME TypeOK, RateParts, NEW r \in Request, pc[r] \in {"lock", "spacing"},
           Send(r), UNCHANGED <<attempt, sleep>>, stamps' = Append(InWindow, 0),
           Len(InWindow) < Permits, \A q \in Request \ {r} : pc[q] # "spacing"
    PROVE  RateParts'
<1> USE DEF RateParts
<1>1. attempt[r] = 0 /\ \A a \in Attempt : sent[<<r, a>>] = None
  BY DEF AttemptInv
<1>2. <<r, 0>> \in Slot /\ 0 \in Attempt
  BY RetryIsSlot
<1>3. sent' = [sent EXCEPT ![<<r, 0>>] = 0] /\ pc' = [pc EXCEPT ![r] = "get"]
  BY <1>1 DEF Send, Goto
<1>4. /\ pc'[r] = "get" /\ \A q \in Request \ {r} : pc'[q] = pc[q]
      /\ sent'[<<r, 0>>] = 0
      /\ \A p \in Slot : p # <<r, 0>> => sent'[p] = sent[p]
  BY <1>2, <1>3 DEF TypeOK, Slot
<1>5. PICK n \in 0..Len(stamps) :
        /\ \A i \in 1..n : ~Recent(stamps[i])
        /\ InWindow \in Seq(Nat) /\ Len(InWindow) = Len(stamps) - n
        /\ \A i \in 1..(Len(stamps) - n) : InWindow[i] = stamps[n + i]
  BY WindowIsTail DEF TypeOK
<1> DEFINE N == Len(stamps) - n + 1
<1>6. /\ Len(stamps) \in Nat /\ DOMAIN stamps = 1..Len(stamps)
      /\ Len(stamps') = N /\ DOMAIN stamps' = 1..N
      /\ stamps'[N] = 0 /\ \A i \in 1..(N - 1) : stamps'[i] = stamps[n + i]
  <2>1. Len(stamps) \in Nat /\ DOMAIN stamps = 1..Len(stamps)
    BY LenProperties DEF TypeOK
  <2>2. /\ stamps' \in Seq(Nat) /\ Len(stamps') = Len(InWindow) + 1
        /\ stamps'[Len(InWindow) + 1] = 0
        /\ \A i \in 1..Len(InWindow) : stamps'[i] = InWindow[i]
    BY <1>5, AppendIs
  <2>3. DOMAIN stamps' = 1..Len(stamps')
    BY <2>2, LenProperties
  <2> QED
    BY <1>5, <2>1, <2>2, <2>3
<1>7. PacerInv'
  <2>1. Len(stamps') <= Permits
    BY <1>5, <1>6, PermitsAssumption
  <2> QED
    BY <1>4, <2>1 DEF PacerInv
<1>8. ASSUME NEW q \in Request PROVE AttemptInv(q)'
  <2>1. CASE q # r
    <3>1. \A a \in Attempt : sent'[<<q, a>>] = sent[<<q, a>>]
      BY <1>4, <2>1 DEF Slot
    <3> QED
      BY <1>4, <2>1, <3>1 DEF AttemptInv, Recent
  <2>2. CASE q = r
    <3>1. \A a \in Attempt : a # 0 => sent'[<<r, a>>] = None
      BY <1>1, <1>4 DEF Slot
    <3> QED
      BY <1>4, <2>2, <3>1 DEF AttemptInv, Recent
  <2> QED
    BY <2>1, <2>2
<1>9. StampedInv'
  <2>1. PICK stamp \in [FirstRecent -> DOMAIN stamps] :
          /\ \A q, p \in FirstRecent : stamp[q] = stamp[p] => q = p
          /\ \A q \in FirstRecent : stamps[stamp[q]] = sent[<<q, 0>>]
    BY DEF StampedInv
  <2>2. \A q \in FirstRecent' : q = r \/ (q \in FirstRecent /\ sent'[<<q, 0>>] = sent[<<q, 0>>])
    BY <1>4, RetryIsSlot DEF FirstRecent, Recent
  <2>3. ASSUME NEW q \in FirstRecent PROVE stamp[q] \in (n + 1)..Len(stamps)
    <3>1. stamp[q] \in 1..Len(stamps) /\ Recent(stamps[stamp[q]])
      BY <1>6, <2>1 DEF FirstRecent
    <3>2. ~(stamp[q] <= n)
      BY <1>5, <3>1
    <3> QED
      BY <1>5, <1>6, <3>1, <3>2
  <2> DEFINE later == [q \in FirstRecent' |-> IF q = r THEN N ELSE stamp[q] - n]
  <2>4. ASSUME NEW q \in FirstRecent', q # r
        PROVE  /\ later[q] = stamp[q] - n /\ stamp[q] \in Int
               /\ later[q] \in 1..(N - 1) /\ n + later[q] = stamp[q]
    <3>1. later[q] = stamp[q] - n /\ stamp[q] \in (n + 1)..Len(stamps)
      BY <2>2, <2>3, <2>4
    <3> QED
      BY <1>5, <1>6, <3>1
  <2>5. ASSUME NEW q \in FirstRecent', q = r
        PROVE  later[q] = N /\ N \in 1..N /\ N \in Nat
    BY <1>5, <1>6, <2>5
  <2>6. later \in [FirstRecent' -> DOMAIN stamps']
    <3>1. ASSUME NEW q \in FirstRecent' PROVE later[q] \in 1..N
      <4>1. CASE q = r
        BY <2>5, <4>1
      <4>2. CASE q # r
        BY <1>5, <1>6, <2>4, <4>2
      <4> QED
        BY <4>1, <4>2
    <3> QED
      BY <1>6, <3>1
  <2>7. ASSUME NEW q \in FirstRecent', NEW p \in FirstRecent', later[q] = later[p] PROVE q = p
    <3>1. CASE q = r /\ p # r
      BY <1>5, <1>6, <2>4, <2>5, <2>7, <3>1
    <3>2. CASE q # r /\ p = r
      BY <1>5, <1>6, <2>4, <2>5, <2>7, <3>2
    <3>3. CASE q # r /\ p # r
      <4>1. stamp[q] = stamp[p]
        BY <2>4, <2>7, <3>3
      <4> QED
        BY <2>1, <2>2, <3>3, <4>1
    <3> QED
      BY <3>1, <3>2, <3>3
  <2>8. ASSUME NEW q \in FirstRecent' PROVE stamps'[later[q]] = sent'[<<q, 0>>]
    <3>1. CASE q = r
      BY <1>4, <1>6, <2>5, <3>1
    <3>2. CASE q # r
      BY <1>6, <2>1, <2>2, <2>4, <3>2
    <3> QED
      BY <3>1, <3>2
  <2> HIDE DEF later
  <2> QED
    BY <2>6, <2>7, <2>8 DEF StampedInv
<1>10. ASSUME NEW p \in Retries, Recent(sent'[p]) PROVE AtMostPermits(Beside(sent[p]))'
  <2>1. p \in Slot /\ p # <<r, 0>> /\ \A q \in Request, a \in 1..MaxRetries : <<q, a>> # <<r, 0>>
    BY RetryIsSlot DEF Retries
  <2>2. Recent(sent[p]) /\ sent'[p] = sent[p]
    BY <1>4, <1>10, <2>1 DEF Recent
  <2>3. \A q \in Request, a \in 1..MaxRetries : sent'[<<q, a>>] = sent[<<q, a>>]
    BY <1>4, <2>1, RetryIsSlot
  <2>4. Beside(sent[p])' \subseteq Beside(sent[p])
    BY <1>4, <2>2, <2>3 DEF Beside
  <2> QED
    BY <2>2, <2>4, AtMostSubset DEF AtMostPermits
<1>11. AtMostPermits(HoldingPermit)'
  BY <1>3, GoOn
<1> QED
  BY <1>7, <1>8, <1>9, <1>10, <1>11 DEF Recent

\* A retry is sent after a window: of the same request no GET is recent, and
\* who is beside it had a permit all along.
LEMMA RetryKeeps ==
    ASSUME TypeOK, RateParts, NEW r \in Request, pc[r] = "backoff", sleep[r] = 0,
           Send(r), UNCHANGED <<attempt, sleep, lock, stamps>>
    PROVE  RateParts'
<1> USE DEF RateParts
<1> DEFINE mine == <<r, attempt[r]>>
<1>1. attempt[r] \in 1..MaxRetries /\ mine \in Slot /\ mine \in Retries
  BY RetryIsSlot DEF TypeOK, AttemptInv, Attempt
<1>2. sent' = [sent EXCEPT ![mine] = 0] /\ pc' = [pc EXCEPT ![r] = "get"]
  BY DEF Send, Goto
<1>3. /\ pc'[r] = "get" /\ \A q \in Request \ {r} : pc'[q] = pc[q]
      /\ sent'[mine] = 0
      /\ \A p \in Slot : p # mine => sent'[p] = sent[p]
  BY <1>1, <1>2 DEF TypeOK, Slot
<1>4. \A p \in Slot : sent[p] # None => sent[p] \in Nat
  BY DEF TypeOK, Slot, Age
<1>5. PacerInv'
  BY <1>3 DEF PacerInv
<1>6. ASSUME NEW q \in Request PROVE AttemptInv(q)'
  <2>1. CASE q # r
    <3>1. \A a \in Attempt : sent'[<<q, a>>] = sent[<<q, a>>]
      BY <1>3, <2>1 DEF Slot
    <3> QED
      BY <1>3, <2>1, <3>1 DEF AttemptInv, Recent
  <2>2. CASE q = r
    <3>1. ASSUME NEW a \in Attempt, Recent(sent[<<r, a>>]) PROVE FALSE
      <4>1. sent[<<r, a>>] \in Nat /\ sent[<<r, a>>] < Horizon
        BY <1>4, <3>1 DEF Recent, Slot
      <4>2. sleep[r] + sent[<<r, a>>] >= Horizon
        BY <3>1 DEF AttemptInv
      <4> QED
        BY <4>1, <4>2, HorizonAssumption
    <3>2. \A a \in Attempt : Recent(sent'[<<r, a>>]) => a = attempt[r]
      BY <1>3, <3>1 DEF Slot, Recent
    <3> QED
      BY <1>3, <2>2, <3>2 DEF AttemptInv, Recent
  <2> QED
    BY <2>1, <2>2
<1>7. StampedInv'
  <2>1. ASSUME NEW q \in Request PROVE <<q, 0>> # mine /\ <<q, 0>> \in Slot
    <3>1. attempt[r] # 0
      BY <1>1, RetriesAssumption
    <3> QED
      BY <3>1, RetryIsSlot
  <2>2. \A q \in Request : sent'[<<q, 0>>] = sent[<<q, 0>>]
    BY <1>3, <2>1
  <2>3. FirstRecent' = FirstRecent
    BY <2>2 DEF FirstRecent, Recent
  <2>4. PICK stamp \in [FirstRecent -> DOMAIN stamps] :
          /\ \A q, p \in FirstRecent : stamp[q] = stamp[p] => q = p
          /\ \A q \in FirstRecent : stamps[stamp[q]] = sent[<<q, 0>>]
    BY DEF StampedInv
  <2>5. \A q \in FirstRecent : sent'[<<q, 0>>] = sent[<<q, 0>>]
    BY <2>2 DEF FirstRecent
  <2> QED
    BY <2>3, <2>4, <2>5 DEF StampedInv
<1>8. ASSUME NEW p \in Retries, p # mine, Recent(sent'[p]) PROVE AtMostPermits(Beside(sent[p]))'
  <2>1. Recent(sent[p]) /\ sent'[p] = sent[p] /\ sent[p] \in Nat /\ sent[p] < Horizon
    BY <1>3, <1>4, <1>8, RetryIsSlot DEF Recent
  <2>2. r \in Beside(sent[p])
    BY <2>1 DEF Beside
  <2>3. ASSUME NEW q \in Request, q # r, q \in Beside(sent[p])' PROVE q \in Beside(sent[p])
    <3>1. \A a \in 1..MaxRetries : sent'[<<q, a>>] = sent[<<q, a>>]
      BY <1>3, <2>3, RetryIsSlot
    <3> QED
      BY <1>3, <2>1, <2>3, <3>1 DEF Beside
  <2>4. Beside(sent[p])' \subseteq Beside(sent[p])
    BY <2>2, <2>3 DEF Beside
  <2> QED
    BY <2>1, <2>4, AtMostSubset DEF AtMostPermits
<1>9. ASSUME Recent(sent'[mine]) PROVE AtMostPermits(Beside(sent[mine]))'
  <2>1. 0 < Horizon /\ sent'[mine] = 0
    BY <1>3, <1>9 DEF Recent
  <2>2. CASE \E p \in Retries : sent[p] = 0
    <3>1. PICK p \in Retries : sent[p] = 0
      BY <2>2
    <3>2. Recent(sent[p])
      BY <2>1, <3>1, NoneAssumption DEF Recent
    <3>3. r \in Beside(sent[p])
      BY <2>1, <3>1 DEF Beside
    <3>4. ASSUME NEW q \in Request, q # r, q \in Beside(sent[mine])' PROVE q \in Beside(sent[p])
      <4>1. \A a \in 1..MaxRetries : sent'[<<q, a>>] = sent[<<q, a>>]
        BY <1>3, <3>4, RetryIsSlot
      <4> QED
        BY <1>3, <2>1, <3>1, <3>4, <4>1 DEF Beside
    <3>5. Beside(sent[mine])' \subseteq Beside(sent[p])
      BY <3>3, <3>4 DEF Beside
    <3> QED
      BY <3>2, <3>5, AtMostSubset DEF AtMostPermits
  <2>3. CASE ~ \E p \in Retries : sent[p] = 0
    <3>1. r \in HoldingPermit
      BY DEF HoldingPermit
    <3>2. ASSUME NEW q \in Request, q # r, q \in Beside(sent[mine])' PROVE q \in HoldingPermit
      <4>1. ASSUME NEW a \in 1..MaxRetries, sent'[<<q, a>>] # None, sent'[<<q, a>>] <= 0
            PROVE  FALSE
        <5>1. sent'[<<q, a>>] = sent[<<q, a>>] /\ <<q, a>> \in Retries
          BY <1>3, <3>2, RetryIsSlot
        <5>2. sent[<<q, a>>] \in Nat /\ sent[<<q, a>>] <= 0
          BY <1>4, <4>1, <5>1, RetryIsSlot
        <5>3. sent[<<q, a>>] = 0
          BY <5>2
        <5> QED
          BY <2>3, <5>1, <5>3
      <4>2. pc'[q] = "backoff"
        BY <2>1, <3>2, <4>1 DEF Beside
      <4> QED
        BY <1>3, <3>2, <4>2 DEF HoldingPermit
    <3>3. Beside(sent[mine])' \subseteq HoldingPermit
      BY <3>1, <3>2 DEF Beside
    <3> QED
      BY <3>3, AtMostSubset DEF AtMostPermits
  <2> QED
    BY <2>2, <2>3
<1>10. AtMostPermits(HoldingPermit)'
  BY <1>2, GoOn
<1>11. ASSUME NEW p \in Retries, Recent(sent'[p]) PROVE AtMostPermits(Beside(sent[p]))'
  BY <1>8, <1>9, <1>11
<1> QED
  BY <1>5, <1>6, <1>7, <1>10, <1>11 DEF Recent

\* Ages and sleeps keep their sums, as long as they count.
LEMMA TickKeeps ==
    ASSUME TypeOK, RateParts, Tick
    PROVE  RateParts'
<1> USE DEF RateParts
<1>1. /\ stamps' = [i \in DOMAIN stamps |-> Older(stamps[i])]
      /\ \A p \in Slot : sent'[p] = Older(sent[p])
      /\ \A r \in Request : sleep'[r] = IF sleep[r] > 0 THEN sleep[r] - 1 ELSE 0
      /\ UNCHANGED <<pc, attempt, lock>>
  BY DEF Tick, Slot
<1>2. \A r \in Request : sleep[r] \in Nat
  BY DEF TypeOK
<1>3. ASSUME NEW p \in Slot
      PROVE  /\ sent[p] \in Age /\ (sent'[p] = None <=> sent[p] = None)
             /\ Recent(sent'[p]) => Recent(sent[p]) /\ sent[p] \in Nat /\ sent'[p] = sent[p] + 1
             /\ sent[p] # None => sent[p] \in Nat /\ sent'[p] \in Nat /\ sent[p] <= sent'[p]
             /\ sent[p] # None /\ sent[p] < Horizon => sent'[p] = sent[p] + 1
             /\ sent[p] # None /\ sent[p] >= Horizon => sent'[p] = sent[p]
  <2>1. sent[p] \in Age /\ sent'[p] = Older(sent[p])
    BY <1>1 DEF TypeOK, Slot
  <2> QED
    BY <2>1, NoneAssumption, HorizonAssumption DEF Older, Recent, Age
<1>4. PacerInv'
  <2>1. stamps' \in Seq(Nat) /\ Len(stamps') = Len(stamps)
    BY <1>1, StampsOlder DEF TypeOK
  <2>2. ASSUME NEW r \in Request, pc[r] = "spacing"
        PROVE  stamps' # <<>> /\ sleep'[r] + Head(stamps') >= Horizon
    <3>1. stamps # <<>> /\ sleep[r] + Head(stamps) >= Horizon
      BY <2>2 DEF PacerInv
    <3>2. Head(stamps) = stamps[1] /\ stamps[1] \in Nat /\ Len(stamps) \in Nat \ {0}
      BY <3>1, HeadIsFirst DEF TypeOK
    <3>3. stamps' # <<>>
      BY <2>1, <3>2, EmptySeq
    <3>4. Head(stamps') = stamps'[1]
      BY <2>1, <3>3, HeadIsFirst
    <3>5. 1 \in DOMAIN stamps
      BY <3>2, LenProperties DEF TypeOK
    <3>6. stamps'[1] = Older(stamps[1])
      BY <1>1, <3>5
    <3>7. Older(stamps[1]) = IF stamps[1] < Horizon THEN stamps[1] + 1 ELSE stamps[1]
      BY <3>2, NoneAssumption DEF Older
    <3>8. sleep'[r] + stamps'[1] >= Horizon
      BY <1>1, <1>2, <3>1, <3>2, <3>6, <3>7, HorizonAssumption
    <3> QED
      BY <3>3, <3>4, <3>8
  <2> QED
    BY <1>1, <2>1, <2>2 DEF PacerInv
<1>5. ASSUME NEW r \in Request PROVE AttemptInv(r)'
  <2>1. \A a \in Attempt : <<r, a>> \in Slot
    BY DEF Slot
  <2>2. ASSUME pc[r] = "backoff", NEW a \in Attempt, Recent(sent'[<<r, a>>])
        PROVE  sleep'[r] + sent'[<<r, a>>] >= Horizon
    <3>1. Recent(sent[<<r, a>>]) /\ sent[<<r, a>>] \in Nat /\ sent'[<<r, a>>] = sent[<<r, a>>] + 1
      BY <1>3, <2>1, <2>2
    <3>2. sleep[r] + sent[<<r, a>>] >= Horizon
      BY <2>2, <3>1 DEF AttemptInv
    <3> QED
      BY <1>1, <1>2, <3>1, <3>2, HorizonAssumption
  <2>3. \A a, b \in Attempt : Recent(sent'[<<r, a>>]) /\ Recent(sent'[<<r, b>>]) => a = b
    BY <1>3, <2>1 DEF AttemptInv
  <2>4. pc[r] \in {"new", "permit", "lock", "spacing"} =>
          attempt[r] = 0 /\ \A a \in Attempt : sent'[<<r, a>>] = None
    BY <1>3, <2>1 DEF AttemptInv
  <2> QED
    BY <1>1, <2>2, <2>3, <2>4 DEF AttemptInv, Recent
<1>6. StampedInv'
  <2>1. PICK stamp \in [FirstRecent -> DOMAIN stamps] :
          /\ \A q, p \in FirstRecent : stamp[q] = stamp[p] => q = p
          /\ \A q \in FirstRecent : stamps[stamp[q]] = sent[<<q, 0>>]
    BY DEF StampedInv
  <2>2. FirstRecent' \subseteq FirstRecent
    BY <1>3, RetryIsSlot DEF FirstRecent, Recent
  <2>3. DOMAIN stamps' = DOMAIN stamps
    BY <1>1
  <2> DEFINE still == [q \in FirstRecent' |-> stamp[q]]
  <2>4. still \in [FirstRecent' -> DOMAIN stamps']
    BY <2>1, <2>2, <2>3
  <2>5. ASSUME NEW q \in FirstRecent' PROVE stamps'[still[q]] = sent'[<<q, 0>>]
    <3>1. still[q] = stamp[q] /\ stamp[q] \in DOMAIN stamps /\ stamps[stamp[q]] = sent[<<q, 0>>]
      BY <2>1, <2>2, <2>5
    <3>2. <<q, 0>> \in Slot
      BY <2>5, RetryIsSlot DEF FirstRecent
    <3> QED
      BY <1>1, <3>1, <3>2
  <2>6. \A q, p \in FirstRecent' : still[q] = still[p] => q = p
    BY <2>1, <2>2
  <2> HIDE DEF still
  <2> QED
    BY <2>4, <2>5, <2>6 DEF StampedInv
<1>7. AtMostPermits(HoldingPermit)'
  BY <1>1 DEF AtMostPermits, HoldingPermit
<1>8. ASSUME NEW p \in Retries, Recent(sent'[p]) PROVE AtMostPermits(Beside(sent[p]))'
  <2>1. Recent(sent[p]) /\ sent[p] \in Nat /\ sent'[p] = sent[p] + 1 /\ sent[p] < Horizon
        /\ sent'[p] < Horizon
    BY <1>3, <1>8, RetryIsSlot DEF Recent
  <2>2. ASSUME NEW q \in Request, q \in Beside(sent[p])' PROVE q \in Beside(sent[p])
    <3>1. CASE \E a \in 1..MaxRetries : sent'[<<q, a>>] # None /\ sent'[<<q, a>>] <= sent'[p]
      <4>1. PICK a \in 1..MaxRetries : sent'[<<q, a>>] # None /\ sent'[<<q, a>>] <= sent'[p]
        BY <3>1
      <4>2. <<q, a>> \in Slot
        BY RetryIsSlot
      <4>3. sent[<<q, a>>] # None /\ sent[<<q, a>>] <= sent[p]
        BY <1>3, <2>1, <4>1, <4>2, HorizonAssumption
      <4> QED
        BY <4>3 DEF Beside
    <3>2. CASE pc'[q] = "backoff" /\ sleep'[q] + sent'[p] < Horizon
      <4>1. sleep[q] + sent[p] < Horizon
        BY <1>1, <1>2, <2>1, <3>2, HorizonAssumption
      <4> QED
        BY <1>1, <3>2, <4>1 DEF Beside
    <3> QED
      BY <2>2, <3>1, <3>2 DEF Beside
  <2>3. Beside(sent[p])' \subseteq Beside(sent[p])
    BY <2>2 DEF Beside
  <2> QED
    BY <2>1, <2>3, AtMostSubset DEF AtMostPermits
<1> QED
  BY <1>4, <1>5, <1>6, <1>7, <1>8 DEF Recent

LEMMA BackOffIsLong ==
    ASSUME TypeOK, service = "pubmed", NEW r \in Request, BackOff(r)
    PROVE  /\ pc' = [pc EXCEPT ![r] = "backoff"]
           /\ attempt'[r] >= 1 /\ sleep'[r] >= Horizon
           /\ \A q \in Request \ {r} : sleep'[q] = sleep[q] /\ attempt'[q] = attempt[q]
<1>1. attempt[r] \in Nat
  BY RetriesAssumption DEF TypeOK, Attempt
<1>2. attempt'[r] = attempt[r] + 1 /\ \A q \in Request \ {r} : attempt'[q] = attempt[q]
  BY DEF BackOff, TypeOK
<1>3. sleep'[r] >= Horizon /\ \A q \in Request \ {r} : sleep'[q] = sleep[q]
  BY DEF BackOff, Sleep, TypeOK
<1> QED
  BY <1>1, <1>2, <1>3 DEF BackOff, Goto

LEMMA StepRate == TypeOK /\ TypeOK' /\ RateInv /\ [Next]_vars => RateInv'
<1> SUFFICES ASSUME TypeOK, TypeOK', RateParts, service = "pubmed", [Next]_vars
             PROVE  RateParts'
  BY ServiceStays DEF RateInv, RateParts
<1> HIDE DEF RateParts
<1>1. ASSUME NEW r \in Request, Arrive(r) PROVE RateParts'
  BY <1>1, QuietKeeps DEF Arrive, Goto
<1>2. ASSUME NEW r \in Request, TakePermit(r) PROVE RateParts'
  BY <1>2, TakePermitKeeps
<1>3. ASSUME NEW r \in Request, PacerLock(r) PROVE RateParts'
  <2>1. CASE Len(InWindow) >= Permits
    BY <1>3, <2>1, PacerSleepKeeps
  <2>2. CASE ~(Len(InWindow) >= Permits)
    <3>1. Len(InWindow) < Permits
      <4>1. Len(InWindow) \in Nat
        BY WindowIsTail, LenProperties DEF TypeOK
      <4> QED
        BY <2>2, <4>1, PermitsAssumption
    <3>2. \A q \in Request : pc[q] # "spacing"
      BY <1>3, NoneAssumption DEF PacerLock, RateParts, PacerInv
    <3> QED
      BY <1>3, <2>2, <3>1, <3>2, FirstSendKeeps DEF PacerLock
  <2> QED
    BY <2>1, <2>2
<1>4. ASSUME NEW r \in Request, PacerWake(r) PROVE RateParts'
  <2>1. /\ pc[r] = "spacing" /\ sleep[r] = 0 /\ lock = r /\ stamps # <<>>
        /\ Len(stamps) <= Permits /\ sleep[r] + Head(stamps) >= Horizon
    BY <1>4 DEF PacerWake, RateParts, PacerInv
  <2>2. \A q \in Request \ {r} : pc[q] # "spacing"
    BY <2>1 DEF RateParts, PacerInv
  <2>3. stamps[1] \in Nat /\ ~Recent(stamps[1]) /\ Len(stamps) \in Nat \ {0}
    BY <2>1, HeadIsFirst, HorizonAssumption DEF TypeOK, Recent
  <2>4. Len(InWindow) < Permits
    <3>1. PICK n \in 0..Len(stamps) :
            /\ n < Len(stamps) => Recent(stamps[n + 1])
            /\ Len(InWindow) = Len(stamps) - n
      BY WindowIsTail DEF TypeOK
    <3>2. n # 0
      BY <2>3, <3>1
    <3> QED
      BY <2>1, <2>3, <3>1, <3>2, PermitsAssumption
  <2> QED
    BY <1>4, <2>1, <2>2, <2>4, FirstSendKeeps DEF PacerWake
<1>5. ASSUME NEW r \in Request, Reply(r) PROVE RateParts'
  BY <1>5, QuietKeeps DEF Reply, GetOver, Goto
<1>6. ASSUME NEW r \in Request, pc[r] = "get", BackOff(r), UNCHANGED <<lock, stamps, sent>>
      PROVE  RateParts'
  BY <1>6, BackOffIsLong, QuietKeeps
<1>7. ASSUME NEW r \in Request, NEW outcome \in {"response", "error"}, GiveUp(r, outcome),
             UNCHANGED <<lock, stamps, sent>>
      PROVE  RateParts'
  BY <1>7, QuietKeeps DEF GiveUp, Goto
<1>8. ASSUME NEW r \in Request, Refused(r) PROVE RateParts'
  BY <1>6, <1>7, <1>8 DEF Refused, GetOver, Responded
<1>9. ASSUME NEW r \in Request, TransportError(r) PROVE RateParts'
  BY <1>6, <1>7, <1>9 DEF TransportError, GetOver
<1>10. ASSUME NEW r \in Request, Retry(r) PROVE RateParts'
  BY <1>10, RetryKeeps DEF Retry
<1>11. ASSUME NEW r \in Request, Cancel(r) PROVE RateParts'
  <2>1. \A q \in Request \ {r} : lock = q => lock' = q
    BY <1>11 DEF Cancel
  <2>2. \A q \in Request \ {r} : sleep'[q] = sleep[q] /\ attempt'[q] = attempt[q]
    BY <1>11 DEF Cancel, Sleep, TypeOK
  <2> QED
    BY <1>11, <2>1, <2>2, QuietKeeps DEF Cancel, Goto
<1>12. CASE Tick
  BY <1>12, TickKeeps
<1>13. CASE UNCHANGED vars
  <2>1. UNCHANGED <<stamps, sent, pc, attempt, sleep, lock>>
    BY <1>13 DEF vars
  <2>2. StampedInv'
    BY <2>1, StampedStays DEF RateParts
  <2> QED
    BY <2>1, <2>2 DEF RateParts, PacerInv, AttemptInv, AtMostPermits, HoldingPermit, Beside, Recent
<1>14. ASSUME NEW r \in Request, ArxivLock(r) \/ ArxivWake(r) \/ Courtesy(r) PROVE FALSE
  BY <1>14 DEF ArxivLock, ArxivWake, Courtesy
<1> QED
  BY <1>1, <1>2, <1>3, <1>4, <1>5, <1>8, <1>9, <1>10, <1>11, <1>12, <1>13, <1>14 DEF Next, Progress

LEMMA FirstsAreStamped ==
    ASSUME TypeOK, PacerInv, StampedInv
    PROVE  Cardinality(FirstRecent) <= Permits
<1>1. PICK stamp \in [FirstRecent -> DOMAIN stamps] :
        \A q, r \in FirstRecent : stamp[q] = stamp[r] => q = r
  BY DEF StampedInv
<1>2. Len(stamps) \in Nat /\ DOMAIN stamps = 1..Len(stamps) /\ Len(stamps) <= Permits
  BY LenProperties DEF TypeOK, PacerInv
<1>3. stamp \in Injection(FirstRecent, 1..Len(stamps))
  BY <1>1, <1>2 DEF Injection, IsInjective
<1>4. IsFiniteSet(1..Len(stamps)) /\ Cardinality(1..Len(stamps)) = Len(stamps)
  BY <1>2, FS_Interval
<1>5. IsFiniteSet(FirstRecent) /\ Cardinality(FirstRecent) <= Cardinality(1..Len(stamps))
  BY <1>3, <1>4, FS_Injection
<1> QED
  BY <1>2, <1>4, <1>5, FS_CardinalityType, PermitsAssumption

\* The oldest retry in the window has all the others beside it.
LEMMA RetriesAreBeside ==
    ASSUME TypeOK, \A r \in Request : AttemptInv(r),
           \A p \in Retries : Recent(sent[p]) => AtMostPermits(Beside(sent[p]))
    PROVE  Cardinality({p \in Retries : Recent(sent[p])}) <= Permits
<1> DEFINE R == {p \in Retries : Recent(sent[p])}
<1>1. CASE R = {}
  BY <1>1, FS_EmptySet, PermitsAssumption
<1>2. CASE R # {}
  <2>1. \A p \in R : sent[p] \in Nat /\ sent[p] < Horizon /\ Horizon - sent[p] \in Nat
    BY RetryIsSlot, HorizonAssumption DEF TypeOK, Recent, Age, Slot
  <2> DEFINE left == {Horizon - sent[p] : p \in R}
  <2>2. left \subseteq Nat /\ left # {}
    BY <1>2, <2>1
  <2> HIDE DEF left
  <2>3. PICK least \in left : \A m \in left : least <= m
    BY <2>2, LeastNat
  <2>4. PICK oldest \in R : least = Horizon - sent[oldest]
    BY <2>3 DEF left
  <2>5. ASSUME NEW p \in R PROVE sent[p] <= sent[oldest]
    <3>1. least <= Horizon - sent[p]
      BY <2>3 DEF left
    <3> QED
      BY <2>1, <2>4, <3>1, HorizonAssumption
  <2>6. AtMostPermits(Beside(sent[oldest]))
    OBVIOUS
  <2> DEFINE who == [p \in R |-> p[1]]
  <2>7. ASSUME NEW p \in R PROVE who[p] \in Beside(sent[oldest])
    <3>1. PICK r \in Request, a \in 1..MaxRetries : p = <<r, a>>
      BY DEF Retries
    <3>2. sent[<<r, a>>] # None /\ sent[<<r, a>>] <= sent[oldest]
      BY <2>5, <3>1 DEF Recent
    <3> QED
      BY <3>1, <3>2 DEF Beside
  <2>8. ASSUME NEW p \in R, NEW q \in R, who[p] = who[q] PROVE p = q
    <3>1. PICK r \in Request, a \in 1..MaxRetries : p = <<r, a>>
      BY DEF Retries
    <3>2. PICK s \in Request, b \in 1..MaxRetries : q = <<s, b>>
      BY DEF Retries
    <3>3. r = s
      BY <2>8, <3>1, <3>2
    <3>4. a \in Attempt /\ b \in Attempt
      BY RetryIsSlot
    <3>5. a = b
      BY <3>1, <3>2, <3>3, <3>4 DEF AttemptInv
    <3> QED
      BY <3>1, <3>2, <3>3, <3>5
  <2>9. who \in Injection(R, Beside(sent[oldest]))
    <3>1. who \in [R -> Beside(sent[oldest])]
      BY <2>7
    <3> HIDE DEF who
    <3> QED
      BY <2>8, <3>1 DEF Injection, IsInjective
  <2>10. /\ IsFiniteSet(R) /\ Cardinality(R) <= Cardinality(Beside(sent[oldest]))
    BY <2>6, <2>9, FS_Injection DEF AtMostPermits
  <2>11. Cardinality(R) \in Nat /\ Cardinality(Beside(sent[oldest])) \in Nat
    BY <2>6, <2>10, FS_CardinalityType DEF AtMostPermits
  <2> HIDE DEF R
  <2>12. Cardinality(R) <= Permits
    BY <2>6, <2>10, <2>11, PermitsAssumption DEF AtMostPermits
  <2> QED
    BY <2>12 DEF R
<1> QED
  BY <1>1, <1>2

LEMMA RateHolds == TypeOK /\ RateInv => PubMedRate
<1> SUFFICES ASSUME TypeOK, RateParts, service = "pubmed"
             PROVE  /\ Cardinality(FirstRecent) <= Permits
                    /\ Cardinality({p \in Retries : Recent(sent[p])}) <= Permits
  BY DEF PubMedRate, RateInv, RateParts, FirstRecent, Retries
<1> QED
  BY FirstsAreStamped, RetriesAreBeside DEF RateParts

\* What the pacer and the semaphore of the PubMed client are for: in a window
\* there are at most N first attempts and at most N retries, whatever is
\* refused, times out or is cancelled, for any number of requests and retries.
THEOREM PubMedKeepsItsRate == Spec => []PubMedRate
<1>1. Init => TypeOK /\ RateInv
  BY InitTypes, InitRate
<1>2. TypeOK /\ RateInv /\ [Next]_vars => TypeOK' /\ RateInv'
  BY StepTypes, StepRate
<1> QED
  BY <1>1, <1>2, RateHolds, PTL DEF Spec
=============================================================================
