---------------------------- MODULE GrantLifecycle ----------------------------
(***************************************************************************)
(* What chains of refresh tokens promise, seen from the durable store: at  *)
(* most one token of a chain can be spent, a token that was replaced never *)
(* comes back, and a dead chain stays dead.  Nothing is said of locks,     *)
(* handlers, statements or restarts; one step may move several chains,     *)
(* since one COMMIT covers what every coroutine has run.                   *)
(***************************************************************************)
CONSTANTS Chain, Token, None

VARIABLE grant  \* of each chain: its phase, the token that can be spent,
                \* and the tokens that no longer can

Init == grant = [c \in Chain |-> [phase |-> "unborn", holder |-> None, past |-> {}]]

\* The code grant starts the chain.
Opens(old, new) ==
    /\ old.phase = "unborn" /\ new.phase = "active"
    /\ new.holder \in Token
    /\ new.past = old.past

\* The holder is replaced by a token never seen in the chain.
Rotates(old, new) ==
    /\ old.phase = "active" /\ new.phase = "active"
    /\ new.holder \in Token \ (old.past \cup {old.holder})
    /\ new.past = old.past \cup {old.holder}

\* A rotation of which only the first half is durable, and its completion.
Strands(old, new) ==
    /\ old.phase = "active" /\ new.phase = "stranded"
    /\ new.holder = None
    /\ new.past = old.past \cup {old.holder}

Resumes(old, new) ==
    /\ old.phase = "stranded" /\ new.phase = "active"
    /\ new.holder \in Token \ old.past
    /\ new.past = old.past

\* Reuse was detected; tokens no one received may die with the chain.
Dies(old, new) ==
    /\ old.phase \in {"active", "stranded"} /\ new.phase = "dead"
    /\ new.holder = None
    /\ (old.past \cup {old.holder}) \ {None} \subseteq new.past

Lives(old, new) ==
    \/ Opens(old, new) \/ Rotates(old, new) \/ Strands(old, new)
    \/ Resumes(old, new) \/ Dies(old, new)

Next ==
    \A c \in Chain : grant'[c] = grant[c] \/ Lives(grant[c], grant'[c])

Spec == Init /\ [][Next]_grant
=============================================================================
