------------------------------ MODULE MCHarness ------------------------------
(* Two invocations for TLC.  They are alike, so that of two commands the one *)
(* that comes first in Commands is given to p1.                              *)
EXTENDS HarnessProperties

CONSTANTS p1, p2

Commands == <<"auth", "refresh", "register", "status", "token", "validate">>

Rank(p) == CHOOSE i \in DOMAIN Commands : Commands[i] = job[p].cmd

\* Of two validations one at most is in a debugging mode.
MCInit == Init /\ Rank(p1) <= Rank(p2) /\ Len(job[p2].passes) # 1

MCSpec == MCInit /\ [][Next]_vars /\ Fairness
=============================================================================
