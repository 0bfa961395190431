--------------------------- MODULE MCTokenEndpoint ---------------------------
(***************************************************************************)
(* Small instances of TokenEndpoint for TLC.  Requests are interchangeable *)
(* (a name stands for the random strings the request mints).               *)
(***************************************************************************)
EXTENDS TokenInvariants, TLC

Requests == Permutations(Req)

\* Clients, users and verifiers are only compared, so they too may be renamed.
Names == Requests \cup Permutations(Seeded) \cup Permutations(User)
           \cup Permutations(Verifier)
=============================================================================
