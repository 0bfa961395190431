-------------------------- MODULE MCDatabaseClient --------------------------
(***************************************************************************)
(* Instances of DatabaseClient for TLC: every service in turn.             *)
(***************************************************************************)
EXTENDS DatabaseClient, TLC

Requests == Permutations(Request)
=============================================================================
