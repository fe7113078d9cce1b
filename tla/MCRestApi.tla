------------------------------- MODULE MCRestApi -------------------------------
(***************************************************************************)
(* RestApi on a small instance: two requests at a time, two attempts in a  *)
(* window of two units, a lock after three failures.                       *)
(***************************************************************************)
EXTENDS RestApi, TLC

Symmetric == Permutations(Requests) \cup Permutations(Tokens)

=============================================================================
