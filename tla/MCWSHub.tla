------------------------------- MODULE MCWSHub -------------------------------
(***************************************************************************)
(* WSHub on small instances; the connections are interchangeable.          *)
(***************************************************************************)
EXTENDS WSHub, TLC

Symmetry == Permutations(Clients)

=============================================================================
