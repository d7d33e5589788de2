---------------------------- MODULE MCConnections ----------------------------
(***************************************************************************)
(* Instances of Connections for TLC.  Connections are interchangeable, and *)
(* so are players; the liveness run does not use the symmetry.             *)
(***************************************************************************)
EXTENDS Connections, TLC

Symmetry == Permutations(Conns) \cup Permutations(Players)
=============================================================================
