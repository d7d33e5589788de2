---------------------------- MODULE MCRoomSession ----------------------------
(***************************************************************************)
(* Instances of RoomSession for TLC.  Players are interchangeable; a run   *)
(* that checks liveness does not use the symmetry.                         *)
(***************************************************************************)
EXTENDS RoomSession, TLC

PlayerSymmetry == Permutations(Players)
=============================================================================
