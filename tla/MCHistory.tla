------------------------------ MODULE MCHistory -------------------------------
(***************************************************************************)
(* Instances of History for TLC.  Rooms are interchangeable.               *)
(***************************************************************************)
EXTENDS History, TLC

RoomSymmetry == Permutations(Rooms)
===============================================================================
