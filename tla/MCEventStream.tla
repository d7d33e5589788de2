---------------------------- MODULE MCEventStream ----------------------------
(***************************************************************************)
(* Instances of EventStream for TLC: the bounds are in the configurations. *)
(***************************************************************************)
EXTENDS EventStream
=============================================================================
