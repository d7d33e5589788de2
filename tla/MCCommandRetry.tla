---------------------------- MODULE MCCommandRetry ----------------------------
(***************************************************************************)
(* Instance of CommandRetry for TLC.  The cells are interchangeable, and   *)
(* so are the commandIds of one sort; the players are not, PlayerX opens   *)
(* the first game.                                                         *)
(***************************************************************************)
EXTENDS CommandRetry, TLC

IdSymmetry ==
  Permutations(Cells) \cup Permutations(ReadyIds) \cup Permutations(MoveIds)
    \cup Permutations(RematchIds)
===============================================================================
