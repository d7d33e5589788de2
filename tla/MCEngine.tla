------------------------------ MODULE MCEngine -------------------------------
(***************************************************************************)
(* Instance of Engine for TLC: the two players and a stranger, and the     *)
(* coordinates just outside the board beside those of the board.           *)
(***************************************************************************)
EXTENDS Engine

CONSTANTS alice, bob, carol
MCCoords == -1..3

\* A corner, a side or the centre; then three replies and two cells after that.
MCOpenings == << {0, 1, 4}, {2, 4, 7}, {3, 8} >>
=============================================================================
