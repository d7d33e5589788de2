-------------------------------- MODULE MCPages --------------------------------
(***************************************************************************)
(* Instances of Pages for TLC.  Only one of the two players has a modelled *)
(* page, so they are not interchangeable.                                  *)
(***************************************************************************)
EXTENDS Pages, TLC

\* What the steps and the properties of Pages look at.  Left out: how a game
\* ended; who plays it, which is who is seated while it runs; who accepted a
\* rematch, for which the symbols count; and when a window was armed once it is
\* gone.
PageView ==
  <<linked, sessionRoom, seat, connected, ready, window, page,
    [p \in Watched |-> IF \E r \in Rooms : p \in window[r] THEN armedIn[p] ELSE 0],
    [r \in Rooms |-> <<view(game[r]), game[r].firstTurn>>],
    [r \in Rooms |-> {s \in Symbols : rematch[r].acceptedBy[s] # NoPlayer}]>>
===============================================================================
