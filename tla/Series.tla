-------------------------------- MODULE Series --------------------------------
(***************************************************************************)
(* What a room promises to those who only follow its games: they are       *)
(* numbered from 1 and opened by X and O in turn, each is between two      *)
(* players, moves alternate, a game ends once and is then recorded, and    *)
(* its verdict stands until the next one is opened.  A game that is        *)
(* replaced while it runs is never recorded.  There are no slots,          *)
(* sessions, connections, proposals or timers here; RoomSession has them,  *)
(* and is shown to implement this.                                         *)
(***************************************************************************)
EXTENDS Naturals

CONSTANTS Tables, People

VARIABLES
  number,    \* of the latest game at each table, 0 before the first
  sides,     \* who plays which symbol
  opener,    \* the symbol that opened it
  turn,      \* the symbol to move
  verdict,   \* how it ended and for whom, or Undecided
  recorded   \* the numbers of the games that have ended

seriesVars == <<number, sides, opener, turn, verdict, recorded>>

Marks == {"X", "O"}
Nobody == "none"
Other(m) == IF m = "X" THEN "O" ELSE "X"
Undecided == [how |-> Nobody, winner |-> Nobody]

Running(t) == number[t] > 0 /\ verdict[t] = Undecided

\* The verdicts a game may end with while m is to move.
Verdicts(m) ==
  {[how |-> "WIN", winner |-> m], [how |-> "DRAW", winner |-> Nobody]}
  \cup [how : {"FORFEIT"}, winner : Marks]
  \cup [how : {"ABANDONED"}, winner : Marks \cup {Nobody}]

SeriesInit ==
  /\ number = [t \in Tables |-> 0]
  /\ opener = [t \in Tables |-> Nobody]
  /\ turn = [t \in Tables |-> Nobody]
  /\ verdict = [t \in Tables |-> Undecided]
  /\ recorded = [t \in Tables |-> {}]

Open(t) ==
  LET first == IF number[t] = 0 THEN "X" ELSE Other(opener[t]) IN
  /\ number' = [number EXCEPT ![t] = @ + 1]
  /\ \E two \in [Marks -> People] :
       two["X"] # two["O"] /\ sides' = [sides EXCEPT ![t] = two]
  /\ opener' = [opener EXCEPT ![t] = first]
  /\ turn' = [turn EXCEPT ![t] = first]
  /\ verdict' = [verdict EXCEPT ![t] = Undecided]
  /\ UNCHANGED recorded

Move(t) ==
  /\ Running(t)
  /\ turn' = [turn EXCEPT ![t] = Other(@)]
  /\ UNCHANGED <<number, sides, opener, verdict, recorded>>

Conclude(t) ==
  /\ Running(t)
  /\ \E v \in Verdicts(turn[t]) : verdict' = [verdict EXCEPT ![t] = v]
  /\ recorded' = [recorded EXCEPT ![t] = @ \cup {number[t]}]
  /\ UNCHANGED <<number, sides, opener, turn>>

SeriesNext == \E t \in Tables : Open(t) \/ Move(t) \/ Conclude(t)

SeriesSpec == SeriesInit /\ [][SeriesNext]_seriesVars
===============================================================================
