------------------------------ MODULE GameRules ------------------------------
(***************************************************************************)
(* What a series of tic-tac-toe games promises, told only by the marks     *)
(* placed so far: who owns which cells, when a game is over and with what  *)
(* verdict, and what may happen next.  It has no board, no status field    *)
(* and no cached turn; Engine has all three and is shown to implement it.  *)
(***************************************************************************)
EXTENDS Naturals, Sequences

VARIABLES
  opener,    \* the symbol that opens the current game
  marks,     \* the marks of the current game, oldest first
  conceded   \* how and by whom the game was given up, or NotConceded

ruleVars == <<opener, marks, conceded>>

Symbols == {"X", "O"}
Cells == 0..8
Other(s) == IF s = "X" THEN "O" ELSE "X"

NotConceded == [by |-> "nobody", how |-> "PLAYING"]
Quitters == Symbols \cup {"none"}   \* "none": given up by neither player

\* The three-in-a-row of the board whose cell (row, col) has number 3*row + col.
Lines ==
  LET row(r) == {3 * r + c : c \in 0..2}
      column(c) == {3 * r + c : r \in 0..2}
  IN  {row(r) : r \in 0..2} \cup {column(c) : c \in 0..2}
      \cup {{0, 4, 8}, {2, 4, 6}}

Owned(s) == {marks[i].cell : i \in {j \in DOMAIN marks : marks[j].symbol = s}}
HasLine(s) == LET own == Owned(s) IN \E line \in Lines : line \subseteq own
Full == Owned("X") \cup Owned("O") = Cells

Turn == IF marks = <<>> THEN opener ELSE Other(marks[Len(marks)].symbol)
Over == HasLine("X") \/ HasLine("O") \/ Full \/ conceded # NotConceded
Legal(s, c) == ~Over /\ s = Turn /\ c \notin Owned("X") \cup Owned("O")

-----------------------------------------------------------------------------
RulesInit ==
  /\ opener \in Symbols
  /\ marks = <<>>
  /\ conceded = NotConceded

Play(s, c) ==
  /\ Legal(s, c)
  /\ marks' = Append(marks, [symbol |-> s, cell |-> c])
  /\ UNCHANGED <<opener, conceded>>

Concede(q, how) ==
  /\ ~Over
  /\ conceded' = [by |-> q, how |-> how]
  /\ UNCHANGED <<opener, marks>>

NextGame ==
  /\ Over
  /\ opener' = Other(opener)
  /\ marks' = <<>>
  /\ conceded' = NotConceded

RulesNext ==
  \/ \E s \in Symbols, c \in Cells : Play(s, c)
  \/ \E q \in Quitters, how \in {"FORFEIT", "ABANDONED"} : Concede(q, how)
  \/ NextGame

RulesSpec == RulesInit /\ [][RulesNext]_ruleVars
=============================================================================
