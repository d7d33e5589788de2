------------------------------- MODULE Engine --------------------------------
(***************************************************************************)
(* The pure game engine of src/server/game/engine.ts: the fields of        *)
(* GameState as variables, one action per exported transition.  Timestamps *)
(* (createdAt, firstMoveAt, endedAt, appliedAt), ids and the event records *)
(* returned beside the new state are left out.  `reason' is left out of    *)
(* GameResult: the code pairs it one to one with `outcome'.                *)
(*                                                                         *)
(* The engine does not guard forfeit and abandon by the status; both       *)
(* callers in gameSession.ts do, so the guard is written in EndWithLoser.  *)
(* Nobody checks that the id given up for is a player of the game.         *)
(***************************************************************************)
EXTENDS Integers, Sequences

CONSTANTS
  Players,           \* the player ids that may reach the engine
  PlayerX, PlayerO,  \* the two players of the game
  Coords,            \* the row and column numbers a MAKE_MOVE may carry
  Openings           \* bound: the cells tried for the first moves of a game

ASSUME PlayersAssumption ==
  /\ PlayerX \in Players
  /\ PlayerO \in Players
  /\ PlayerX # PlayerO

ASSUME CoordsAssumption == Coords \subseteq Int

ASSUME OpeningsAssumption == Openings \in Seq(SUBSET (0..8))

VARIABLES board, currentTurn, status, result, moveHistory, firstTurn

vars == <<board, currentTurn, status, result, moveHistory, firstTurn>>

Symbols == {"X", "O"}
Empty == "_"
NoSymbol == "none"
Cells == 0..8
opponent(s) == IF s = "X" THEN "O" ELSE "X"

\* Mistaken variant of ALL_WINNING_LINES: a typo in the second diagonal.
LinesWithTypo ==
  << {0, 1, 2}, {3, 4, 5}, {6, 7, 8},
     {0, 3, 6}, {1, 4, 7}, {2, 5, 8},
     {0, 4, 8}, {2, 4, 7} >>

ALL_WINNING_LINES ==
  << {0, 1, 2}, {3, 4, 5}, {6, 7, 8},
     {0, 3, 6}, {1, 4, 7}, {2, 5, 8},
     {0, 4, 8}, {2, 4, 6} >>

NoLine == {}
NoResult == [outcome |-> "none", winner |-> NoSymbol, line |-> NoLine]
EndResult(outcome, winner, line) ==
  [outcome |-> outcome, winner |-> winner, line |-> line]

-----------------------------------------------------------------------------
\* The pure helpers.

positionToIndex(row, col) == row * 3 + col

\* Mistaken variant of isValidPosition: it looks at the index only.
isValidIndex(row, col) == row >= 0 /\ col >= 0 /\ positionToIndex(row, col) <= 8

isValidPosition(row, col) == row \in 0..2 /\ col \in 0..2

resolveSymbol(p) ==
  IF p = PlayerX THEN "X" ELSE IF p = PlayerO THEN "O" ELSE NoSymbol

applyMarkToBoard(b, c, s) == [b EXCEPT ![c] = s]

WinningIndexes(b, s) ==
  {i \in 1..8 : \A c \in ALL_WINNING_LINES[i] : b[c] = s}

\* The first matching line in the order of ALL_WINNING_LINES, or NoLine.
detectWin(b, s) ==
  LET hits == WinningIndexes(b, s) IN
  IF hits = {} THEN NoLine
  ELSE ALL_WINNING_LINES[CHOOSE i \in hits : \A j \in hits : i <= j]

isBoardFull(b) == \A c \in Cells : b[c] # Empty

Accepted == "ACCEPTED"

\* Mistaken variant of RejectionReason: marked cells are not checked.
RejectionWithoutOccupied(p, row, col) ==
  IF status # "ACTIVE" \/ resolveSymbol(p) = NoSymbol THEN "GAME_NOT_ACTIVE"
  ELSE IF resolveSymbol(p) # currentTurn THEN "NOT_YOUR_TURN"
  ELSE IF ~isValidPosition(row, col) THEN "OUT_OF_BOUNDS"
  ELSE Accepted

\* The order of the checks is the order of the early returns of applyMove.
RejectionReason(p, row, col) ==
  IF status # "ACTIVE" \/ resolveSymbol(p) = NoSymbol THEN "GAME_NOT_ACTIVE"
  ELSE IF resolveSymbol(p) # currentTurn THEN "NOT_YOUR_TURN"
  ELSE IF ~isValidPosition(row, col) THEN "OUT_OF_BOUNDS"
  ELSE IF board[positionToIndex(row, col)] # Empty THEN "CELL_OCCUPIED"
  ELSE Accepted

-----------------------------------------------------------------------------
\* startGame
Init ==
  /\ board = [c \in Cells |-> Empty]
  /\ firstTurn \in Symbols
  /\ currentTurn = firstTurn
  /\ status = "ACTIVE"
  /\ result = NoResult
  /\ moveHistory = <<>>

\* applyMove with the mark s on cell c, once every check has passed.
applyMove(s, c) ==
  LET newBoard == applyMarkToBoard(board, c, s)
      line == detectWin(newBoard, s)
      finish(r) == /\ status' = "FINISHED"
                   /\ currentTurn' = s
                   /\ result' = r
  IN
  /\ board' = newBoard
  /\ moveHistory' = Append(moveHistory, [symbol |-> s, cell |-> c])
  /\ UNCHANGED firstTurn
  /\ \/ line # NoLine /\ finish(EndResult("WIN", s, line))
     \/ /\ line = NoLine
        /\ isBoardFull(newBoard)
        /\ finish(EndResult("DRAW", NoSymbol, NoLine))
     \/ /\ line = NoLine
        /\ ~isBoardFull(newBoard)
        /\ currentTurn' = opponent(s)
        /\ UNCHANGED <<status, result>>

\* Bound: a game starts with one of the openings tried.
InOpenings(c) ==
  Len(moveHistory) < Len(Openings) => c \in Openings[Len(moveHistory) + 1]

\* A rejected command returns the state unchanged, so only accepted ones step.
MakeMove(p, row, col) ==
  /\ RejectionReason(p, row, col) = Accepted
  /\ InOpenings(positionToIndex(row, col))
  /\ applyMove(resolveSymbol(p), positionToIndex(row, col))

\* forfeit and abandon: the same result but for the outcome.
EndWithLoser(p, outcome) ==
  LET loser == resolveSymbol(p)
      winner == IF loser = NoSymbol THEN NoSymbol ELSE opponent(loser)
  IN
  /\ status = "ACTIVE"
  /\ status' = "FINISHED"
  /\ result' = EndResult(outcome, winner, NoLine)
  /\ UNCHANGED <<board, currentTurn, moveHistory, firstTurn>>

\* Any id is accepted; one that is not a player of the game leaves no winner.
forfeit(p) == EndWithLoser(p, "FORFEIT")
abandon(p) == EndWithLoser(p, "ABANDONED")

\* Mistaken variants of createRematch: the opener is not swapped; the game waits
\* for somebody.
rematchSameOpener ==
  /\ status = "FINISHED"
  /\ currentTurn' = firstTurn
  /\ board' = [c \in Cells |-> Empty]
  /\ status' = "ACTIVE"
  /\ result' = NoResult
  /\ moveHistory' = <<>>
  /\ UNCHANGED firstTurn

rematchWaiting ==
  /\ status = "FINISHED"
  /\ firstTurn' = opponent(firstTurn)
  /\ currentTurn' = firstTurn'
  /\ board' = [c \in Cells |-> Empty]
  /\ status' = "WAITING"
  /\ result' = NoResult
  /\ moveHistory' = <<>>

createRematch ==
  /\ status = "FINISHED"
  /\ firstTurn' = opponent(firstTurn)
  /\ currentTurn' = firstTurn'
  /\ board' = [c \in Cells |-> Empty]
  /\ status' = "ACTIVE"
  /\ result' = NoResult
  /\ moveHistory' = <<>>

Next ==
  \/ \E p \in Players, row, col \in Coords : MakeMove(p, row, col)
  \/ \E p \in Players : forfeit(p)
  \/ \E p \in Players : abandon(p)
  \/ createRematch

Spec == Init /\ [][Next]_vars

-----------------------------------------------------------------------------
\* Properties.

\* How the game was given up, in the words of GameRules.
ConcessionOf(r) ==
  IF r.outcome \in {"FORFEIT", "ABANDONED"}
  THEN [by |-> IF r.winner = NoSymbol THEN NoSymbol ELSE opponent(r.winner),
        how |-> r.outcome]
  ELSE [by |-> "nobody", how |-> "PLAYING"]

Rules == INSTANCE GameRules WITH
           opener <- firstTurn,
           marks <- moveHistory,
           conceded <- ConcessionOf(result)

Marks == [symbol : Symbols, cell : Cells]
Results == [outcome : {"none", "WIN", "DRAW", "FORFEIT", "ABANDONED"},
            winner : Symbols \cup {NoSymbol},
            line : {NoLine} \cup {ALL_WINNING_LINES[i] : i \in 1..8}]

\* Every variable has its type; the codes of GameStatus and GameOutcome are
\* the only ones in use.
TypeOK ==
  /\ board \in [Cells -> Symbols \cup {Empty}]
  /\ currentTurn \in Symbols
  /\ status \in {"ACTIVE", "FINISHED"}
  /\ result \in Results
  /\ moveHistory \in Seq(Marks)
  /\ firstTurn \in Symbols

\* The board the clients are sent is the one the move history replays to, and
\* no cell was ever marked twice (boardFromHistory against applyMove).
BoardDerivableFromHistory ==
  /\ \A s \in Symbols : {c \in Cells : board[c] = s} = Rules!Owned(s)
  /\ \A i, j \in DOMAIN moveHistory :
       moveHistory[i].cell = moveHistory[j].cell => i = j

\* The verdict is the one the marks on the board justify: a game is still
\* ACTIVE exactly when the rules let it go on; the winner of a WIN owns the
\* winning line that is reported and the loser owns none; a DRAW is a full
\* board on which nobody has a line; a game given up has no line at all.
VerdictMatchesBoard ==
  /\ status = "FINISHED" <=> Rules!Over
  /\ status = "ACTIVE" <=> result = NoResult
  /\ result.outcome = "WIN" =>
       /\ result.winner \in Symbols
       /\ result.line \in Rules!Lines
       /\ result.line \subseteq Rules!Owned(result.winner)
       /\ ~Rules!HasLine(opponent(result.winner))
  /\ result.outcome # "WIN" =>
       /\ ~Rules!HasLine("X") /\ ~Rules!HasLine("O")
       /\ result.line = NoLine
  /\ result.outcome = "DRAW" => Rules!Full /\ result.winner = NoSymbol

\* applyMove accepts exactly the moves the rules of the game allow: whoever
\* sends whatever coordinates, no legal move is refused and no illegal one
\* lands, in particular no out-of-range column aliases a free cell.
AcceptsExactlyLegalMoves ==
  LET over == Rules!Over
      free == Cells \ (Rules!Owned("X") \cup Rules!Owned("O"))
      mover == IF Rules!Turn = "X" THEN PlayerX ELSE PlayerO
  IN \A p \in Players, row, col \in Coords :
       RejectionReason(p, row, col) = Accepted <=>
         /\ ~over
         /\ p = mover
         /\ row \in 0..2 /\ col \in 0..2
         /\ 3 * row + col \in free

\* The engine, with its board, cached turn and status, implements the rules.
ImplementsRules == Rules!RulesSpec
=============================================================================
