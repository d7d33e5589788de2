----------------------------- MODULE EngineProofs ------------------------------
(***************************************************************************)
(* Theorems about Engine for any players, any coordinates a command may    *)
(* carry and any openings; that it implements GameRules is one of them.    *)
(***************************************************************************)
EXTENDS Engine, TLAPS

USE PlayersAssumption, CoordsAssumption

-----------------------------------------------------------------------------
\* While the game goes on, the cached turn is the one the history gives.
TurnFollowsHistory == status = "ACTIVE" => currentTurn = Rules!Turn

IInv ==
  /\ TypeOK
  /\ BoardDerivableFromHistory
  /\ VerdictMatchesBoard
  /\ TurnFollowsHistory

-----------------------------------------------------------------------------
\* The lines.

Boards == [Cells -> Symbols \cup {Empty}]
Mine(b, s) == {c \in Cells : b[c] = s}

\* The eight constants of the code are the lines of the rules; none is empty.
LEMMA LinesAgree ==
  /\ Rules!Lines = {ALL_WINNING_LINES[i] : i \in 1..8}
  /\ \A i \in 1..8 : ALL_WINNING_LINES[i] # NoLine /\ ALL_WINNING_LINES[i] \subseteq Cells
<1>1. /\ \A i \in 1..8 : i \in {1, 2, 3, 4, 5, 6, 7, 8}
      /\ \A r \in 0..2 : r \in {0, 1, 2}
      /\ {1, 2, 3, 4, 5, 6, 7, 8} \subseteq 1..8 /\ {0, 1, 2} \subseteq 0..2
  OBVIOUS
<1>2. {ALL_WINNING_LINES[i] : i \in 1..8} =
        {{0, 1, 2}, {3, 4, 5}, {6, 7, 8}, {0, 3, 6}, {1, 4, 7}, {2, 5, 8}, {0, 4, 8}, {2, 4, 6}}
  <2> DEFINE L == ALL_WINNING_LINES
  <2>1. /\ L[1] = {0, 1, 2} /\ L[2] = {3, 4, 5} /\ L[3] = {6, 7, 8} /\ L[4] = {0, 3, 6}
        /\ L[5] = {1, 4, 7} /\ L[6] = {2, 5, 8} /\ L[7] = {0, 4, 8} /\ L[8] = {2, 4, 6}
    BY DEF ALL_WINNING_LINES
  <2> HIDE DEF L
  <2>2. {L[i] : i \in 1..8} = {L[1], L[2], L[3], L[4], L[5], L[6], L[7], L[8]}
    BY <1>1
  <2>3. QED
    BY <2>1, <2>2 DEF L
<1>3. /\ {3 * 0 + c : c \in 0..2} = {0, 1, 2} /\ {3 * 1 + c : c \in 0..2} = {3, 4, 5}
      /\ {3 * 2 + c : c \in 0..2} = {6, 7, 8}
      /\ {3 * r + 0 : r \in 0..2} = {0, 3, 6} /\ {3 * r + 1 : r \in 0..2} = {1, 4, 7}
      /\ {3 * r + 2 : r \in 0..2} = {2, 5, 8}
  OBVIOUS
<1>4. /\ {{3 * r + c : c \in 0..2} : r \in 0..2} = {{0, 1, 2}, {3, 4, 5}, {6, 7, 8}}
      /\ {{3 * r + c : r \in 0..2} : c \in 0..2} = {{0, 3, 6}, {1, 4, 7}, {2, 5, 8}}
  BY <1>1, <1>3
<1>5. Rules!Lines = {{0, 1, 2}, {3, 4, 5}, {6, 7, 8}} \cup {{0, 3, 6}, {1, 4, 7}, {2, 5, 8}}
                    \cup {{0, 4, 8}, {2, 4, 6}}
  BY <1>4 DEF Rules!Lines
<1>6. \A i \in 1..8 : ALL_WINNING_LINES[i] # NoLine /\ ALL_WINNING_LINES[i] \subseteq Cells
  BY <1>1 DEF ALL_WINNING_LINES, NoLine, Cells
<1>7. QED
  BY <1>2, <1>5, <1>6

\* The first matching line exists.
LEMMA LeastIndex ==
  ASSUME NEW S \in SUBSET (1..8), S # {}
  PROVE  \E i \in S : \A j \in S : i <= j
<1> DEFINE From(k) == S \subseteq k..8 => \E i \in S : \A j \in S : i <= j
<1>1. From(8)
  <2>1. \A j \in 8..8 : j = 8 /\ 8 <= j
    OBVIOUS
  <2>2. PICK i \in S : TRUE
    OBVIOUS
  <2>3. S \subseteq 8..8 => \A j \in S : i <= j
    BY <2>1
  <2>4. QED
    BY <2>2, <2>3
<1>2. ASSUME NEW k \in 1..7, From(k + 1)
      PROVE  From(k)
  <2>1. CASE k \in S
    BY <2>1
  <2>2. CASE k \notin S
    <3>1. S \subseteq k..8 => S \subseteq (k + 1)..8
      BY <2>2
    <3>2. QED
      BY <1>2, <3>1
  <2>3. QED
    BY <2>1, <2>2
<1> HIDE DEF From
<1>3. From(7) /\ From(6) /\ From(5)
  BY <1>1, <1>2
<1>4. From(4) /\ From(3) /\ From(2) /\ From(1)
  BY <1>2, <1>3
<1>5. QED
  BY <1>4 DEF From

\* detectWin returns a line of the symbol exactly when there is one.
LEMMA DetectWinFindsLine ==
  ASSUME NEW b, NEW s
  PROVE  \/ /\ detectWin(b, s) = NoLine
            /\ \A line \in Rules!Lines : ~(line \subseteq Mine(b, s))
         \/ /\ detectWin(b, s) # NoLine
            /\ detectWin(b, s) \in Rules!Lines
            /\ detectWin(b, s) \subseteq Mine(b, s)
<1> DEFINE hits == WinningIndexes(b, s)
<1>1. hits \subseteq 1..8
      /\ \A i \in 1..8 : i \in hits <=> ALL_WINNING_LINES[i] \subseteq Mine(b, s)
  BY LinesAgree DEF WinningIndexes, Mine
<1>2. CASE hits = {}
  BY <1>1, <1>2, LinesAgree DEF detectWin
<1>3. CASE hits # {}
  <2> DEFINE i == CHOOSE k \in hits : \A j \in hits : k <= j
  <2>1. i \in hits
    BY <1>1, <1>3, LeastIndex
  <2>2. detectWin(b, s) = ALL_WINNING_LINES[i]
    BY <1>3 DEF detectWin
  <2>3. QED
    BY <1>1, <2>1, <2>2, LinesAgree
<1>4. QED
  BY <1>2, <1>3

-----------------------------------------------------------------------------
\* The history.

Mark(s, c) == [symbol |-> s, cell |-> c]

\* A mark put at the end of the history is owned, and what was owned stays so.
LEMMA OwnedGrows ==
  ASSUME moveHistory \in Seq(Marks), NEW s \in Symbols, NEW c \in Cells,
         moveHistory' = Append(moveHistory, Mark(s, c))
  PROVE  /\ Rules!Owned(s)' = Rules!Owned(s) \cup {c}
         /\ \A t \in Symbols \ {s} : Rules!Owned(t)' = Rules!Owned(t)
<1> DEFINE n == Len(moveHistory)
<1>1. /\ n \in Nat /\ DOMAIN moveHistory = 1..n /\ DOMAIN moveHistory' = 1..(n + 1)
      /\ \A i \in 1..n : moveHistory'[i] = moveHistory[i]
      /\ moveHistory'[n + 1] = Mark(s, c)
  OBVIOUS
<1>2. /\ \A i \in 1..(n + 1) : i \in 1..n \/ i = n + 1
      /\ \A i \in 1..n : i \in 1..(n + 1)
      /\ n + 1 \in 1..(n + 1)
  BY <1>1
<1>3. Mark(s, c).symbol = s /\ Mark(s, c).cell = c
  BY DEF Mark
<1> HIDE DEF n
<1>4. \A t, d : d \in Rules!Owned(t)' <=> d \in Rules!Owned(t) \/ (t = s /\ d = c)
  <2> SUFFICES ASSUME NEW t, NEW d
               PROVE  d \in Rules!Owned(t)' <=> d \in Rules!Owned(t) \/ (t = s /\ d = c)
    OBVIOUS
  <2>1. d \in Rules!Owned(t) <=>
          \E i \in 1..n : moveHistory[i].symbol = t /\ moveHistory[i].cell = d
    BY <1>1 DEF Rules!Owned
  <2>2. d \in Rules!Owned(t)' <=>
          \E i \in 1..(n + 1) : moveHistory'[i].symbol = t /\ moveHistory'[i].cell = d
    BY <1>1 DEF Rules!Owned
  <2>3. QED
    BY <1>1, <1>2, <1>3, <2>1, <2>2
<1>5. Rules!Owned(s)' = Rules!Owned(s) \cup {c}
  BY <1>4
<1>6. ASSUME NEW t \in Symbols \ {s}
      PROVE  Rules!Owned(t)' = Rules!Owned(t)
  <2>1. Rules!Owned(t)' \subseteq Rules!Owned(t) /\ Rules!Owned(t) \subseteq Rules!Owned(t)'
    BY <1>4, <1>6
  <2>2. QED
    BY <2>1
<1>7. QED
  BY <1>5, <1>6

\* An empty history owns nothing.
LEMMA NothingOwned ==
  ASSUME moveHistory = <<>>
  PROVE  \A s : Rules!Owned(s) = {}
BY DEF Rules!Owned

\* With nothing owned nobody has a line, and the board is not full.
LEMMA NothingOver ==
  ASSUME \A s : Rules!Owned(s) = {}
  PROVE  ~Rules!HasLine("X") /\ ~Rules!HasLine("O") /\ ~Rules!Full
<1>1. 0 \in Rules!Cells /\ \A line \in Rules!Lines : line # {}
  BY LinesAgree DEF Rules!Cells, NoLine
<1>2. QED
  BY <1>1 DEF Rules!HasLine, Rules!Full

LEMMA InitEstablishes == Init => IInv
<1> SUFFICES ASSUME Init PROVE IInv
  OBVIOUS
<1>1. TypeOK
  <2>1. board \in [Cells -> Symbols \cup {Empty}]
    BY DEF Init
  <2>2. result \in Results
    BY DEF Init, NoResult, Results
  <2>3. moveHistory \in Seq(Marks)
    BY DEF Init
  <2>4. QED
    BY <2>1, <2>2, <2>3 DEF Init, TypeOK
<1>2. /\ \A s : Rules!Owned(s) = {}
      /\ ~Rules!HasLine("X") /\ ~Rules!HasLine("O") /\ ~Rules!Full
  BY NothingOwned, NothingOver DEF Init
<1>3. BoardDerivableFromHistory
  <2>1. \A s \in Symbols : {c \in Cells : board[c] = s} = {}
    BY DEF Init, Symbols, Empty
  <2>2. DOMAIN moveHistory = {}
    BY DEF Init
  <2>3. QED
    BY <1>2, <2>1, <2>2 DEF BoardDerivableFromHistory
<1>4. VerdictMatchesBoard
  BY <1>2 DEF Init, VerdictMatchesBoard, Rules!Over, Rules!NotConceded, ConcessionOf, NoResult
<1>5. TurnFollowsHistory
  BY DEF Init, TurnFollowsHistory, Rules!Turn
<1>6. QED
  BY <1>1, <1>3, <1>4, <1>5 DEF IInv

-----------------------------------------------------------------------------
\* What an active game is like, and what a move makes of it.

LEMMA ActiveFacts ==
  ASSUME IInv, status = "ACTIVE"
  PROVE  /\ result = NoResult /\ ConcessionOf(result) = Rules!NotConceded
         /\ ~Rules!Over /\ ~Rules!HasLine("X") /\ ~Rules!HasLine("O")
         /\ currentTurn = Rules!Turn
<1>1. result = NoResult /\ ~Rules!Over /\ currentTurn = Rules!Turn
  BY DEF IInv, VerdictMatchesBoard, TurnFollowsHistory
<1>2. ConcessionOf(result) = Rules!NotConceded
  BY <1>1 DEF NoResult, ConcessionOf, Rules!NotConceded
<1>3. QED
  BY <1>1, <1>2 DEF Rules!Over

\* A move of s on c, as the conditions of applyMove leave it.
Moves(s, c) ==
  /\ s \in Symbols /\ c \in Cells
  /\ status = "ACTIVE" /\ s = currentTurn /\ board[c] = Empty
  /\ applyMove(s, c)

LEMMA MovesOnly ==
  ASSUME TypeOK, NEW p \in Players, NEW row \in Coords, NEW col \in Coords, MakeMove(p, row, col)
  PROVE  \E s \in Symbols, c \in Cells : Moves(s, c)
<1> DEFINE s == resolveSymbol(p)
           c == positionToIndex(row, col)
<1>1. /\ status = "ACTIVE" /\ s # NoSymbol /\ s = currentTurn
      /\ isValidPosition(row, col) /\ board[c] = Empty
  BY DEF MakeMove, RejectionReason, Accepted
<1>2. s \in Symbols
  BY <1>1 DEF TypeOK
<1>3. c \in Cells
  BY <1>1 DEF isValidPosition, positionToIndex, Cells
<1>4. QED
  BY <1>1, <1>2, <1>3 DEF Moves, MakeMove

\* A move shows on the board as in the history, and is over as the rules say.
LEMMA MoveFacts ==
  ASSUME IInv, NEW s \in Symbols, NEW c \in Cells, Moves(s, c)
  PROVE  /\ board' \in Boards /\ moveHistory' = Append(moveHistory, Mark(s, c))
         /\ c \notin Rules!Owned("X") \cup Rules!Owned("O")
         /\ BoardDerivableFromHistory'
         /\ \A line \in Rules!Lines :
              line \subseteq Mine(board', s) <=> line \subseteq Rules!Owned(s)'
         /\ ~Rules!HasLine(opponent(s))'
         /\ isBoardFull(board') <=> Rules!Full'
<1>1. /\ board \in Boards /\ moveHistory \in Seq(Marks) /\ board[c] = Empty
      /\ board' = [board EXCEPT ![c] = s] /\ moveHistory' = Append(moveHistory, Mark(s, c))
  BY DEF IInv, TypeOK, Boards, Moves, applyMove, applyMarkToBoard, Mark
<1>2. \A t \in Symbols : {d \in Cells : board[d] = t} = Rules!Owned(t)
  BY DEF IInv, BoardDerivableFromHistory
<1>3. /\ board' \in Boards /\ board'[c] = s
      /\ \A d \in Cells \ {c} : board'[d] = board[d]
  BY <1>1 DEF Boards
<1>4. Empty \notin Symbols /\ "X" \in Symbols /\ "O" \in Symbols /\ opponent(s) \in Symbols \ {s}
      /\ \A t \in Symbols : t = s \/ t = opponent(s)
  BY DEF Empty, Symbols, opponent
<1>5. \A t \in Symbols : c \notin Rules!Owned(t)
  BY <1>1, <1>2, <1>4
<1>6. /\ Rules!Owned(s)' = Rules!Owned(s) \cup {c}
      /\ Rules!Owned(opponent(s))' = Rules!Owned(opponent(s))
  BY <1>1, <1>4, OwnedGrows
<1>7. {d \in Cells : board'[d] = s} = Rules!Owned(s)'
  BY <1>2, <1>3, <1>6
<1>8. {d \in Cells : board'[d] = opponent(s)} = Rules!Owned(opponent(s))'
  <2>1. {d \in Cells : board'[d] = opponent(s)} = {d \in Cells : board[d] = opponent(s)}
    BY <1>1, <1>3, <1>4
  <2>2. QED
    BY <1>2, <1>4, <1>6, <2>1
<1>9. BoardDerivableFromHistory'
  <2>1. \A t \in Symbols : ({d \in Cells : board[d] = t} = Rules!Owned(t))'
    BY <1>4, <1>7, <1>8
  <2>2. \A i \in DOMAIN moveHistory :
          /\ moveHistory[i].symbol \in Symbols
          /\ moveHistory[i].cell \in Rules!Owned(moveHistory[i].symbol)
    <3> SUFFICES ASSUME NEW i \in DOMAIN moveHistory
                 PROVE  /\ moveHistory[i].symbol \in Symbols
                        /\ moveHistory[i].cell \in Rules!Owned(moveHistory[i].symbol)
      OBVIOUS
    <3>1. moveHistory[i] \in Marks
      BY <1>1
    <3>2. QED
      BY <3>1 DEF Marks, Rules!Owned
  <2>3. \A i \in DOMAIN moveHistory : moveHistory[i].cell # c
    BY <1>5, <2>2
  <2>4. \A i, j \in DOMAIN moveHistory' :
          moveHistory'[i].cell = moveHistory'[j].cell => i = j
    <3>1. /\ \A i, j \in 1..Len(moveHistory) :
               moveHistory[i].cell = moveHistory[j].cell => i = j
          /\ \A i \in 1..Len(moveHistory) : moveHistory[i].cell # c
      BY <1>1, <2>3 DEF IInv, BoardDerivableFromHistory
    <3>2. /\ DOMAIN moveHistory' = 1..(Len(moveHistory) + 1) /\ Len(moveHistory) \in Nat
          /\ \A i \in 1..Len(moveHistory) : moveHistory'[i] = moveHistory[i]
          /\ moveHistory'[Len(moveHistory) + 1].cell = c
      BY <1>1 DEF Mark
    <3>3. \A i \in 1..(Len(moveHistory) + 1) :
            i \in 1..Len(moveHistory) \/ i = Len(moveHistory) + 1
      BY <3>2
    <3>4. QED
      BY <3>1, <3>2, <3>3
  <2>5. QED
    BY <2>1, <2>4 DEF BoardDerivableFromHistory
<1>10. \A line \in Rules!Lines :
         line \subseteq Mine(board', s) <=> line \subseteq Rules!Owned(s)'
  BY <1>7 DEF Mine
<1>11. ~Rules!HasLine(opponent(s))'
  <2>1. ~Rules!HasLine(opponent(s))
    BY ActiveFacts DEF Moves, opponent
  <2>2. QED
    BY <1>6, <2>1 DEF Rules!HasLine
<1>12. isBoardFull(board') <=> Rules!Full'
  <2>1. Rules!Full' <=> Rules!Owned(s)' \cup Rules!Owned(opponent(s))' = Cells
    <3>1. CASE s = "X"
      <4>1. opponent(s) = "O"
        BY <3>1 DEF opponent
      <4>2. Rules!Full' <=> Rules!Owned("X")' \cup Rules!Owned("O")' = Cells
        BY DEF Rules!Full, Rules!Cells, Cells
      <4>3. QED
        BY <3>1, <4>1, <4>2
    <3>2. CASE s = "O"
      <4>1. opponent(s) = "X"
        BY <3>2 DEF opponent
      <4>2. Rules!Full' <=> Rules!Owned("X")' \cup Rules!Owned("O")' = Cells
        BY DEF Rules!Full, Rules!Cells, Cells
      <4>3. QED
        BY <3>2, <4>1, <4>2
    <3>3. QED
      BY <3>1, <3>2 DEF Symbols
  <2>2. isBoardFull(board') <=> \A d \in Cells : board'[d] \in Symbols
    BY <1>3, <1>4 DEF isBoardFull, Boards
  <2>3. QED
    BY <1>4, <1>7, <1>8, <2>1, <2>2
<1>13. QED
  BY <1>1, <1>3, <1>4, <1>5, <1>9, <1>10, <1>11, <1>12

\* The verdict after a move.
LEMMA MoveVerdict ==
  ASSUME IInv, NEW s \in Symbols, NEW c \in Cells, Moves(s, c)
  PROVE  /\ TypeOK' /\ VerdictMatchesBoard' /\ TurnFollowsHistory'
         /\ ConcessionOf(result)' = Rules!NotConceded
<1> DEFINE line == detectWin(board', s)
<1>1. /\ result = NoResult /\ status = "ACTIVE" /\ ConcessionOf(result) = Rules!NotConceded
  BY ActiveFacts DEF Moves
<1>2. /\ \/ line = NoLine /\ ~Rules!HasLine(s)'
         \/ /\ line # NoLine /\ line \in Rules!Lines
            /\ line \subseteq Rules!Owned(s)' /\ Rules!HasLine(s)'
      /\ ~Rules!HasLine(opponent(s))'
      /\ isBoardFull(board') <=> Rules!Full'
  BY DetectWinFindsLine, MoveFacts DEF Rules!HasLine
<1>3. board' \in Boards /\ moveHistory' \in Seq(Marks) /\ firstTurn' \in Symbols
  BY MoveFacts DEF IInv, TypeOK, Mark, Marks, Moves, applyMove
<1>4. s # opponent(s) /\ opponent(s) \in Symbols /\ Symbols = {s, opponent(s)}
      /\ opponent(opponent(s)) = s
  BY DEF Symbols, opponent
<1>5. ~Rules!HasLine(s)' => ~Rules!HasLine("X")' /\ ~Rules!HasLine("O")'
  BY <1>2, <1>4 DEF Symbols
<1>6. Rules!HasLine(s)' => Rules!HasLine("X")' \/ Rules!HasLine("O")'
  BY DEF Symbols
<1>7. CASE /\ line # NoLine /\ status' = "FINISHED" /\ currentTurn' = s
           /\ result' = EndResult("WIN", s, line)
  <2>1. /\ result'.outcome = "WIN" /\ result'.winner = s /\ result'.line = line
        /\ result' # NoResult /\ result' \in Results
    BY <1>2, <1>7, LinesAgree DEF EndResult, NoResult, Results
  <2>2. TypeOK'
    BY <1>3, <1>7, <2>1 DEF TypeOK, Boards
  <2>3. VerdictMatchesBoard'
    BY <1>2, <1>6, <1>7, <2>1 DEF VerdictMatchesBoard, Rules!Over
  <2>4. ConcessionOf(result)' = Rules!NotConceded
    BY <2>1 DEF ConcessionOf, Rules!NotConceded
  <2>5. QED
    BY <1>7, <2>2, <2>3, <2>4 DEF TurnFollowsHistory
<1>8. CASE /\ line = NoLine /\ isBoardFull(board') /\ status' = "FINISHED" /\ currentTurn' = s
           /\ result' = EndResult("DRAW", NoSymbol, NoLine)
  <2>1. /\ result'.outcome = "DRAW" /\ result'.winner = NoSymbol /\ result'.line = NoLine
        /\ result' # NoResult /\ result' \in Results
    BY <1>8 DEF EndResult, NoResult, Results
  <2>2. TypeOK'
    BY <1>3, <1>8, <2>1 DEF TypeOK, Boards
  <2>3. VerdictMatchesBoard'
    BY <1>2, <1>5, <1>8, <2>1 DEF VerdictMatchesBoard, Rules!Over
  <2>4. ConcessionOf(result)' = Rules!NotConceded
    BY <2>1 DEF ConcessionOf, Rules!NotConceded
  <2>5. QED
    BY <1>8, <2>2, <2>3, <2>4 DEF TurnFollowsHistory
<1>9. CASE /\ line = NoLine /\ ~isBoardFull(board') /\ currentTurn' = opponent(s)
           /\ UNCHANGED <<status, result>>
  <2>1. TypeOK'
    BY <1>3, <1>4, <1>9 DEF IInv, TypeOK, Boards
  <2>2. ConcessionOf(result)' = Rules!NotConceded
    BY <1>1, <1>9
  <2>3. ~Rules!Over'
    BY <1>2, <1>5, <1>9, <2>2 DEF Rules!Over
  <2>4. VerdictMatchesBoard'
    BY <1>1, <1>2, <1>5, <1>9, <2>3 DEF VerdictMatchesBoard, NoResult
  <2>5. TurnFollowsHistory'
    <3>1. /\ moveHistory' # <<>> /\ moveHistory'[Len(moveHistory')].symbol = s
      <4>1. moveHistory \in Seq(Marks) /\ moveHistory' = Append(moveHistory, Mark(s, c))
        BY MoveFacts DEF IInv, TypeOK
      <4>2. /\ Len(moveHistory') = Len(moveHistory) + 1 /\ Len(moveHistory) \in Nat
            /\ moveHistory'[Len(moveHistory) + 1] = Mark(s, c)
        BY <4>1
      <4>3. moveHistory' # <<>>
        BY <4>2
      <4>4. QED
        BY <4>2, <4>3 DEF Mark
    <3>2. Rules!Turn' = opponent(s)
      BY <3>1 DEF Rules!Turn, Rules!Other, opponent
    <3>3. QED
      BY <1>9, <3>2 DEF TurnFollowsHistory
  <2>6. QED
    BY <2>1, <2>2, <2>4, <2>5
<1>10. QED
  BY <1>7, <1>8, <1>9 DEF Moves, applyMove, applyMarkToBoard

-----------------------------------------------------------------------------
\* Giving up, and the next game.

\* Whoever the id belongs to, the game ends once, for the reason given.
LEMMA ConcedeFacts ==
  ASSUME IInv, NEW p \in Players, NEW how \in {"FORFEIT", "ABANDONED"}, EndWithLoser(p, how)
  PROVE  /\ IInv'
         /\ \E q \in Rules!Quitters : ConcessionOf(result)' = [by |-> q, how |-> how]
<1>1. /\ status = "ACTIVE" /\ status' = "FINISHED"
      /\ UNCHANGED <<board, currentTurn, moveHistory, firstTurn>>
  BY DEF EndWithLoser
<1>2. PICK w \in Symbols \cup {NoSymbol} : result' = EndResult(how, w, NoLine)
  BY DEF EndWithLoser, resolveSymbol, opponent, Symbols, NoSymbol
<1>3. /\ result'.outcome = how /\ result'.winner = w /\ result'.line = NoLine
      /\ result' \in Results /\ result' # NoResult
  BY <1>2 DEF EndResult, Results, NoResult
<1>4. /\ \E q \in Rules!Quitters : ConcessionOf(result)' = [by |-> q, how |-> how]
      /\ ConcessionOf(result)' # Rules!NotConceded
  <2>1. CASE w = NoSymbol
    BY <1>3, <2>1 DEF ConcessionOf, Rules!Quitters, Rules!NotConceded, NoSymbol
  <2>2. CASE w \in Symbols /\ w # NoSymbol
    <3>1. opponent(w) \in Rules!Quitters
      BY DEF opponent, Rules!Quitters, Rules!Symbols
    <3>2. QED
      BY <1>3, <2>2, <3>1 DEF ConcessionOf, Rules!NotConceded
  <2>3. QED
    BY <2>1, <2>2
<1>5. TypeOK'
  BY <1>1, <1>3 DEF IInv, TypeOK
<1>6. BoardDerivableFromHistory'
  BY <1>1 DEF IInv, BoardDerivableFromHistory, Rules!Owned
<1>7. ~Rules!HasLine("X")' /\ ~Rules!HasLine("O")'
  BY <1>1, ActiveFacts DEF Rules!HasLine, Rules!Owned
<1>8. VerdictMatchesBoard'
  BY <1>1, <1>3, <1>4, <1>7 DEF VerdictMatchesBoard, Rules!Over
<1>9. QED
  BY <1>1, <1>4, <1>5, <1>6, <1>8 DEF IInv, TurnFollowsHistory

\* A rematch starts like the first game, opened by the other symbol.
LEMMA RematchFacts ==
  ASSUME IInv, createRematch
  PROVE  /\ IInv'
         /\ firstTurn' = Rules!Other(firstTurn) /\ moveHistory' = <<>>
         /\ ConcessionOf(result)' = Rules!NotConceded
<1>1. /\ status' = "ACTIVE" /\ moveHistory' = <<>> /\ result' = NoResult
      /\ firstTurn' = opponent(firstTurn) /\ currentTurn' = firstTurn'
      /\ board' = [c \in Cells |-> Empty]
  BY DEF createRematch
<1>2. firstTurn' \in Symbols /\ firstTurn' = Rules!Other(firstTurn)
  BY <1>1 DEF opponent, Symbols, Rules!Other
<1>3. ConcessionOf(result)' = Rules!NotConceded
  BY <1>1 DEF NoResult, ConcessionOf, Rules!NotConceded
<1>4. TypeOK'
  <2>1. board' \in [Cells -> Symbols \cup {Empty}] /\ result' \in Results
    BY <1>1 DEF NoResult, Results
  <2>2. QED
    BY <1>1, <1>2, <2>1 DEF TypeOK
<1>5. Rules!Owned("X")' = {} /\ Rules!Owned("O")' = {}
  BY <1>1 DEF Rules!Owned
<1>6. BoardDerivableFromHistory'
  <2>1. ({c \in Cells : board[c] = "X"} = {} /\ {c \in Cells : board[c] = "O"} = {})'
    BY <1>1 DEF Empty
  <2>2. DOMAIN moveHistory' = {}
    BY <1>1
  <2>3. QED
    BY <1>5, <2>1, <2>2 DEF BoardDerivableFromHistory, Symbols
<1>7. ~Rules!HasLine("X")' /\ ~Rules!HasLine("O")' /\ ~Rules!Full'
  <2>1. 0 \in Rules!Cells /\ \A line \in Rules!Lines : line # {}
    BY LinesAgree DEF Rules!Cells, NoLine
  <2>2. QED
    BY <1>5, <2>1 DEF Rules!HasLine, Rules!Full
<1>8. VerdictMatchesBoard'
  BY <1>1, <1>3, <1>7 DEF VerdictMatchesBoard, Rules!Over, NoResult
<1>9. TurnFollowsHistory'
  BY <1>1 DEF TurnFollowsHistory, Rules!Turn
<1>10. QED
  BY <1>1, <1>2, <1>3, <1>4, <1>6, <1>8, <1>9 DEF IInv

-----------------------------------------------------------------------------
\* The invariant, and the step simulation.

\* Every step is a move, a concession, a rematch or a stutter.
LEMMA StepCases ==
  ASSUME IInv, [Next]_vars
  PROVE  \/ \E s \in Symbols, c \in Cells : Moves(s, c)
         \/ \E p \in Players, how \in {"FORFEIT", "ABANDONED"} : EndWithLoser(p, how)
         \/ createRematch
         \/ UNCHANGED vars
<1>1. CASE \E p \in Players, row, col \in Coords : MakeMove(p, row, col)
  BY <1>1, MovesOnly DEF IInv
<1>2. CASE \E p \in Players : forfeit(p) \/ abandon(p)
  BY <1>2 DEF forfeit, abandon
<1>3. QED
  BY <1>1, <1>2 DEF Next

LEMMA StepPreserves == IInv /\ [Next]_vars => IInv'
<1> SUFFICES ASSUME IInv, [Next]_vars PROVE IInv'
  OBVIOUS
<1>1. ASSUME NEW s \in Symbols, NEW c \in Cells, Moves(s, c)
      PROVE  IInv'
  BY <1>1, MoveFacts, MoveVerdict DEF IInv
<1>2. ASSUME NEW p \in Players, NEW how \in {"FORFEIT", "ABANDONED"}, EndWithLoser(p, how)
      PROVE  IInv'
  BY <1>2, ConcedeFacts
<1>3. CASE createRematch
  BY <1>3, RematchFacts
<1>4. CASE UNCHANGED vars
  BY <1>4 DEF vars, IInv, TypeOK, BoardDerivableFromHistory, VerdictMatchesBoard,
              TurnFollowsHistory, Rules!Over, Rules!HasLine, Rules!Full, Rules!Owned, Rules!Turn
<1>5. QED
  BY <1>1, <1>2, <1>3, <1>4, StepCases

\* The inductive invariant holds throughout.
THEOREM Invariant == Spec => []IInv
<1>1. QED
  BY InitEstablishes, StepPreserves, PTL DEF Spec

\* Every field of GameState keeps its type, in whatever order commands with
\* whatever coordinates reach the engine.
THEOREM TypeCorrect == Spec => []TypeOK
<1>1. IInv => TypeOK
  BY DEF IInv
<1>2. QED
  BY Invariant, <1>1, PTL

\* The board is always the replay of the moves, none on a cell already marked
\* (applyMove against boardFromHistory).
THEOREM BoardIsReplay == Spec => []BoardDerivableFromHistory
<1>1. IInv => BoardDerivableFromHistory
  BY DEF IInv
<1>2. QED
  BY Invariant, <1>1, PTL

\* The status and the result are those the marks on the board justify.
THEOREM VerdictIsJust == Spec => []VerdictMatchesBoard
<1>1. IInv => VerdictMatchesBoard
  BY DEF IInv
<1>2. QED
  BY Invariant, <1>1, PTL

\* The checks of applyMove, against what the rules allow.
LEMMA LegalMovesOnly == IInv => AcceptsExactlyLegalMoves
<1> SUFFICES ASSUME IInv PROVE AcceptsExactlyLegalMoves
  OBVIOUS
<1> DEFINE free == Cells \ (Rules!Owned("X") \cup Rules!Owned("O"))
           mover == IF Rules!Turn = "X" THEN PlayerX ELSE PlayerO
<1>1. status = "ACTIVE" <=> ~Rules!Over
  BY DEF IInv, TypeOK, VerdictMatchesBoard
<1>2. \A c \in Cells : board[c] = Empty <=> c \in free
  <2>1. /\ {c \in Cells : board[c] = "X"} = Rules!Owned("X")
        /\ {c \in Cells : board[c] = "O"} = Rules!Owned("O")
    BY DEF IInv, BoardDerivableFromHistory, Symbols
  <2>2. \A c \in Cells : board[c] \in {"X", "O", Empty}
    BY DEF IInv, TypeOK, Symbols
  <2>3. QED
    BY <2>1, <2>2 DEF Empty
<1>3. ASSUME NEW p \in Players, status = "ACTIVE"
      PROVE  resolveSymbol(p) # NoSymbol /\ resolveSymbol(p) = currentTurn <=> p = mover
  <2>1. currentTurn = Rules!Turn /\ currentTurn \in {"X", "O"}
    BY <1>3, ActiveFacts DEF IInv, TypeOK, Symbols
  <2>2. QED
    BY <2>1 DEF resolveSymbol, NoSymbol, PlayersAssumption
<1>4. ASSUME NEW row \in Coords, NEW col \in Coords
      PROVE  isValidPosition(row, col) => /\ positionToIndex(row, col) = 3 * row + col
                                          /\ 3 * row + col \in Cells
  BY DEF isValidPosition, positionToIndex, Cells
<1>5. ASSUME NEW p \in Players, NEW row \in Coords, NEW col \in Coords
      PROVE  RejectionReason(p, row, col) = Accepted <=>
               ~Rules!Over /\ p = mover /\ row \in 0..2 /\ col \in 0..2 /\ 3 * row + col \in free
  <2>1. RejectionReason(p, row, col) = Accepted <=>
          /\ status = "ACTIVE" /\ resolveSymbol(p) # NoSymbol /\ resolveSymbol(p) = currentTurn
          /\ isValidPosition(row, col) /\ board[positionToIndex(row, col)] = Empty
    BY DEF RejectionReason, Accepted
  <2>2. isValidPosition(row, col) <=> row \in 0..2 /\ col \in 0..2
    BY DEF isValidPosition
  <2> HIDE DEF free, mover
  <2>3. QED
    BY <1>1, <1>2, <1>3, <1>4, <2>1, <2>2
<1>6. QED
  BY <1>5 DEF AcceptsExactlyLegalMoves

\* Exactly the legal moves are accepted, from any player and with any coordinates
\* (the early returns of applyMove).
THEOREM LegalMoves == Spec => []AcceptsExactlyLegalMoves
<1>1. QED
  BY Invariant, LegalMovesOnly, PTL

\* A step of the engine is a step of the rules, or changes nothing they know of.
LEMMA StepSimulates == IInv /\ [Next]_vars => [Rules!RulesNext]_(Rules!ruleVars)
<1> SUFFICES ASSUME IInv, [Next]_vars
             PROVE  Rules!RulesNext \/ UNCHANGED Rules!ruleVars
  OBVIOUS
<1>1. ASSUME NEW s \in Symbols, NEW c \in Cells, Moves(s, c)
      PROVE  Rules!Play(s, c)
  <2>1. /\ ~Rules!Over /\ s = Rules!Turn /\ ConcessionOf(result) = Rules!NotConceded
    BY <1>1, ActiveFacts DEF Moves
  <2>2. Rules!Legal(s, c)
    BY <1>1, <2>1, MoveFacts DEF Rules!Legal
  <2>3. ConcessionOf(result)' = ConcessionOf(result) /\ firstTurn' = firstTurn
    BY <1>1, <2>1, MoveVerdict DEF Moves, applyMove
  <2>4. QED
    BY <1>1, <2>2, <2>3, MoveFacts DEF Rules!Play, Mark
<1>2. ASSUME NEW p \in Players, NEW how \in {"FORFEIT", "ABANDONED"}, EndWithLoser(p, how)
      PROVE  \E q \in Rules!Quitters : Rules!Concede(q, how)
  <2>1. ~Rules!Over /\ UNCHANGED <<firstTurn, moveHistory>>
    BY <1>2, ActiveFacts DEF EndWithLoser
  <2>2. QED
    BY <1>2, <2>1, ConcedeFacts DEF Rules!Concede
<1>3. CASE createRematch
  <2>1. Rules!Over
    BY <1>3 DEF IInv, VerdictMatchesBoard, createRematch
  <2>2. QED
    BY <1>3, <2>1, RematchFacts DEF Rules!NextGame, Rules!RulesNext
<1>4. CASE UNCHANGED vars
  BY <1>4 DEF vars, Rules!ruleVars, ConcessionOf
<1>5. QED
  BY <1>1, <1>2, <1>3, <1>4, StepCases
  DEF Rules!RulesNext, Rules!Symbols, Symbols, Rules!Cells, Cells

\* The engine implements the rules of the game: its board, cached turn and
\* status never let it do what the rules, told by the marks alone, do not.
THEOREM EngineImplementsRules == Spec => ImplementsRules
<1>1. Init => Rules!RulesInit
  BY DEF Init, Rules!RulesInit, Rules!Symbols, Symbols, NoResult, ConcessionOf, Rules!NotConceded
<1>2. QED
  BY <1>1, Invariant, StepSimulates, PTL DEF Spec, ImplementsRules, Rules!RulesSpec
================================================================================
