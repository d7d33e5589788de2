------------------------------ MODULE RoomProofs -------------------------------
(***************************************************************************)
(* Theorems about RoomSession for any players, any rooms and any bound on  *)
(* the number of games, and then about the pages that drive it (Pages),    *)
(* for any of the players with a page.                                     *)
(***************************************************************************)
EXTENDS Pages, TLAPS

USE NoPlayerAssumption, NoRoomAssumption, MaxGamesAssumption

-----------------------------------------------------------------------------
\* The operators the handlers are built from.

Outcomes == {"WIN", "DRAW", "FORFEIT", "ABANDONED"}
GameStates == {NoGame} \cup StartedGames

\* A game in progress is a started one, never the null state of a new room.
LEMMA ActiveIsStarted ==
  ASSUME TypeOK, NEW r \in Rooms, Active(r) \/ Finished(r)
  PROVE  game[r] \in StartedGames
BY DEF TypeOK, Active, Finished, NoGame

\* finishGame keeps the types and touches the room's game and history only.
LEMMA FinishType ==
  ASSUME TypeOK, NEW r \in Rooms, Active(r),
         NEW o \in Outcomes, NEW w \in Symbols \cup {NoSymbol},
         finishGame(r, o, w)
  PROVE  /\ game' \in [Rooms -> GameStates]
         /\ completed' \in [Rooms -> SUBSET (1..MaxGames)]
<1> DEFINE g == [game[r] EXCEPT !.status = "FINISHED", !.outcome = o, !.winner = w]
<1>1. game[r] \in StartedGames
  BY ActiveIsStarted
<1>2. g \in StartedGames
  BY <1>1 DEF StartedGames, Outcomes
<1>3. game[r].id \in 1..MaxGames
  BY <1>1 DEF StartedGames
<1>4. game' = [game EXCEPT ![r] = g]
  BY DEF finishGame
<1>5. completed' = [completed EXCEPT ![r] = @ \cup {game[r].id}]
  BY DEF finishGame
<1> HIDE DEF g
<1>6. QED
  BY <1>2, <1>3, <1>4, <1>5 DEF TypeOK, GameStates

\* startGame keeps the types.
LEMMA StartType ==
  ASSUME TypeOK, NEW r \in Rooms, NEW first \in Symbols, startGame(r, first)
  PROVE  game' \in [Rooms -> GameStates]
<1>1. CASE ~BothSeated(r)
  BY <1>1 DEF startGame, TypeOK, GameStates
<1>2. CASE BothSeated(r)
  <2> DEFINE g == [id |-> game[r].id + 1, status |-> "ACTIVE", player |-> seat[r],
                   turn |-> first, firstTurn |-> first,
                   outcome |-> NoSymbol, winner |-> NoSymbol]
  <2>1. game[r].id \in 0..MaxGames
    BY DEF TypeOK, NoGame, StartedGames
  <2>2. game[r].id + 1 \in 1..MaxGames
    BY <1>2, <2>1 DEF startGame
  <2>3. seat[r] \in [Symbols -> Players]
    BY <1>2 DEF BothSeated, TypeOK
  <2>4. g \in StartedGames
    BY <2>2, <2>3 DEF StartedGames
  <2>5. game' = [game EXCEPT ![r] = g]
    BY <1>2 DEF startGame
  <2> HIDE DEF g
  <2>6. QED
    BY <2>4, <2>5 DEF TypeOK, GameStates
<1>3. QED
  BY <1>1, <1>2

\* So do handleForfeit and handleAbandon.
LEMMA EndType ==
  ASSUME TypeOK, NEW r \in Rooms, NEW p \in Players, NEW o \in Outcomes,
         endIfActive(r, p, o)
  PROVE  /\ game' \in [Rooms -> GameStates]
         /\ completed' \in [Rooms -> SUBSET (1..MaxGames)]
<1>1. winnerWithout(r, p) \in Symbols \cup {NoSymbol}
  BY DEF winnerWithout, Symbols
<1>2. CASE Active(r)
  BY <1>1, <1>2, FinishType DEF endIfActive
<1>3. CASE ~Active(r)
  BY <1>3 DEF endIfActive, TypeOK, GameStates
<1>4. QED
  BY <1>2, <1>3

\* setConnected only ever names the symbols of slots.
LEMMA SetConnectedType ==
  ASSUME TypeOK, NEW r \in Rooms, NEW p, NEW b \in BOOLEAN, setConnected(r, p, b)
  PROVE  connected' \in [Rooms -> SUBSET Symbols]
<1> DEFINE s == {getSymbolForPlayer(r, p)} \cap Symbols
<1>1. connected' = [connected EXCEPT ![r] = IF b THEN @ \cup s ELSE @ \ s]
  BY DEF setConnected
<1>2. s \subseteq Symbols
  OBVIOUS
<1> HIDE DEF s
<1>3. QED
  BY <1>1, <1>2 DEF TypeOK

\* What finishGame does to a game in progress, and that it does nothing else.
LEMMA FinishFacts ==
  ASSUME TypeOK, NEW r \in Rooms, Active(r), NEW o, NEW w, finishGame(r, o, w)
  PROVE  /\ \A q \in Rooms \ {r} : game'[q] = game[q] /\ completed'[q] = completed[q]
         /\ game'[r].status = "FINISHED"
         /\ game'[r].id = game[r].id /\ game'[r].player = game[r].player
         /\ game'[r].outcome = o /\ game'[r].winner = w
         /\ game'[r].firstTurn = game[r].firstTurn
         /\ game'[r].turn = game[r].turn
         /\ completed'[r] = completed[r] \cup {game[r].id}
<1> DEFINE g == [game[r] EXCEPT !.status = "FINISHED", !.outcome = o, !.winner = w]
<1>1. game[r] \in StartedGames
  BY ActiveIsStarted
<1>2. /\ g.status = "FINISHED" /\ g.outcome = o /\ g.winner = w
      /\ g.id = game[r].id /\ g.player = game[r].player
      /\ g.firstTurn = game[r].firstTurn /\ g.turn = game[r].turn
  BY <1>1 DEF StartedGames
<1>3. game' = [game EXCEPT ![r] = g]
  BY DEF finishGame
<1>4. completed' = [completed EXCEPT ![r] = @ \cup {game[r].id}]
  BY DEF finishGame
<1>5. game'[r] = g /\ completed'[r] = completed[r] \cup {game[r].id}
  BY <1>3, <1>4 DEF TypeOK
<1>6. \A q \in Rooms \ {r} : game'[q] = game[q] /\ completed'[q] = completed[q]
  BY <1>3, <1>4 DEF TypeOK
<1> HIDE DEF g
<1>7. QED
  BY <1>2, <1>5, <1>6 DEF g

\* What startGame does when both slots are taken; otherwise it does nothing.
LEMMA StartFacts ==
  ASSUME TypeOK, NEW r \in Rooms, NEW first, startGame(r, first)
  PROVE  /\ \A q \in Rooms \ {r} : game'[q] = game[q]
         /\ ~BothSeated(r) => game'[r] = game[r]
         /\ BothSeated(r) =>
              /\ game'[r].id = game[r].id + 1
              /\ game'[r].status = "ACTIVE"
              /\ game'[r].player = seat[r]
              /\ game'[r].firstTurn = first
              /\ game'[r].turn = first
              /\ game'[r].outcome = NoSymbol /\ game'[r].winner = NoSymbol
BY DEF startGame, TypeOK

\* handleForfeit and handleAbandon leave no game in progress.
LEMMA EndFacts ==
  ASSUME TypeOK, NEW r \in Rooms, NEW p \in Players, NEW o, endIfActive(r, p, o)
  PROVE  /\ \A q \in Rooms \ {r} : game'[q] = game[q] /\ completed'[q] = completed[q]
         /\ game'[r].status # "ACTIVE"
         /\ game'[r].id = game[r].id
         /\ ~Active(r) => game'[r] = game[r] /\ completed'[r] = completed[r]
         /\ Active(r) => /\ game'[r].status = "FINISHED"
                         /\ game'[r].outcome = o
                         /\ game'[r].winner = winnerWithout(r, p)
                         /\ completed'[r] = completed[r] \cup {game[r].id}
<1>1. CASE Active(r)
  <2> DEFINE w == winnerWithout(r, p)
  <2>1. finishGame(r, o, w)
    BY <1>1 DEF endIfActive
  <2> HIDE DEF w
  <2>2. /\ \A q \in Rooms \ {r} : game'[q] = game[q] /\ completed'[q] = completed[q]
        /\ game'[r].status = "FINISHED"
        /\ game'[r].id = game[r].id
        /\ game'[r].outcome = o /\ game'[r].winner = w
        /\ completed'[r] = completed[r] \cup {game[r].id}
    BY <1>1, <2>1, FinishFacts
  <2>3. QED
    BY <1>1, <2>2 DEF w
<1>2. CASE ~Active(r)
  BY <1>2 DEF endIfActive, Active
<1>3. QED
  BY <1>1, <1>2

\* removePlayer frees one slot, with all that was said of it.
LEMMA RemoveFacts ==
  ASSUME TypeOK, NEW r \in Rooms, NEW p \in Players, removePlayer(r, p)
  PROVE  /\ \A q \in Rooms \ {r} : /\ seat'[q] = seat[q]
                                   /\ connected'[q] = connected[q]
                                   /\ ready'[q] = ready[q]
         /\ \A t \in Symbols :
              seat'[r][t] = IF t = getSymbolForPlayer(r, p) THEN NoPlayer ELSE seat[r][t]
         /\ connected'[r] = connected[r] \ {getSymbolForPlayer(r, p)}
         /\ ready'[r] = ready[r] \ {getSymbolForPlayer(r, p)}
BY DEF removePlayer, TypeOK

\* addPlayer takes one free slot.
LEMMA AddFacts ==
  ASSUME TypeOK, NEW r \in Rooms, NEW p \in Players, addPlayer(r, p)
  PROVE  /\ \A q \in Rooms \ {r} : seat'[q] = seat[q] /\ connected'[q] = connected[q]
         /\ ~BothSeated(r)
         /\ \E s \in Symbols :
              /\ seat[r][s] = NoPlayer
              /\ seat'[r][s] = p
              /\ seat'[r][opponent(s)] = seat[r][opponent(s)]
              /\ connected'[r] = connected[r] \cup {s}
<1>1. PICK s \in Symbols :
        /\ seat[r][s] = NoPlayer
        /\ seat' = [seat EXCEPT ![r][s] = p]
        /\ connected' = [connected EXCEPT ![r] = @ \cup {s}]
  BY DEF addPlayer
<1>2. s # opponent(s) /\ opponent(s) \in Symbols
  BY DEF opponent, Symbols
<1>3. QED
  BY <1>1, <1>2 DEF TypeOK, BothSeated

-----------------------------------------------------------------------------
\* Type correctness.

LEMMA TypeInit == Init => TypeOK
BY DEF Init, TypeOK, NoRematch, Proposals

\* Every handler and timer callback keeps the types.
LEMMA TypeStep == TypeOK /\ [Next]_vars => TypeOK'
<1> SUFFICES ASSUME TypeOK, [Next]_vars PROVE TypeOK'
  OBVIOUS
<1> USE DEF TypeOK
<1>1. ASSUME NEW p \in Players, handleAuth(p) PROVE TypeOK'
  BY <1>1 DEF handleAuth
<1>2. ASSUME NEW p \in Players, handleDisconnect(p) PROVE TypeOK'
  <2>1. CASE sessionRoom[p] = NoRoom \/ sessionRoom[p] \in purged
    BY <1>2, <2>1 DEF handleDisconnect
  <2>2. CASE sessionRoom[p] \in Rooms \ purged
    <3>0. setConnected(sessionRoom[p], p, FALSE)
      BY <1>2, <2>2 DEF handleDisconnect
    <3>1. connected' \in [Rooms -> SUBSET Symbols]
      BY <2>2, <3>0, SetConnectedType
    <3>2. window' \in [Rooms -> SUBSET Players]
      <4>1. \E r \in Rooms : window' \in {window, [window EXCEPT ![r] = @ \cup {p}]}
        BY <1>2, <2>2 DEF handleDisconnect
      <4>2. QED
        BY <4>1
    <3>3. QED
      BY <1>2, <3>1, <3>2 DEF handleDisconnect
  <2>3. QED
    BY <2>1, <2>2
<1>3. ASSUME NEW p \in Players, NEW r \in Rooms, handleJoinRoom(p, r) PROVE TypeOK'
  BY <1>3 DEF handleJoinRoom, addPlayer, Symbols
<1>4. ASSUME NEW p \in Players, NEW r \in Rooms, handleLeaveRoom(p, r) PROVE TypeOK'
  BY <1>4, EndType DEF handleLeaveRoom, removePlayer, Outcomes, GameStates
<1>5. ASSUME NEW p \in Players, NEW r \in Rooms, handlePlayerReady(p, r) PROVE TypeOK'
  <2>1. game' \in [Rooms -> GameStates]
    BY <1>5, StartType DEF handlePlayerReady, Symbols, GameStates
  <2>2. QED
    BY <1>5, <2>1 DEF handlePlayerReady, Seated, getSymbolForPlayer, Symbols, GameStates
<1>6. ASSUME NEW p \in Players, NEW r \in Rooms, handleMakeMove(p, r) PROVE TypeOK'
  <2>1. Active(r) /\ game[r] \in StartedGames
    BY <1>6, ActiveIsStarted DEF handleMakeMove
  <2>2. game[r].turn \in Symbols
    BY <2>1 DEF StartedGames
  <2>3. CASE finishGame(r, "WIN", game[r].turn) \/ finishGame(r, "DRAW", NoSymbol)
    BY <1>6, <2>1, <2>2, <2>3, FinishType DEF handleMakeMove, Outcomes, GameStates
  <2>4. CASE game' = [game EXCEPT ![r].turn = opponent(game[r].turn)]
             /\ UNCHANGED completed
    <3>1. [game[r] EXCEPT !.turn = opponent(game[r].turn)] \in StartedGames
      BY <2>1, <2>2 DEF StartedGames, opponent, Symbols
    <3>2. QED
      BY <1>6, <2>4, <3>1 DEF handleMakeMove
  <2>5. QED
    BY <1>6, <2>3, <2>4 DEF handleMakeMove
<1>7. ASSUME NEW p \in Players, NEW r \in Rooms, handleRequestRematch(p, r) PROVE TypeOK'
  <2>1. game[r].id \in 1..MaxGames
    BY <1>7, ActiveIsStarted DEF handleRequestRematch, StartedGames
  <2> DEFINE accepted == [NoRematch.acceptedBy EXCEPT ![getSymbolForPlayer(r, p)] = p]
  <2>2. accepted \in [Symbols -> Players \cup {NoPlayer}]
    BY DEF NoRematch
  <2>3. [gameId |-> game[r].id, acceptedBy |-> accepted] \in Proposals
    BY <2>1, <2>2 DEF Proposals
  <2>4. QED
    BY <1>7, <2>3 DEF handleRequestRematch
<1>8. ASSUME NEW p \in Players, NEW r \in Rooms, handleAcceptRematch(p, r) PROVE TypeOK'
  <2> DEFINE accepted == [rematch[r].acceptedBy EXCEPT ![getSymbolForPlayer(r, p)] = p]
  <2>1. game[r].firstTurn \in Symbols
    BY <1>8, ActiveIsStarted DEF handleAcceptRematch, StartedGames
  <2>2. game' \in [Rooms -> GameStates]
    BY <1>8, <2>1, StartType DEF handleAcceptRematch, opponent, Symbols, GameStates
  <2>3. rematch[r] \in Proposals /\ accepted \in [Symbols -> Players \cup {NoPlayer}]
    BY DEF Proposals
  <2>4. [rematch[r] EXCEPT !.acceptedBy = accepted] \in Proposals
    BY <2>3 DEF Proposals
  <2>5. NoRematch \in Proposals
    BY DEF NoRematch, Proposals
  <2>6. rematch' \in [Rooms -> Proposals]
    BY <1>8, <2>4, <2>5 DEF handleAcceptRematch
  <2>7. QED
    BY <1>8, <2>2, <2>6 DEF handleAcceptRematch, GameStates
<1>9. ASSUME NEW p \in Players, NEW r \in Rooms, handleDeclineRematch(p, r) PROVE TypeOK'
  BY <1>9 DEF handleDeclineRematch, NoRematch, Proposals
<1>10. ASSUME NEW p \in Players, NEW r \in Rooms, handleReconnect(p, r) PROVE TypeOK'
  BY <1>10, SetConnectedType DEF handleReconnect
<1>11. ASSUME NEW r \in Rooms, expireRematch(r) PROVE TypeOK'
  BY <1>11 DEF expireRematch, NoRematch, Proposals
<1>12. ASSUME NEW p \in Players, NEW r \in Rooms, expireReconnectWindow(p, r)
       PROVE  TypeOK'
  BY <1>12, EndType DEF expireReconnectWindow, removePlayer, Outcomes, GameStates
<1>13. ASSUME NEW p \in Players, closeUnnoticed(p) PROVE TypeOK'
  BY <1>13 DEF closeUnnoticed
<1>14. CASE UNCHANGED vars
  BY <1>14 DEF vars
<1>15. ASSUME NEW r \in Rooms, purgeRoom(r) PROVE TypeOK'
  BY <1>15 DEF purgeRoom
<1>16. QED
  BY <1>1, <1>2, <1>3, <1>4, <1>5, <1>6, <1>7, <1>8, <1>9, <1>10, <1>11, <1>12,
     <1>13, <1>14, <1>15 DEF Next

\* The types of the variables hold in every reachable state.
THEOREM TypeCorrect == Spec => []TypeOK
BY TypeInit, TypeStep, PTL DEF Spec

-----------------------------------------------------------------------------
(***************************************************************************)
(* The inductive invariant.  A handler reads the room twice, once by the   *)
(* slots and once by the game's player ids, so the invariants only hold    *)
(* together: LEAVE_ROOM keeps ActiveGameSeated because it ends the game    *)
(* before it frees the slot, and a proposal's game is in the history only  *)
(* because a finished game always is.                                      *)
(***************************************************************************)
NoEarlyOutcome ==
  \A r \in Rooms : Active(r) => game[r].outcome = NoSymbol /\ game[r].winner = NoSymbol

\* A room that was deleted has no slots, and no window runs for it.
PurgedIsEmpty ==
  \A r \in purged : window[r] = {} /\ \A s \in Symbols : seat[r][s] = NoPlayer

IInv ==
  /\ TypeOK
  /\ NoEarlyOutcome
  /\ PurgedIsEmpty
  /\ ActiveGameSeated
  /\ OneSeatPerRoom
  /\ FreeSlotsAreClean
  /\ SessionRoomSeated
  /\ HistoryIsOfFinishedGames
  /\ ProposalWaitsForOneSlot

\* In the first state nobody is anywhere.
LEMMA InvInit == Init => IInv
<1> SUFFICES ASSUME Init PROVE IInv
  OBVIOUS
<1>1. TypeOK /\ NoEarlyOutcome /\ PurgedIsEmpty
  BY TypeInit DEF Init, NoGame, NoEarlyOutcome, PurgedIsEmpty
<1>2. ActiveGameSeated /\ OneSeatPerRoom /\ FreeSlotsAreClean
  BY DEF Init, ActiveGameSeated, OneSeatPerRoom, FreeSlotsAreClean, Active,
         NoGame, BothSeated, Symbols
<1>3. SessionRoomSeated /\ HistoryIsOfFinishedGames /\ ProposalWaitsForOneSlot
  BY DEF Init, SessionRoomSeated, HistoryIsOfFinishedGames, Finished, NoGame,
         ProposalWaitsForOneSlot
<1>4. QED
  BY <1>1, <1>2, <1>3 DEF IInv

\* What purgeRoom leaves of a room, and that it does nothing else.
LEMMA PurgeFacts ==
  ASSUME TypeOK, NEW r \in Rooms, purgeRoom(r)
  PROVE  /\ \A q \in Rooms \ {r} : /\ seat'[q] = seat[q]
                                   /\ connected'[q] = connected[q]
                                   /\ ready'[q] = ready[q]
         /\ \A s \in Symbols : seat'[r][s] = NoPlayer
         /\ connected'[r] = {} /\ ready'[r] = {}
BY DEF purgeRoom, TypeOK

\* Nobody is seated in a room that was deleted, or joins it.
LEMMA PurgedStep == IInv /\ [Next]_vars => PurgedIsEmpty'
<1> SUFFICES ASSUME IInv, [Next]_vars PROVE PurgedIsEmpty'
  OBVIOUS
<1>0. TypeOK /\ PurgedIsEmpty
  BY DEF IInv
<1>1. CASE UNCHANGED <<seat, window, purged>>
  BY <1>0, <1>1 DEF PurgedIsEmpty
<1>2. ASSUME NEW p \in Players, handleDisconnect(p) PROVE PurgedIsEmpty'
  <2>1. UNCHANGED <<seat, purged>>
    BY <1>2 DEF handleDisconnect
  <2>2. \A r \in purged : window'[r] = window[r]
    BY <1>0, <1>2 DEF handleDisconnect, TypeOK
  <2>3. QED
    BY <1>0, <2>1, <2>2 DEF PurgedIsEmpty
<1>3. ASSUME NEW p \in Players, NEW r \in Rooms, handleJoinRoom(p, r)
      PROVE  PurgedIsEmpty'
  <2>1. /\ r \notin purged /\ UNCHANGED <<window, purged>>
        /\ \A q \in Rooms \ {r} : seat'[q] = seat[q]
    BY <1>0, <1>3, AddFacts DEF handleJoinRoom
  <2>2. QED
    BY <1>0, <2>1 DEF PurgedIsEmpty, TypeOK
<1>4. ASSUME NEW p \in Players, NEW r \in Rooms, removePlayer(r, p), UNCHANGED purged,
             \A q \in Rooms : window'[q] \subseteq window[q]
      PROVE  PurgedIsEmpty'
  <2>1. \A q \in Rooms, s \in Symbols : seat'[q][s] \in {seat[q][s], NoPlayer}
    BY <1>0, <1>4, RemoveFacts
  <2>2. QED
    BY <1>0, <1>4, <2>1 DEF PurgedIsEmpty, TypeOK
<1>5. ASSUME NEW p \in Players, NEW r \in Rooms, handleReconnect(p, r)
      PROVE  PurgedIsEmpty'
  BY <1>0, <1>5 DEF handleReconnect, PurgedIsEmpty, TypeOK
<1>6. ASSUME NEW p \in Players, NEW r \in Rooms, expireReconnectWindow(p, r)
      PROVE  PurgedIsEmpty'
  <2>1. \A q \in Rooms : window'[q] \subseteq window[q]
    BY <1>0, <1>6 DEF expireReconnectWindow, TypeOK
  <2>2. QED
    BY <1>4, <1>6, <2>1 DEF expireReconnectWindow
<1>7. ASSUME NEW p \in Players, NEW r \in Rooms, handleLeaveRoom(p, r)
      PROVE  PurgedIsEmpty'
  BY <1>4, <1>7 DEF handleLeaveRoom
<1>8. ASSUME NEW r \in Rooms, purgeRoom(r) PROVE PurgedIsEmpty'
  <2>1. window' = window /\ window[r] = {} /\ purged' = purged \cup {r}
    BY <1>8 DEF purgeRoom
  <2>2. QED
    BY <1>0, <1>8, <2>1, PurgeFacts DEF PurgedIsEmpty, TypeOK
<1>9. QED
  BY <1>1, <1>2, <1>3, <1>5, <1>6, <1>7, <1>8 DEF Next, vars, handleAuth, closeUnnoticed,
     handlePlayerReady, handleMakeMove, handleRequestRematch, handleAcceptRematch,
     handleDeclineRematch, expireRematch

\* Only JOIN_ROOM, LEAVE_ROOM, the reconnect window and the purge write the slots.
LEMMA SeatStep == IInv /\ [Next]_vars => OneSeatPerRoom'
<1> SUFFICES ASSUME IInv, [Next]_vars PROVE OneSeatPerRoom'
  OBVIOUS
<1>1. CASE UNCHANGED seat
  BY <1>1 DEF IInv, OneSeatPerRoom, BothSeated
<1>2. ASSUME NEW p \in Players, NEW r \in Rooms, handleJoinRoom(p, r)
      PROVE  OneSeatPerRoom'
  <2>1. ~Seated(p, r) /\ addPlayer(r, p)
    BY <1>2 DEF handleJoinRoom
  <2>2. seat[r]["X"] # p /\ seat[r]["O"] # p
    BY <2>1 DEF Seated, getSymbolForPlayer, NoSymbol
  <2>3. seat'[r]["X"] # seat'[r]["O"]
    BY <2>1, <2>2, AddFacts DEF IInv, opponent, Symbols
  <2>4. \A q \in Rooms \ {r} : seat'[q] = seat[q]
    BY <2>1, AddFacts DEF IInv
  <2>5. QED
    BY <2>3, <2>4 DEF IInv, OneSeatPerRoom, BothSeated
<1>3. ASSUME NEW p \in Players, NEW r \in Rooms, removePlayer(r, p)
      PROVE  OneSeatPerRoom'
  BY <1>3, RemoveFacts DEF IInv, OneSeatPerRoom, BothSeated, Symbols
<1>4. ASSUME NEW r \in Rooms, purgeRoom(r) PROVE OneSeatPerRoom'
  BY <1>4, PurgeFacts DEF IInv, OneSeatPerRoom, BothSeated, Symbols
<1>5. QED
  BY <1>1, <1>2, <1>3, <1>4 DEF Next, vars, handleAuth, closeUnnoticed, handleDisconnect, handleLeaveRoom,
     handlePlayerReady, handleMakeMove, handleRequestRematch, handleAcceptRematch,
     handleDeclineRematch, handleReconnect, expireRematch, expireReconnectWindow

\* A slot is taken only in a room without a game in progress, and freed only
\* once the game is over.
LEMMA ActiveStep == IInv /\ [Next]_vars => ActiveGameSeated'
<1> SUFFICES ASSUME IInv, [Next]_vars PROVE ActiveGameSeated'
  OBVIOUS
<1>0. TypeOK /\ ActiveGameSeated
  BY DEF IInv
<1>1. CASE UNCHANGED <<seat, game, purged>>
  BY <1>0, <1>1 DEF ActiveGameSeated, Active, BothSeated
<1>2. ASSUME NEW p \in Players, NEW r \in Rooms, addPlayer(r, p), r \notin purged,
             UNCHANGED <<game, purged>>
      PROVE  ActiveGameSeated'
  BY <1>0, <1>2, AddFacts DEF ActiveGameSeated, Active, BothSeated
<1>3. ASSUME NEW p \in Players, NEW r \in Rooms, NEW o,
             endIfActive(r, p, o), removePlayer(r, p), UNCHANGED purged
      PROVE  ActiveGameSeated'
  BY <1>0, <1>3, EndFacts, RemoveFacts DEF ActiveGameSeated, Active, BothSeated
<1>4. ASSUME NEW r \in Rooms, NEW first, startGame(r, first), UNCHANGED <<seat, purged>>
      PROVE  ActiveGameSeated'
  BY <1>0, <1>4, StartFacts DEF ActiveGameSeated, Active, BothSeated
<1>5. ASSUME NEW p \in Players, NEW r \in Rooms, handleMakeMove(p, r)
      PROVE  ActiveGameSeated'
  <2>1. Active(r) /\ UNCHANGED <<seat, purged>>
    BY <1>5 DEF handleMakeMove
  <2>2. game'[r].player = game[r].player /\ \A q \in Rooms \ {r} : game'[q] = game[q]
    <3>1. CASE game' = [game EXCEPT ![r].turn = opponent(game[r].turn)]
      <4>1. game[r] \in StartedGames
        BY <1>0, <2>1, ActiveIsStarted
      <4>2. QED
        BY <1>0, <3>1, <4>1 DEF TypeOK, StartedGames
    <3>2. ASSUME NEW o, NEW w, finishGame(r, o, w)
          PROVE  game'[r].player = game[r].player
                 /\ \A q \in Rooms \ {r} : game'[q] = game[q]
      BY <1>0, <2>1, <3>2, FinishFacts
    <3>3. QED
      BY <1>5, <3>1, <3>2 DEF handleMakeMove
  <2>3. QED
    BY <1>0, <1>5, <2>1, <2>2 DEF ActiveGameSeated, Active, BothSeated, handleMakeMove
<1>6. ASSUME NEW r \in Rooms, purgeRoom(r) PROVE ActiveGameSeated'
  <2>1. UNCHANGED game /\ purged' = purged \cup {r}
    BY <1>6 DEF purgeRoom
  <2>2. QED
    BY <1>0, <1>6, <2>1, PurgeFacts DEF ActiveGameSeated, Active, BothSeated
<1>7. QED
  BY <1>1, <1>2, <1>3, <1>4, <1>5, <1>6 DEF Next, vars, handleAuth, closeUnnoticed, handleDisconnect,
     handleJoinRoom, handleLeaveRoom, handlePlayerReady, handleRequestRematch,
     handleAcceptRematch, handleDeclineRematch, handleReconnect, expireRematch,
     expireReconnectWindow

\* The symbol setConnected names is that of a slot the player occupies.
LEMMA SymbolFacts ==
  ASSUME TypeOK, NEW r \in Rooms, NEW p \in Players
  PROVE  LET s == getSymbolForPlayer(r, p) IN
         /\ s \in Symbols \cup {NoSymbol}
         /\ Seated(p, r) => s \in Symbols /\ seat[r][s] = p
         /\ ~Seated(p, r) => \A t \in Symbols : seat[r][t] # p
BY DEF getSymbolForPlayer, Seated, Symbols, NoSymbol

\* A slot is cleaned as it is freed, and only occupied slots become ready or
\* connected.
LEMMA CleanStep == IInv /\ [Next]_vars => FreeSlotsAreClean'
<1> SUFFICES ASSUME IInv, [Next]_vars PROVE FreeSlotsAreClean'
  OBVIOUS
<1>0. TypeOK /\ FreeSlotsAreClean
  BY DEF IInv
<1>1. CASE UNCHANGED <<seat, connected, ready>>
  BY <1>0, <1>1 DEF FreeSlotsAreClean, Occupied
<1>2. ASSUME NEW p \in Players, NEW r \in Rooms, setConnected(r, p, FALSE),
             UNCHANGED <<seat, ready>>
      PROVE  FreeSlotsAreClean'
  <2>1. /\ connected'[r] \subseteq connected[r]
        /\ \A q \in Rooms \ {r} : connected'[q] = connected[q]
    BY <1>0, <1>2 DEF setConnected, TypeOK
  <2>2. QED
    BY <1>0, <1>2, <2>1 DEF FreeSlotsAreClean, Occupied
<1>3. ASSUME NEW p \in Players, NEW r \in Rooms, addPlayer(r, p), UNCHANGED ready
      PROVE  FreeSlotsAreClean'
  <2>1. /\ \A q \in Rooms \ {r} : Occupied(q)' = Occupied(q) /\ connected'[q] = connected[q]
    BY <1>0, <1>3, AddFacts DEF Occupied
  <2>2. PICK s \in Symbols : /\ seat[r][s] = NoPlayer
                             /\ seat'[r][s] = p
                             /\ seat'[r][opponent(s)] = seat[r][opponent(s)]
                             /\ connected'[r] = connected[r] \cup {s}
    BY <1>0, <1>3, AddFacts
  <2>3. Occupied(r)' = Occupied(r) \cup {s}
    BY <1>0, <2>2 DEF Occupied, Symbols, opponent, TypeOK
  <2>4. QED
    BY <1>0, <1>3, <2>1, <2>2, <2>3 DEF FreeSlotsAreClean
<1>4. ASSUME NEW p \in Players, NEW r \in Rooms, removePlayer(r, p)
      PROVE  FreeSlotsAreClean'
  <2> DEFINE s == getSymbolForPlayer(r, p)
  <2>1. Occupied(r)' = Occupied(r) \ {s}
    BY <1>0, <1>4, RemoveFacts DEF Occupied
  <2>2. \A q \in Rooms \ {r} : /\ Occupied(q)' = Occupied(q)
                                /\ connected'[q] = connected[q] /\ ready'[q] = ready[q]
    BY <1>0, <1>4, RemoveFacts DEF Occupied
  <2>3. connected'[r] = connected[r] \ {s} /\ ready'[r] = ready[r] \ {s}
    BY <1>0, <1>4, RemoveFacts
  <2> HIDE DEF s
  <2>4. ready[r] \subseteq Symbols /\ ready[r] # Symbols
    BY <1>0 DEF TypeOK, FreeSlotsAreClean
  <2>5. QED
    BY <1>0, <2>1, <2>2, <2>3, <2>4 DEF FreeSlotsAreClean
<1>5. ASSUME NEW p \in Players, NEW r \in Rooms, handlePlayerReady(p, r)
      PROVE  FreeSlotsAreClean'
  <2>1. getSymbolForPlayer(r, p) \in Occupied(r)
    BY <1>0, <1>5, SymbolFacts DEF handlePlayerReady, Occupied
  <2> DEFINE s == getSymbolForPlayer(r, p)
  <2>2. /\ ready' = [ready EXCEPT ![r] = IF ready[r] \cup {s} = Symbols THEN {}
                                         ELSE ready[r] \cup {s}]
        /\ UNCHANGED <<seat, connected>>
    BY <1>5 DEF handlePlayerReady
  <2> HIDE DEF s
  <2>3. ready'[r] \subseteq ready[r] \cup {s} /\ ready'[r] # Symbols
    BY <1>0, <2>2 DEF TypeOK, Symbols
  <2>4. \A q \in Rooms \ {r} : ready'[q] = ready[q]
    BY <1>0, <2>2 DEF TypeOK
  <2>5. QED
    BY <1>0, <2>1, <2>2, <2>3, <2>4 DEF FreeSlotsAreClean, Occupied, s
<1>6. ASSUME NEW p \in Players, NEW r \in Rooms, handleAcceptRematch(p, r)
      PROVE  FreeSlotsAreClean'
  <2>1. ready' \in {ready, [ready EXCEPT ![r] = {}]} /\ UNCHANGED <<seat, connected>>
    BY <1>6 DEF handleAcceptRematch
  <2>2. \A q \in Rooms : ready'[q] \in {ready[q], {}}
    BY <1>0, <2>1 DEF TypeOK
  <2>3. QED
    BY <1>0, <2>1, <2>2 DEF FreeSlotsAreClean, Occupied, Symbols
<1>7. ASSUME NEW p \in Players, NEW r \in Rooms, handleReconnect(p, r)
      PROVE  FreeSlotsAreClean'
  <2>1. getSymbolForPlayer(r, p) \in Occupied(r)
    BY <1>0, <1>7, SymbolFacts DEF handleReconnect, Occupied
  <2>2. connected' = [connected EXCEPT ![r] = @ \cup ({getSymbolForPlayer(r, p)} \cap Symbols)]
        /\ UNCHANGED <<seat, ready>>
    BY <1>7 DEF handleReconnect, setConnected
  <2>3. QED
    BY <1>0, <2>1, <2>2 DEF FreeSlotsAreClean, Occupied, TypeOK
<1>8. ASSUME NEW p \in Players, handleDisconnect(p) PROVE FreeSlotsAreClean'
  <2>1. CASE sessionRoom[p] = NoRoom \/ sessionRoom[p] \in purged
    BY <1>1, <1>8, <2>1 DEF handleDisconnect
  <2>2. CASE sessionRoom[p] \in Rooms \ purged
    BY <1>2, <1>8, <2>2 DEF handleDisconnect
  <2>3. QED
    BY <1>0, <2>1, <2>2 DEF TypeOK
<1>9. ASSUME NEW r \in Rooms, purgeRoom(r) PROVE FreeSlotsAreClean'
  BY <1>0, <1>9, PurgeFacts DEF FreeSlotsAreClean, Occupied, Symbols
<1>10. QED
  BY <1>1, <1>3, <1>4, <1>5, <1>6, <1>7, <1>8, <1>9 DEF Next, vars, handleAuth, closeUnnoticed,
     handleJoinRoom, handleLeaveRoom, handleMakeMove, handleRequestRematch,
     handleDeclineRematch, expireRematch, expireReconnectWindow

\* Whoever frees a slot clears the association of the same player; only the
\* purge leaves it behind.
LEMMA SessionStep == IInv /\ [Next]_vars => SessionRoomSeated'
<1> SUFFICES ASSUME IInv, [Next]_vars PROVE SessionRoomSeated'
  OBVIOUS
<1>0. TypeOK /\ SessionRoomSeated
  BY DEF IInv
<1>1. CASE UNCHANGED <<sessionRoom, seat, purged>>
  BY <1>0, <1>1 DEF SessionRoomSeated, Seated, getSymbolForPlayer
<1>2. ASSUME NEW p \in Players, handleAuth(p) PROVE SessionRoomSeated'
  <2>1. /\ UNCHANGED <<seat, purged>>
        /\ \A q \in Players : sessionRoom'[q] \in {sessionRoom[q], NoRoom}
    BY <1>0, <1>2 DEF handleAuth, TypeOK
  <2>2. QED
    BY <1>0, <2>1 DEF SessionRoomSeated, Seated, getSymbolForPlayer
<1>3. ASSUME NEW p \in Players, NEW r \in Rooms, handleJoinRoom(p, r)
      PROVE  SessionRoomSeated'
  <2>1. /\ addPlayer(r, p) /\ sessionRoom' = [sessionRoom EXCEPT ![p] = r]
        /\ UNCHANGED purged
    BY <1>3 DEF handleJoinRoom
  <2>2. PICK s \in Symbols : /\ seat[r][s] = NoPlayer
                             /\ seat'[r][s] = p
                             /\ seat'[r][opponent(s)] = seat[r][opponent(s)]
    BY <1>0, <2>1, AddFacts
  <2>3. \A q \in Rooms \ {r} : seat'[q] = seat[q]
    BY <1>0, <2>1, AddFacts
  <2>4. Seated(p, r)'
    BY <2>2 DEF Seated, getSymbolForPlayer, Symbols, NoSymbol
  <2>5. ASSUME NEW q \in Players, NEW z \in Rooms, Seated(q, z) PROVE Seated(q, z)'
    BY <1>0, <2>2, <2>3, <2>5
    DEF Seated, getSymbolForPlayer, Symbols, NoSymbol, opponent, TypeOK
  <2>6. QED
    BY <1>0, <2>1, <2>4, <2>5 DEF SessionRoomSeated, TypeOK
<1>4. ASSUME NEW p \in Players, NEW r \in Rooms, removePlayer(r, p),
             sessionRoom' = [sessionRoom EXCEPT ![p] = NoRoom], UNCHANGED purged
      PROVE  SessionRoomSeated'
  <2>1. ASSUME NEW q \in Players \ {p}, NEW z \in Rooms, Seated(q, z)
        PROVE  Seated(q, z)'
    <3>1. PICK t \in Symbols : seat[z][t] = q
      BY <1>0, <2>1, SymbolFacts
    <3>2. seat'[z][t] = q
      BY <1>0, <1>4, <3>1, RemoveFacts, SymbolFacts DEF Seated, NoSymbol, Symbols
    <3>3. QED
      BY <3>2 DEF Seated, getSymbolForPlayer, Symbols, NoSymbol
  <2>2. QED
    BY <1>0, <1>4, <2>1 DEF SessionRoomSeated, TypeOK
<1>5. ASSUME NEW p \in Players, NEW r \in Rooms, handleReconnect(p, r)
      PROVE  SessionRoomSeated'
  BY <1>0, <1>5
  DEF handleReconnect, SessionRoomSeated, Seated, getSymbolForPlayer, TypeOK
<1>6. ASSUME NEW r \in Rooms, purgeRoom(r) PROVE SessionRoomSeated'
  <2>1. UNCHANGED sessionRoom /\ purged' = purged \cup {r}
    BY <1>6 DEF purgeRoom
  <2>2. \A q \in Rooms \ {r} : seat'[q] = seat[q]
    BY <1>0, <1>6, PurgeFacts
  <2>3. QED
    BY <1>0, <2>1, <2>2 DEF SessionRoomSeated, Seated, getSymbolForPlayer, TypeOK
<1>7. QED
  BY <1>1, <1>2, <1>3, <1>4, <1>5, <1>6 DEF Next, vars, closeUnnoticed, handleDisconnect, handleLeaveRoom,
     handlePlayerReady, handleMakeMove, handleRequestRematch, handleAcceptRematch,
     handleDeclineRematch, expireRematch, expireReconnectWindow

\* A move that does not end the game changes only whose turn it is.
LEMMA TurnFacts ==
  ASSUME TypeOK, NEW r \in Rooms, Active(r), NEW s,
         game' = [game EXCEPT ![r].turn = s]
  PROVE  /\ \A q \in Rooms \ {r} : game'[q] = game[q]
         /\ game'[r].id = game[r].id /\ game'[r].status = game[r].status
         /\ game'[r].player = game[r].player
         /\ game'[r].firstTurn = game[r].firstTurn
         /\ game'[r].outcome = game[r].outcome /\ game'[r].winner = game[r].winner
         /\ game'[r].turn = s
<1>1. game[r] \in StartedGames
  BY ActiveIsStarted
<1>2. QED
  BY <1>1 DEF TypeOK, StartedGames

\* The number of a game is a number.
LEMMA IdFacts ==
  ASSUME TypeOK, NEW r \in Rooms
  PROVE  game[r].id \in 0..MaxGames /\ game[r].id \in Nat
BY DEF TypeOK, NoGame, StartedGames

\* emitGameFinished is the only writer of the history and is reached exactly
\* when a game ends.
LEMMA HistoryStep == IInv /\ [Next]_vars => HistoryIsOfFinishedGames'
<1> SUFFICES ASSUME IInv, [Next]_vars PROVE HistoryIsOfFinishedGames'
  OBVIOUS
<1>0. TypeOK /\ HistoryIsOfFinishedGames
  BY DEF IInv
<1>1. CASE UNCHANGED <<game, completed>>
  BY <1>0, <1>1 DEF HistoryIsOfFinishedGames, Finished
<1>2. ASSUME NEW r \in Rooms, Active(r), NEW o, NEW w, finishGame(r, o, w)
      PROVE  HistoryIsOfFinishedGames'
  <2>1. /\ \A q \in Rooms \ {r} : game'[q] = game[q] /\ completed'[q] = completed[q]
        /\ game'[r].status = "FINISHED" /\ game'[r].id = game[r].id
        /\ completed'[r] = completed[r] \cup {game[r].id}
    BY <1>0, <1>2, FinishFacts
  <2>2. game[r].id \in 1..game[r].id
    BY <1>0, <1>2, ActiveIsStarted DEF StartedGames
  <2>3. QED
    BY <1>0, <2>1, <2>2 DEF HistoryIsOfFinishedGames, Finished
<1>3. ASSUME NEW p \in Players, NEW r \in Rooms, NEW o, endIfActive(r, p, o)
      PROVE  HistoryIsOfFinishedGames'
  BY <1>1, <1>2, <1>3 DEF endIfActive
<1>4. ASSUME NEW r \in Rooms, NEW first, startGame(r, first), UNCHANGED completed
      PROVE  HistoryIsOfFinishedGames'
  <2>1. CASE ~BothSeated(r)
    BY <1>1, <1>4, <2>1 DEF startGame
  <2>2. CASE BothSeated(r)
    <3>1. /\ \A q \in Rooms \ {r} : game'[q] = game[q]
          /\ game'[r].id = game[r].id + 1 /\ game'[r].status = "ACTIVE"
      BY <1>0, <1>4, <2>2, StartFacts
    <3>2. completed[r] \subseteq 1..game[r].id
      BY <1>0 DEF HistoryIsOfFinishedGames
    <3>3. /\ game[r].id \in Nat
          /\ completed[r] \subseteq 1..(game[r].id + 1)
          /\ game[r].id + 1 \notin completed[r]
      BY <1>0, <3>2, IdFacts
    <3>4. QED
      BY <1>0, <1>4, <3>1, <3>3 DEF HistoryIsOfFinishedGames, Finished
  <2>3. QED
    BY <2>1, <2>2
<1>5. ASSUME NEW p \in Players, NEW r \in Rooms, handleMakeMove(p, r)
      PROVE  HistoryIsOfFinishedGames'
  <2>1. Active(r)
    BY <1>5 DEF handleMakeMove
  <2>2. CASE game' = [game EXCEPT ![r].turn = opponent(game[r].turn)]
             /\ UNCHANGED completed
    <3>1. \A q \in Rooms : game'[q].id = game[q].id /\ game'[q].status = game[q].status
      BY <1>0, <2>1, <2>2, TurnFacts
    <3>2. QED
      BY <1>0, <2>2, <3>1 DEF HistoryIsOfFinishedGames, Finished
  <2>3. QED
    BY <1>2, <1>5, <2>1, <2>2 DEF handleMakeMove
<1>6. QED
  BY <1>1, <1>3, <1>4, <1>5 DEF Next, vars, handleAuth, closeUnnoticed, handleDisconnect,
     handleJoinRoom, handleLeaveRoom, handlePlayerReady, handleRequestRematch,
     handleAcceptRematch, handleDeclineRematch, handleReconnect, purgeRoom, expireRematch,
     expireReconnectWindow

\* A game has no outcome before it is over.
LEMMA OutcomeStep == IInv /\ [Next]_vars => NoEarlyOutcome'
<1> SUFFICES ASSUME IInv, [Next]_vars PROVE NoEarlyOutcome'
  OBVIOUS
<1>0. TypeOK /\ NoEarlyOutcome
  BY DEF IInv
<1>1. CASE UNCHANGED game
  BY <1>0, <1>1 DEF NoEarlyOutcome, Active
<1>2. ASSUME NEW p \in Players, NEW r \in Rooms, NEW o, endIfActive(r, p, o)
      PROVE  NoEarlyOutcome'
  BY <1>0, <1>2, EndFacts DEF NoEarlyOutcome, Active
<1>3. ASSUME NEW r \in Rooms, NEW first, startGame(r, first) PROVE NoEarlyOutcome'
  <2>1. \A q \in Rooms : game'[q] = game[q] \/ (game'[q].outcome = NoSymbol /\ game'[q].winner = NoSymbol)
    BY <1>0, <1>3, StartFacts
  <2>2. QED
    BY <1>0, <2>1 DEF NoEarlyOutcome, Active
<1>4. ASSUME NEW p \in Players, NEW r \in Rooms, handleMakeMove(p, r)
      PROVE  NoEarlyOutcome'
  <2>1. Active(r)
    BY <1>4 DEF handleMakeMove
  <2>2. CASE game' = [game EXCEPT ![r].turn = opponent(game[r].turn)]
    BY <1>0, <2>1, <2>2, TurnFacts DEF NoEarlyOutcome, Active
  <2>3. ASSUME NEW o, NEW w, finishGame(r, o, w) PROVE NoEarlyOutcome'
    BY <1>0, <2>1, <2>3, FinishFacts DEF NoEarlyOutcome, Active
  <2>4. QED
    BY <1>4, <2>2, <2>3 DEF handleMakeMove
<1>5. QED
  BY <1>1, <1>2, <1>3, <1>4 DEF Next, vars, handleAuth, closeUnnoticed, handleDisconnect,
     handleJoinRoom, handleLeaveRoom, handlePlayerReady, handleRequestRematch,
     handleAcceptRematch, handleDeclineRematch, handleReconnect, purgeRoom, expireRematch,
     expireReconnectWindow

\* Nothing is ever taken out of a room's history.
LEMMA HistoryGrows ==
  IInv /\ [Next]_vars => \A r \in Rooms : completed[r] \subseteq completed'[r]
<1> SUFFICES ASSUME IInv, [Next]_vars
             PROVE  \A r \in Rooms : completed[r] \subseteq completed'[r]
  OBVIOUS
<1>0. TypeOK
  BY DEF IInv
<1>1. CASE UNCHANGED completed
  BY <1>1
<1>2. ASSUME NEW r \in Rooms, NEW o, NEW w, finishGame(r, o, w)
      PROVE  \A q \in Rooms : completed[q] \subseteq completed'[q]
  BY <1>0, <1>2 DEF finishGame, TypeOK
<1>3. ASSUME NEW p \in Players, NEW r \in Rooms, NEW o, endIfActive(r, p, o)
      PROVE  \A q \in Rooms : completed[q] \subseteq completed'[q]
  BY <1>1, <1>2, <1>3 DEF endIfActive
<1>4. QED
  BY <1>1, <1>2, <1>3 DEF Next, vars, handleAuth, closeUnnoticed, handleDisconnect,
     handleJoinRoom, handleLeaveRoom, handlePlayerReady, handleMakeMove,
     handleRequestRematch, handleAcceptRematch, handleDeclineRematch,
     handleReconnect, purgeRoom, expireRematch, expireReconnectWindow

\* A proposal is made with one acceptance and is gone at the second.
LEMMA ProposalStep == IInv /\ [Next]_vars => ProposalWaitsForOneSlot'
<1> SUFFICES ASSUME IInv, [Next]_vars PROVE ProposalWaitsForOneSlot'
  OBVIOUS
<1>0. TypeOK /\ ProposalWaitsForOneSlot
  BY DEF IInv
<1>1. \A r \in Rooms : completed[r] \subseteq completed'[r]
  BY HistoryGrows
<1>2. CASE UNCHANGED rematch
  BY <1>0, <1>1, <1>2 DEF ProposalWaitsForOneSlot
<1>3. ASSUME NEW r \in Rooms, rematch' = [rematch EXCEPT ![r] = NoRematch]
      PROVE  ProposalWaitsForOneSlot'
  BY <1>0, <1>1, <1>3 DEF ProposalWaitsForOneSlot, TypeOK
<1>4. ASSUME NEW p \in Players, NEW r \in Rooms, handleRequestRematch(p, r)
      PROVE  ProposalWaitsForOneSlot'
  <2> DEFINE s == getSymbolForPlayer(r, p)
             accepted == [NoRematch.acceptedBy EXCEPT ![s] = p]
  <2>1. s \in Symbols
    BY <1>0, <1>4, SymbolFacts DEF handleRequestRematch
  <2>2. rematch' = [rematch EXCEPT ![r] = [gameId |-> game[r].id, acceptedBy |-> accepted]]
    BY <1>4 DEF handleRequestRematch
  <2> HIDE DEF s
  <2>3. accepted[s] # NoPlayer /\ accepted[opponent(s)] = NoPlayer
    BY <2>1 DEF NoRematch, opponent, Symbols
  <2>4. game[r].id \in completed[r]
    BY <1>4 DEF handleRequestRematch, IInv, HistoryIsOfFinishedGames
  <2> HIDE DEF accepted
  <2>5. /\ rematch'[r].acceptedBy = accepted /\ rematch'[r].gameId = game[r].id
        /\ \A q \in Rooms \ {r} : rematch'[q] = rematch[q]
    BY <1>0, <2>2 DEF TypeOK
  <2>6. QED
    BY <1>0, <1>1, <2>1, <2>3, <2>4, <2>5 DEF ProposalWaitsForOneSlot
<1>5. ASSUME NEW p \in Players, NEW r \in Rooms, handleAcceptRematch(p, r)
      PROVE  ProposalWaitsForOneSlot'
  <2> DEFINE s == getSymbolForPlayer(r, p)
             accepted == [rematch[r].acceptedBy EXCEPT ![s] = p]
  <2>1. s \in Symbols
    BY <1>0, <1>5, SymbolFacts DEF handleAcceptRematch
  <2>2. CASE \A t \in Symbols : accepted[t] # NoPlayer
    BY <1>3, <1>5, <2>2 DEF handleAcceptRematch
  <2>3. CASE ~\A t \in Symbols : accepted[t] # NoPlayer
    <3>1. rematch' = [rematch EXCEPT ![r].acceptedBy = accepted] /\ rematch[r] # NoRematch
      BY <1>5, <2>3 DEF handleAcceptRematch
    <3> HIDE DEF s
    <3>2. rematch[r] \in Proposals
      BY <1>0 DEF TypeOK
    <3>3. accepted[s] # NoPlayer /\ accepted[opponent(s)] = NoPlayer
      BY <2>1, <2>3, <3>2 DEF Proposals, opponent, Symbols
    <3> HIDE DEF accepted
    <3>4. /\ rematch'[r].acceptedBy = accepted /\ rematch'[r].gameId = rematch[r].gameId
          /\ \A q \in Rooms \ {r} : rematch'[q] = rematch[q]
      BY <1>0, <3>1, <3>2 DEF TypeOK, Proposals
    <3>5. rematch[r].gameId \in completed[r]
      BY <1>0, <3>1 DEF ProposalWaitsForOneSlot
    <3>6. QED
      BY <1>0, <1>1, <2>1, <3>3, <3>4, <3>5 DEF ProposalWaitsForOneSlot
  <2>4. QED
    BY <2>2, <2>3
<1>6. QED
  BY <1>2, <1>3, <1>4, <1>5 DEF Next, vars, handleAuth, closeUnnoticed, handleDisconnect,
     handleJoinRoom, handleLeaveRoom, handlePlayerReady, handleMakeMove,
     handleDeclineRematch, handleReconnect, purgeRoom, expireRematch, expireReconnectWindow

\* The invariant holds in every reachable state.
THEOREM Invariant == Spec => []IInv
<1>1. IInv /\ [Next]_vars => IInv'
  BY TypeStep, OutcomeStep, PurgedStep, SeatStep, ActiveStep, CleanStep,
     SessionStep, HistoryStep, ProposalStep DEF IInv
<1>2. QED
  BY InvInit, <1>1, PTL DEF Spec

\* The players of a game in progress are the players seated in its room, each
\* under the same symbol: no sequence of joins, leaves, readies, rematches and
\* expiring windows lets the slots drift from the game.
THEOREM ActiveGameIsSeated == Spec => []ActiveGameSeated
BY Invariant, PTL DEF IInv

\* No player ever holds both slots of a room.
THEOREM NobodyPlaysAgainstThemself == Spec => []OneSeatPerRoom
BY Invariant, PTL DEF IInv

\* A session's room association never outlives the slot it stands for.
THEOREM AssociationMeansSlot == Spec => []SessionRoomSeated
BY Invariant, PTL DEF IInv

\* Every finished game is in the history, and no other game is.
THEOREM HistoryIsComplete == Spec => []HistoryIsOfFinishedGames
BY Invariant, PTL DEF IInv

\* A freed slot is neither ready nor connected.
THEOREM FreedSlotsAreClean == Spec => []FreeSlotsAreClean
BY Invariant, PTL DEF IInv

\* A pending rematch waits for one acceptance, of a game in the history.
THEOREM ProposalsWait == Spec => []ProposalWaitsForOneSlot
BY Invariant, PTL DEF IInv

-----------------------------------------------------------------------------
\* What a step may not do.

\* Only a game in progress ends, so a finished one is only ever replaced.
LEMMA VerdictStep ==
  ASSUME IInv, [Next]_vars, NEW r \in Rooms, Finished(r), game'[r] # game[r]
  PROVE  game'[r].id > game[r].id
<1>0. TypeOK /\ ~Active(r)
  BY DEF IInv, Finished, Active
<1>1. ASSUME NEW p \in Players, NEW q \in Rooms, NEW o, endIfActive(q, p, o)
      PROVE  FALSE
  BY <1>0, <1>1, EndFacts DEF Finished
<1>2. ASSUME NEW q \in Rooms, NEW first, startGame(q, first)
      PROVE  game'[r].id > game[r].id
  BY <1>0, <1>2, StartFacts, IdFacts
<1>3. ASSUME NEW p \in Players, NEW q \in Rooms, handleMakeMove(p, q) PROVE FALSE
  <2>1. Active(q) /\ q # r
    BY <1>0, <1>3 DEF handleMakeMove
  <2>2. game'[r] = game[r]
    BY <1>0, <1>3, <2>1, TurnFacts, FinishFacts DEF handleMakeMove
  <2>3. QED
    BY <2>2
<1>4. QED
  BY <1>1, <1>2, <1>3 DEF Next, vars, handleAuth, closeUnnoticed, handleDisconnect,
     handleJoinRoom, handleLeaveRoom, handlePlayerReady, handleRequestRematch,
     handleAcceptRematch, handleDeclineRematch, handleReconnect, purgeRoom, expireRematch,
     expireReconnectWindow

\* No late move, forfeit, leave or expiring window rewrites a verdict.
THEOREM VerdictsAreFinal == Spec => VerdictIsFinal
<1>1. IInv /\ [Next]_vars =>
        [\A r \in Rooms : Finished(r) /\ game'[r] # game[r] =>
           game'[r].id > game[r].id]_vars
  BY VerdictStep
<1>2. QED
  BY Invariant, <1>1, PTL DEF Spec, VerdictIsFinal

\* A new game is opened by the symbol that did not open the last one.
LEMMA OpenerStep ==
  ASSUME IInv, [Next]_vars, NEW r \in Rooms, game'[r].id # game[r].id
  PROVE  /\ game'[r].id = game[r].id + 1
         /\ game'[r].firstTurn = IF game[r].id = 0 THEN "X"
                                 ELSE opponent(game[r].firstTurn)
<1> DEFINE next == IF game[r].id = 0 THEN "X" ELSE opponent(game[r].firstTurn)
<1>0. TypeOK
  BY DEF IInv
<1>1. ASSUME NEW p \in Players, NEW q \in Rooms, NEW o, endIfActive(q, p, o)
      PROVE  FALSE
  BY <1>0, <1>1, EndFacts
<1>2. ASSUME NEW p \in Players, NEW q \in Rooms, handleMakeMove(p, q) PROVE FALSE
  BY <1>0, <1>2, TurnFacts, FinishFacts DEF handleMakeMove
<1>3. game[r].id = 0 => game[r].firstTurn = NoSymbol
  BY <1>0 DEF TypeOK, NoGame, StartedGames
<1>4. game[r].id # 0 => game[r].firstTurn \in Symbols
  BY <1>0 DEF TypeOK, NoGame, StartedGames
<1>5. ASSUME NEW q \in Rooms, NEW first, startGame(q, first), q = r => first = next
      PROVE  game'[r].id = game[r].id + 1 /\ game'[r].firstTurn = next
  BY <1>0, <1>5, StartFacts
<1>6. ASSUME NEW p \in Players, NEW q \in Rooms, handlePlayerReady(p, q)
      PROVE  game'[r].id = game[r].id + 1 /\ game'[r].firstTurn = next
  <2>1. startGame(q, IF game[q].firstTurn = "X" THEN "O" ELSE "X")
    BY <1>6 DEF handlePlayerReady
  <2>2. (IF game[r].firstTurn = "X" THEN "O" ELSE "X") = next
    BY <1>3, <1>4 DEF opponent, NoSymbol, Symbols
  <2>3. QED
    BY <1>5, <2>1, <2>2
<1>7. ASSUME NEW p \in Players, NEW q \in Rooms, handleAcceptRematch(p, q)
      PROVE  game'[r].id = game[r].id + 1 /\ game'[r].firstTurn = next
  <2>1. startGame(q, opponent(game[q].firstTurn)) /\ Finished(q)
    BY <1>7 DEF handleAcceptRematch
  <2>2. game[q].id # 0
    BY <1>0, <2>1, ActiveIsStarted DEF StartedGames
  <2>3. QED
    BY <1>5, <2>1, <2>2
<1>8. QED
  BY <1>1, <1>2, <1>6, <1>7 DEF Next, vars, handleAuth, closeUnnoticed, handleDisconnect,
     handleJoinRoom, handleLeaveRoom, handleRequestRematch,
     handleDeclineRematch, handleReconnect, purgeRoom, expireRematch, expireReconnectWindow

\* The openers alternate over all the games of a room, X first.
THEOREM OpenersAlternate == Spec => OpenerAlternates
<1>1. IInv /\ [Next]_vars =>
        [\A r \in Rooms : game'[r].id # game[r].id =>
           /\ game'[r].id = game[r].id + 1
           /\ game'[r].firstTurn = IF game[r].id = 0 THEN "X"
                                   ELSE opponent(game[r].firstTurn)]_vars
  BY OpenerStep
<1>2. QED
  BY Invariant, <1>1, PTL DEF Spec, OpenerAlternates

\* Who has a slot or a window has it in a room that is still there.
LEMMA NotInPurged ==
  ASSUME IInv, NEW p \in Players, NEW r \in Rooms,
         Seated(p, r) \/ p \in window[r] \/ BothSeated(r)
  PROVE  r \notin purged
<1> SUFFICES ASSUME r \in purged PROVE FALSE
  OBVIOUS
<1>1. window[r] = {} /\ \A s \in Symbols : seat[r][s] = NoPlayer
  BY DEF IInv, PurgedIsEmpty
<1>2. QED
  BY <1>1 DEF Seated, getSymbolForPlayer, BothSeated, Symbols

\* LEAVE_ROOM and the reconnect window end the game against the player whose
\* slot they free, because that slot is the one the game knows him by.
LEMMA LoserStep ==
  ASSUME IInv, [Next]_vars, NEW r \in Rooms,
         Active(r), game'[r].outcome \in {"FORFEIT", "ABANDONED"}
  PROVE  LET w == game'[r].winner IN
         /\ game'[r].outcome = "FORFEIT" => w \in Symbols
         /\ w \in Symbols => /\ seat'[r][opponent(w)] = NoPlayer
                             /\ seat'[r][w] = seat[r][w]
<1>0. TypeOK /\ game[r].outcome = NoSymbol
  BY DEF IInv, NoEarlyOutcome
<1>1. ASSUME NEW p \in Players, NEW q \in Rooms, NEW o, q \notin purged,
             endIfActive(q, p, o), removePlayer(q, p),
             o = "FORFEIT" => Seated(p, q), o \in {"FORFEIT", "ABANDONED"}
      PROVE  LET w == game'[r].winner IN
             /\ game'[r].outcome = "FORFEIT" => w \in Symbols
             /\ w \in Symbols => /\ seat'[r][opponent(w)] = NoPlayer
                                 /\ seat'[r][w] = seat[r][w]
  <2>1. q = r
    BY <1>0, <1>1, EndFacts DEF NoSymbol
  <2>9. game[r].player = seat[r]
    BY <1>1, <2>1 DEF IInv, ActiveGameSeated
  <2> DEFINE s == getSymbolForPlayer(r, p)
  <2>2. game'[r].winner = winnerWithout(r, p) /\ game'[r].outcome = o
    BY <1>0, <1>1, <2>1, EndFacts
  <2>3. /\ s \in Symbols => winnerWithout(r, p) = opponent(s)
        /\ s \notin Symbols => winnerWithout(r, p) = NoSymbol
    BY <2>9 DEF winnerWithout, getSymbolForPlayer, opponent, Symbols, NoSymbol
  <2>4. \A t \in Symbols : seat'[r][t] = IF t = s THEN NoPlayer ELSE seat[r][t]
    BY <1>0, <1>1, <2>1, RemoveFacts
  <2>5. o = "FORFEIT" => s \in Symbols
    BY <1>0, <1>1, <2>1, SymbolFacts
  <2> HIDE DEF s
  <2>6. s \in Symbols => /\ opponent(s) \in Symbols /\ opponent(s) # s
                        /\ opponent(opponent(s)) = s
    BY DEF opponent, Symbols
  <2>7. NoSymbol \notin Symbols
    BY DEF NoSymbol, Symbols
  <2>8. QED
    BY <2>2, <2>3, <2>4, <2>5, <2>6, <2>7
<1>2. ASSUME NEW q \in Rooms, NEW first, startGame(q, first) PROVE FALSE
  BY <1>0, <1>2, StartFacts DEF NoSymbol
<1>3. ASSUME NEW p \in Players, NEW q \in Rooms, handleMakeMove(p, q) PROVE FALSE
  BY <1>0, <1>3, TurnFacts, FinishFacts DEF handleMakeMove, NoSymbol
<1>4. UNCHANGED game => FALSE
  BY <1>0 DEF NoSymbol
<1>5. ASSUME NEW p \in Players, NEW q \in Rooms, Seated(p, q) \/ p \in window[q]
      PROVE  q \notin purged
  BY <1>5, NotInPurged
<1>6. QED
  BY <1>1, <1>2, <1>3, <1>4, <1>5 DEF Next, vars, handleAuth, closeUnnoticed, handleDisconnect,
     handleJoinRoom, handleLeaveRoom, handlePlayerReady, handleRequestRematch,
     handleAcceptRematch, handleDeclineRematch, handleReconnect, purgeRoom, expireRematch,
     expireReconnectWindow

\* Whoever gives a game up loses the slot in the same step, the winner keeps
\* his, and a forfeit always has a winner.
THEOREM LosersLoseTheirSlot == Spec => LoserLosesSlot
<1>1. IInv /\ [Next]_vars =>
        [\A r \in Rooms :
           Active(r) /\ game'[r].outcome \in {"FORFEIT", "ABANDONED"} =>
             LET w == game'[r].winner IN
             /\ game'[r].outcome = "FORFEIT" => w \in Symbols
             /\ w \in Symbols => /\ seat'[r][opponent(w)] = NoPlayer
                                 /\ seat'[r][w] = seat[r][w]]_vars
  BY LoserStep
<1>2. QED
  BY Invariant, <1>1, PTL DEF Spec, LoserLosesSlot

-----------------------------------------------------------------------------
\* The slots, both facts at once.

\* Nobody sits in two slots of a room, and a free slot remembers nobody.
THEOREM SlotsStayInOrder == Spec => []SlotsInOrder
BY Invariant, PTL DEF IInv, SlotsInOrder

\* startGame over a game in progress is reached from PLAYER_READY alone, when
\* the other slot of the same two players is marked ready.
LEMMA ConsentStep ==
  ASSUME IInv, [Next]_vars, NEW r \in Rooms, Active(r), game'[r].id # game[r].id
  PROVE  /\ ready[r] # {} /\ ready'[r] = {}
         /\ game'[r].player = game[r].player /\ seat'[r] = game[r].player
<1>0. TypeOK
  BY DEF IInv
<1>1. ASSUME NEW p \in Players, NEW q \in Rooms, NEW o, endIfActive(q, p, o)
      PROVE  FALSE
  BY <1>0, <1>1, EndFacts
<1>2. ASSUME NEW p \in Players, NEW q \in Rooms, handleMakeMove(p, q) PROVE FALSE
  BY <1>0, <1>2, TurnFacts, FinishFacts DEF handleMakeMove
<1>3. ASSUME NEW p \in Players, NEW q \in Rooms, handleAcceptRematch(p, q) PROVE FALSE
  <2>1. Finished(q) /\ q # r
    BY <1>3 DEF handleAcceptRematch, Finished, Active
  <2>2. game'[r] = game[r]
    BY <1>0, <1>3, <2>1, StartFacts DEF handleAcceptRematch
  <2>3. QED
    BY <2>2
<1>4. ASSUME NEW p \in Players, NEW q \in Rooms, handlePlayerReady(p, q)
      PROVE  /\ ready[r] # {} /\ ready'[r] = {}
             /\ game'[r].player = game[r].player /\ seat'[r] = game[r].player
  <2> DEFINE s == getSymbolForPlayer(q, p)
             everyone == ready[q] \cup {s} = Symbols
  <2>1. everyone /\ startGame(q, IF game[q].firstTurn = "X" THEN "O" ELSE "X")
    BY <1>4 DEF handlePlayerReady
  <2>2. q = r
    BY <1>0, <2>1, StartFacts
  <2>6. game[r].player = seat[r]
    BY <1>4, <2>2, NotInPurged DEF handlePlayerReady, IInv, ActiveGameSeated
  <2>3. game'[r].player = seat[r] /\ seat' = seat
    BY <1>0, <1>4, <2>1, <2>2, StartFacts DEF handlePlayerReady
  <2>4. ready'[r] = {}
    BY <1>0, <1>4, <2>1, <2>2 DEF handlePlayerReady, TypeOK
  <2>5. ready[r] # {}
    BY <2>1, <2>2 DEF Symbols
  <2>7. QED
    BY <2>3, <2>4, <2>5, <2>6
<1>5. QED
  BY <1>1, <1>2, <1>3, <1>4 DEF Next, vars, handleAuth, closeUnnoticed, handleDisconnect,
     handleJoinRoom, handleLeaveRoom, handleRequestRematch, handleDeclineRematch,
     handleReconnect, purgeRoom, expireRematch, expireReconnectWindow

\* No acceptance of an old rematch and no timer replaces a game in progress.
THEOREM GamesAreReplacedByConsent == Spec => GameReplacedByConsent
<1>1. IInv /\ [Next]_vars =>
        [\A r \in Rooms : Active(r) /\ game'[r].id # game[r].id =>
           /\ ready[r] # {} /\ ready'[r] = {}
           /\ game'[r].player = game[r].player /\ seat'[r] = game[r].player]_vars
  BY ConsentStep
<1>2. QED
  BY Invariant, <1>1, PTL DEF Spec, GameReplacedByConsent

-----------------------------------------------------------------------------
(***************************************************************************)
(* Every step of the rooms is a step of their series or leaves it alone:   *)
(* startGame opens a game, an accepted move moves, and finishGame, from a  *)
(* move, LEAVE_ROOM or an expiring window, concludes one.  All else        *)
(* stutters.                                                               *)
(***************************************************************************)
SeriesStep == [Games!SeriesNext]_(Games!seriesVars)

\* The names of the two modules for the two symbols.
LEMMA SameSymbols ==
  /\ Games!Marks = Symbols /\ Games!Nobody = NoSymbol
  /\ \A s : Games!Other(s) = opponent(s)
  /\ Games!Undecided = [how |-> NoSymbol, winner |-> NoSymbol]
BY DEF Games!Marks, Symbols, Games!Nobody, NoSymbol, Games!Other, opponent, Games!Undecided

\* A game in progress runs in the series.
LEMMA ActiveRuns ==
  ASSUME IInv, NEW r \in Rooms, Active(r)
  PROVE  Games!Running(r)
<1>1. game[r].outcome = NoSymbol /\ game[r].winner = NoSymbol
  BY DEF IInv, NoEarlyOutcome
<1>2. game[r].id > 0
  BY ActiveIsStarted DEF IInv, StartedGames
<1>3. QED
  BY <1>1, <1>2, SameSymbols DEF Games!Running

\* startGame opens the next game of the series.
LEMMA StartOpens ==
  ASSUME IInv, NEW r \in Rooms, NEW first \in Symbols, startGame(r, first), UNCHANGED completed,
         first = IF game[r].id = 0 THEN "X" ELSE opponent(game[r].firstTurn)
  PROVE  SeriesStep
<1>0. TypeOK /\ \A q \in Rooms \ {r} : game'[q] = game[q]
  BY StartFacts DEF IInv
<1>1. CASE ~BothSeated(r)
  BY <1>1 DEF startGame, SeriesStep, Games!seriesVars
<1>2. CASE BothSeated(r)
  <2>1. /\ game'[r].id = game[r].id + 1 /\ game'[r].player = seat[r]
        /\ game'[r].firstTurn = first /\ game'[r].turn = first
        /\ game'[r].outcome = NoSymbol /\ game'[r].winner = NoSymbol
    BY <1>0, <1>2, StartFacts
  <2>2. seat[r] \in [Symbols -> Players] /\ seat[r]["X"] # seat[r]["O"]
    BY <1>0, <1>2 DEF TypeOK, BothSeated, IInv, OneSeatPerRoom
  <2>3. Games!Open(r)
    BY <1>0, <2>1, <2>2, SameSymbols DEF Games!Open
  <2>4. QED
    BY <2>3 DEF SeriesStep, Games!SeriesNext
<1>3. QED
  BY <1>1, <1>2

\* finishGame concludes the game.
LEMMA FinishConcludes ==
  ASSUME IInv, NEW r \in Rooms, Active(r), NEW o, NEW w, finishGame(r, o, w),
         [how |-> o, winner |-> w] \in Games!Verdicts(game[r].turn)
  PROVE  SeriesStep
<1>0. TypeOK /\ Games!Running(r)
  BY ActiveRuns DEF IInv
<1>1. /\ \A q \in Rooms \ {r} : game'[q] = game[q] /\ completed'[q] = completed[q]
      /\ game'[r].id = game[r].id /\ game'[r].player = game[r].player
      /\ game'[r].outcome = o /\ game'[r].winner = w
      /\ game'[r].firstTurn = game[r].firstTurn /\ game'[r].turn = game[r].turn
  BY <1>0, FinishFacts
<1>2. completed' = [completed EXCEPT ![r] = @ \cup {game[r].id}]
  BY DEF finishGame
<1> DEFINE v == [how |-> o, winner |-> w]
           verdict(q) == [how |-> game[q].outcome, winner |-> game[q].winner]
<1>3. [q \in Rooms |-> verdict(q)]' = [[q \in Rooms |-> verdict(q)] EXCEPT ![r] = v]
  BY <1>1
<1>4. /\ UNCHANGED [q \in Rooms |-> game[q].id] /\ UNCHANGED [q \in Rooms |-> game[q].player]
      /\ UNCHANGED [q \in Rooms |-> game[q].firstTurn]
      /\ UNCHANGED [q \in Rooms |-> game[q].turn]
  BY <1>1
<1>5. v \in Games!Verdicts([q \in Rooms |-> game[q].turn][r])
  OBVIOUS
<1>6. completed' = [completed EXCEPT ![r] = @ \cup {[q \in Rooms |-> game[q].id][r]}]
  BY <1>2
<1>7. Games!Conclude(r)
  BY <1>0, <1>3, <1>4, <1>5, <1>6, Zenon DEF Games!Conclude
<1>8. QED
  BY <1>7 DEF SeriesStep, Games!SeriesNext

\* Giving a game up concludes it; a forfeit is by one of its players.
LEMMA EndConcludes ==
  ASSUME IInv, NEW r \in Rooms, NEW p \in Players, NEW o \in {"FORFEIT", "ABANDONED"},
         endIfActive(r, p, o), o = "FORFEIT" => Seated(p, r)
  PROVE  SeriesStep
<1>1. CASE ~Active(r)
  BY <1>1 DEF endIfActive, SeriesStep, Games!seriesVars
<1>2. CASE Active(r)
  <2> DEFINE w == winnerWithout(r, p)
  <2>1. finishGame(r, o, w)
    BY <1>2 DEF endIfActive
  <2>2. Seated(p, r) => game[r].player = seat[r]
    BY <1>2, NotInPurged DEF IInv, ActiveGameSeated
  <2>3. w \in Symbols \cup {NoSymbol} /\ (Seated(p, r) => w \in Symbols)
    BY <2>2 DEF winnerWithout, Symbols, NoSymbol, Seated, getSymbolForPlayer
  <2> HIDE DEF w
  <2>4. [how |-> o, winner |-> w] \in Games!Verdicts(game[r].turn)
    BY <2>3, SameSymbols DEF Games!Verdicts
  <2>5. QED
    BY <1>2, <2>1, <2>4, FinishConcludes
<1>3. QED
  BY <1>1, <1>2

LEMMA StepFollowsSeries == IInv /\ [Next]_vars => SeriesStep
<1> SUFFICES ASSUME IInv, [Next]_vars PROVE SeriesStep
  OBVIOUS
<1>0. TypeOK
  BY DEF IInv
<1>1. CASE UNCHANGED <<game, completed>>
  BY <1>1 DEF SeriesStep, Games!seriesVars
<1>2. ASSUME NEW p \in Players, NEW r \in Rooms, handleLeaveRoom(p, r) PROVE SeriesStep
  BY <1>2, EndConcludes DEF handleLeaveRoom
<1>3. ASSUME NEW p \in Players, NEW r \in Rooms, expireReconnectWindow(p, r)
      PROVE  SeriesStep
  BY <1>3, EndConcludes DEF expireReconnectWindow
<1>4. ASSUME NEW p \in Players, NEW r \in Rooms, handlePlayerReady(p, r) PROVE SeriesStep
  <2> DEFINE first == IF game[r].firstTurn = "X" THEN "O" ELSE "X"
  <2>1. UNCHANGED game \/ startGame(r, first)
    BY <1>4 DEF handlePlayerReady
  <2>2. first = IF game[r].id = 0 THEN "X" ELSE opponent(game[r].firstTurn)
    BY <1>0 DEF TypeOK, NoGame, StartedGames, opponent, NoSymbol, Symbols
  <2>3. first \in Symbols
    BY DEF Symbols
  <2>4. UNCHANGED completed
    BY <1>4 DEF handlePlayerReady
  <2> HIDE DEF first
  <2>5. QED
    BY <1>1, <2>1, <2>2, <2>3, <2>4, StartOpens
<1>5. ASSUME NEW p \in Players, NEW r \in Rooms, handleAcceptRematch(p, r) PROVE SeriesStep
  <2> DEFINE first == opponent(game[r].firstTurn)
  <2>1. UNCHANGED game \/ startGame(r, first)
    BY <1>5 DEF handleAcceptRematch
  <2>2. game[r] \in StartedGames
    BY <1>0, <1>5, ActiveIsStarted DEF handleAcceptRematch
  <2>3. first \in Symbols /\ game[r].id # 0
    BY <2>2 DEF opponent, Symbols, StartedGames
  <2>4. UNCHANGED completed
    BY <1>5 DEF handleAcceptRematch
  <2>5. QED
    BY <1>1, <2>1, <2>3, <2>4, StartOpens
<1>6. ASSUME NEW p \in Players, NEW r \in Rooms, handleMakeMove(p, r) PROVE SeriesStep
  <2> DEFINE s == game[r].turn
  <2>1. Active(r) /\ game[r] \in StartedGames
    BY <1>0, <1>6, ActiveIsStarted DEF handleMakeMove
  <2>2. CASE game' = [game EXCEPT ![r].turn = opponent(s)] /\ UNCHANGED completed
    <3>1. /\ \A q \in Rooms \ {r} : game'[q] = game[q]
          /\ game'[r].id = game[r].id /\ game'[r].player = game[r].player
          /\ game'[r].firstTurn = game[r].firstTurn
          /\ game'[r].outcome = game[r].outcome /\ game'[r].winner = game[r].winner
          /\ game'[r].turn = opponent(s)
      BY <1>0, <2>1, <2>2, TurnFacts
    <3>2. [q \in Rooms |-> game[q].turn]' =
            [[q \in Rooms |-> game[q].turn] EXCEPT
               ![r] = Games!Other([q \in Rooms |-> game[q].turn][r])]
      BY <3>1, SameSymbols
    <3>3. /\ UNCHANGED [q \in Rooms |-> game[q].id]
          /\ UNCHANGED [q \in Rooms |-> game[q].player]
          /\ UNCHANGED [q \in Rooms |-> game[q].firstTurn]
          /\ UNCHANGED [q \in Rooms |->
               [how |-> game[q].outcome, winner |-> game[q].winner]]
      BY <3>1
    <3>4. Games!Running(r)
      BY <2>1, ActiveRuns
    <3>5. Games!Move(r)
      BY <2>2, <3>2, <3>3, <3>4, Zenon DEF Games!Move
    <3>6. QED
      BY <3>5 DEF SeriesStep, Games!SeriesNext
  <2>3. CASE finishGame(r, "WIN", s) \/ finishGame(r, "DRAW", NoSymbol)
    <3>1. /\ [how |-> "WIN", winner |-> s] \in Games!Verdicts(s)
          /\ [how |-> "DRAW", winner |-> NoSymbol] \in Games!Verdicts(s)
      BY SameSymbols DEF Games!Verdicts
    <3>2. QED
      BY <2>1, <2>3, <3>1, FinishConcludes
  <2>4. QED
    BY <1>6, <2>2, <2>3 DEF handleMakeMove
<1>7. QED
  BY <1>1, <1>2, <1>3, <1>4, <1>5, <1>6 DEF Next, vars, handleAuth, closeUnnoticed,
     handleDisconnect, handleJoinRoom, handleRequestRematch, handleDeclineRematch,
     handleReconnect, purgeRoom, expireRematch

\* The rooms implement the series of their games.
THEOREM RoomsImplementSeries == Spec => ImplementsSeries
<1>1. Init => Games!SeriesInit
  BY SameSymbols DEF Init, NoGame, Games!SeriesInit
<1>2. IInv /\ [Next]_vars => [Games!SeriesNext]_(Games!seriesVars)
  BY StepFollowsSeries DEF SeriesStep
<1>3. QED
  BY <1>1, <1>2, Invariant, PTL DEF Spec, ImplementsSeries, Games!SeriesSpec

-----------------------------------------------------------------------------
(***************************************************************************)
(* The pages.                                                              *)
(***************************************************************************)

USE WatchedAssumption

-----------------------------------------------------------------------------
(***************************************************************************)
(* The rooms behind the pages.  Every step of the pages is a step of the   *)
(* rooms or leaves them alone, so what is proved of the rooms holds here   *)
(* too; no room is purged.                                                 *)
(***************************************************************************)
LEMMA PageActions ==
  ASSUME NEW p, NEW r
  PROVE  /\ joinRoom(p, r) => handleJoinRoom(p, r)
         /\ rejoinRoom(p, r) => UNCHANGED vars
         /\ leaveRoom(p, r) => handleLeaveRoom(p, r) \/ UNCHANGED vars
         /\ playerReady(p, r) => handlePlayerReady(p, r)
         /\ makeMove(p, r) => handleMakeMove(p, r) \/ UNCHANGED vars
         /\ makeMoveInVain(p, r) => UNCHANGED vars
         /\ rematchControl(p, r) => \/ handleRequestRematch(p, r)
                                    \/ handleAcceptRematch(p, r)
                                    \/ handleDeclineRematch(p, r)
         /\ serveReconnect(p, r) => handleReconnect(p, r) \/ UNCHANGED vars
         /\ serveSync(p, r) => UNCHANGED vars
         /\ authenticate(p) => handleAuth(p) \/ UNCHANGED vars
         /\ pageLoses(p) \/ giveUp(p) \/ reload(p) => UNCHANGED vars
         /\ serverLoses(p) => handleDisconnect(p) \/ closeUnnoticed(p)
         /\ windowExpires(p, r) => expireReconnectWindow(p, r)
         /\ rematchExpires(r) => expireRematch(r)
         /\ others(p, r) => \/ handleJoinRoom(p, r) \/ handleLeaveRoom(p, r)
                            \/ handlePlayerReady(p, r) \/ handleAcceptRematch(p, r)
                            \/ handleRequestRematch(p, r) \/ handleDeclineRematch(p, r)
                            \/ handleReconnect(p, r) \/ handleMakeMove(p, r)
<1>1. /\ joinRoom(p, r) => handleJoinRoom(p, r)
      /\ rejoinRoom(p, r) => UNCHANGED vars
  BY DEF joinRoom, rejoinRoom
<1>2. leaveRoom(p, r) => handleLeaveRoom(p, r) \/ UNCHANGED vars
  BY DEF leaveRoom
<1>3. /\ playerReady(p, r) => handlePlayerReady(p, r)
      /\ makeMove(p, r) => handleMakeMove(p, r) \/ UNCHANGED vars
      /\ makeMoveInVain(p, r) => UNCHANGED vars
  BY DEF playerReady, makeMove, makeMoveInVain
<1>4. rematchControl(p, r) => \/ handleRequestRematch(p, r)
                             \/ handleAcceptRematch(p, r)
                             \/ handleDeclineRematch(p, r)
  BY DEF rematchControl, requestRematch
<1>5. serveReconnect(p, r) => handleReconnect(p, r) \/ UNCHANGED vars
  BY DEF serveReconnect
<1>6. serveSync(p, r) => UNCHANGED vars
  BY DEF serveSync
<1>7. authenticate(p) => handleAuth(p) \/ UNCHANGED vars
  BY DEF authenticate
<1>8. pageLoses(p) \/ giveUp(p) \/ reload(p) => UNCHANGED vars
  BY DEF pageLoses, giveUp, reload
<1>9. serverLoses(p) => handleDisconnect(p) \/ closeUnnoticed(p)
  BY DEF serverLoses
<1>10. /\ windowExpires(p, r) => expireReconnectWindow(p, r)
       /\ rematchExpires(r) => expireRematch(r)
  BY DEF windowExpires, rematchExpires
<1>11. others(p, r) => \/ handleJoinRoom(p, r) \/ handleLeaveRoom(p, r)
                      \/ handlePlayerReady(p, r) \/ handleAcceptRematch(p, r)
                      \/ handleRequestRematch(p, r) \/ handleDeclineRematch(p, r)
                      \/ handleReconnect(p, r) \/ handleMakeMove(p, r)
  BY DEF others, requestRematch
<1>12. QED
  BY <1>1, <1>2, <1>3, <1>4, <1>5, <1>6, <1>7, <1>8, <1>9, <1>10, <1>11

\* No step of the pages does more to the rooms than an action of theirs.
LEMMA PageStepIsRoomStep == PageNext => [Next]_vars /\ UNCHANGED purged
<1> SUFFICES ASSUME PageNext PROVE [Next]_vars /\ UNCHANGED purged
  OBVIOUS
<1>1. \/ UNCHANGED vars
      \/ \E p \in Players : handleAuth(p) \/ handleDisconnect(p) \/ closeUnnoticed(p)
      \/ \E p \in Players, r \in Rooms :
           \/ handleJoinRoom(p, r) \/ handleLeaveRoom(p, r)
           \/ handlePlayerReady(p, r) \/ handleMakeMove(p, r)
           \/ handleRequestRematch(p, r) \/ handleAcceptRematch(p, r)
           \/ handleDeclineRematch(p, r) \/ handleReconnect(p, r)
           \/ expireReconnectWindow(p, r)
      \/ \E r \in Rooms : expireRematch(r)
  BY PageActions DEF PageNext
<1>2. [Next]_vars
  BY <1>1 DEF Next
<1>3. UNCHANGED purged
  <2>1. ASSUME NEW p \in Players,
               handleAuth(p) \/ handleDisconnect(p) \/ closeUnnoticed(p)
        PROVE  UNCHANGED purged
    BY <2>1 DEF handleAuth, handleDisconnect, closeUnnoticed
  <2>2. ASSUME NEW p \in Players, NEW r \in Rooms,
               \/ handleJoinRoom(p, r) \/ handleLeaveRoom(p, r)
               \/ handleReconnect(p, r) \/ expireReconnectWindow(p, r)
        PROVE  UNCHANGED purged
    BY <2>2 DEF handleJoinRoom, handleLeaveRoom, handleReconnect, expireReconnectWindow
  <2>3. ASSUME NEW p \in Players, NEW r \in Rooms,
               handlePlayerReady(p, r) \/ handleMakeMove(p, r)
        PROVE  UNCHANGED purged
    BY <2>3 DEF handlePlayerReady, handleMakeMove
  <2>4. ASSUME NEW p \in Players, NEW r \in Rooms,
               \/ handleRequestRematch(p, r) \/ handleAcceptRematch(p, r)
               \/ handleDeclineRematch(p, r)
        PROVE  UNCHANGED purged
    BY <2>4 DEF handleRequestRematch, handleAcceptRematch, handleDeclineRematch
  <2>5. ASSUME UNCHANGED vars \/ \E r \in Rooms : expireRematch(r)
        PROVE  UNCHANGED purged
    BY <2>5 DEF vars, expireRematch
  <2>6. QED
    BY <1>1, <2>1, <2>2, <2>3, <2>4, <2>5
<1>4. QED
  BY <1>2, <1>3

\* The browser pages drive the server as its own specification allows.
THEOREM PagesDriveRooms == PageSpec => Init /\ [][Next]_vars
<1>1. [PageNext]_pageVars => [Next]_vars
  BY PageStepIsRoomStep DEF pageVars, vars
<1>2. QED
  BY <1>1, PTL DEF PageSpec, PageInit

-----------------------------------------------------------------------------
(***************************************************************************)
(* What a page is right about rests on what the server knows of its        *)
(* player.  LEAVE_ROOM does not stop the player's reconnect window.  If    *)
(* the player has a slot in another room when it expires, the association  *)
(* with that room is cleared, the player can take a slot in a third, and   *)
(* the page is sent the events of both.  NoStrayWindow excludes the case;  *)
(* with a single room it cannot arise.                                     *)
(***************************************************************************)
NoStrayWindow ==
  \A p \in Players, q, r \in Rooms : p \in window[q] /\ Seated(p, r) => q = r

\* The session of a player with a slot is associated with that slot's room.
KnownSlots == \A p \in Players, r \in Rooms : Seated(p, r) => sessionRoom[p] = r

\* Where a player has just lost a slot the other one is not hers, either.
LEMMA RemovedIsGone ==
  ASSUME TypeOK, OneSeatPerRoom, NEW r \in Rooms, NEW p \in Players, removePlayer(r, p)
  PROVE  /\ ~Seated(p, r)'
         /\ \A q \in Players, s \in Rooms : Seated(q, s)' => Seated(q, s)
         /\ \A q \in Players \ {p}, s \in Rooms :
              getSymbolForPlayer(s, q)' = getSymbolForPlayer(s, q)
<1>1. \A t \in Symbols :
        seat'[r][t] = IF t = getSymbolForPlayer(r, p) THEN NoPlayer ELSE seat[r][t]
  BY RemoveFacts
<1>2. \A s \in Rooms \ {r} : seat'[s] = seat[s]
  BY RemoveFacts
<1>3. ~Seated(p, r)'
  BY <1>1 DEF Seated, getSymbolForPlayer, Symbols, NoSymbol, OneSeatPerRoom, BothSeated
<1>4. \A q \in Players \ {p} : getSymbolForPlayer(r, q)' = getSymbolForPlayer(r, q)
  BY <1>1 DEF getSymbolForPlayer, Symbols, NoSymbol
<1>5. \A q \in Players, s \in Rooms \ {r} :
        getSymbolForPlayer(s, q)' = getSymbolForPlayer(s, q)
  BY <1>2 DEF getSymbolForPlayer
<1>6. QED
  BY <1>3, <1>4, <1>5 DEF Seated

\* A join seats the player who joins and moves nobody.
LEMMA AddedIsSeated ==
  ASSUME TypeOK, NEW r \in Rooms, NEW p \in Players, ~Seated(p, r), addPlayer(r, p)
  PROVE  /\ Seated(p, r)'
         /\ getSymbolForPlayer(r, p)' \in connected'[r]
         /\ \A q \in Players, s \in Rooms : <<q, s>> # <<p, r>> =>
              getSymbolForPlayer(s, q)' = getSymbolForPlayer(s, q)
         /\ \A s \in Rooms : connected[s] \subseteq connected'[s]
<1>1. PICK t \in Symbols : /\ seat[r][t] = NoPlayer
                           /\ seat'[r][t] = p
                           /\ seat'[r][opponent(t)] = seat[r][opponent(t)]
                           /\ connected'[r] = connected[r] \cup {t}
  BY AddFacts
<1>2. \A s \in Rooms \ {r} : seat'[s] = seat[s] /\ connected'[s] = connected[s]
  BY AddFacts
<1>3. seat[r]["X"] # p /\ seat[r]["O"] # p
  BY DEF Seated, getSymbolForPlayer, NoSymbol
<1>4. getSymbolForPlayer(r, p)' = t
  BY <1>1, <1>3 DEF getSymbolForPlayer, Symbols, opponent
<1>5. \A q \in Players \ {p} : getSymbolForPlayer(r, q)' = getSymbolForPlayer(r, q)
  BY <1>1 DEF getSymbolForPlayer, Symbols, opponent
<1>6. \A q \in Players, s \in Rooms \ {r} :
        getSymbolForPlayer(s, q)' = getSymbolForPlayer(s, q)
  BY <1>2 DEF getSymbolForPlayer
<1>7. QED
  BY <1>1, <1>2, <1>4, <1>5, <1>6 DEF Seated, Symbols, NoSymbol

\* The association follows the slot: it is cleared only with it, or by a window
\* that is not stray.
LEMMA KnownStep ==
  ASSUME IInv, KnownSlots, NoStrayWindow, [Next]_vars, UNCHANGED purged
  PROVE  KnownSlots'
<1>0. TypeOK /\ OneSeatPerRoom
  BY DEF IInv
<1>1. CASE UNCHANGED <<sessionRoom, seat>>
  BY <1>1 DEF KnownSlots, Seated, getSymbolForPlayer
<1>2. ASSUME NEW p \in Players, handleAuth(p) PROVE KnownSlots'
  <2>1. \A q \in Players, r \in Rooms : Seated(q, r)' <=> Seated(q, r)
    BY <1>2 DEF handleAuth, Seated, getSymbolForPlayer
  <2>2. \A q \in Players \ {p} : sessionRoom'[q] = sessionRoom[q]
    BY <1>0, <1>2 DEF handleAuth, TypeOK
  <2>3. \A r \in Rooms : Seated(p, r) => sessionRoom'[p] = r
    BY <1>0, <1>2 DEF handleAuth, TypeOK, KnownSlots
  <2>4. QED
    BY <2>1, <2>2, <2>3 DEF KnownSlots
<1>3. ASSUME NEW p \in Players, NEW r \in Rooms, handleJoinRoom(p, r)
      PROVE  KnownSlots'
  <2>1. /\ addPlayer(r, p) /\ ~Seated(p, r)
        /\ sessionRoom[p] \in {NoRoom, r}
        /\ sessionRoom' = [sessionRoom EXCEPT ![p] = r]
    BY <1>3 DEF handleJoinRoom
  <2>2. \A q \in Players, s \in Rooms : <<q, s>> # <<p, r>> => (Seated(q, s)' <=> Seated(q, s))
    BY <1>0, <2>1, AddedIsSeated DEF Seated
  <2>3. \A s \in Rooms : ~Seated(p, s)
    BY <2>1 DEF KnownSlots
  <2>4. QED
    BY <1>0, <2>1, <2>2, <2>3 DEF KnownSlots, TypeOK
<1>4. ASSUME NEW p \in Players, NEW r \in Rooms, removePlayer(r, p),
             Seated(p, r) \/ p \in window[r],
             sessionRoom' = [sessionRoom EXCEPT ![p] = NoRoom]
      PROVE  KnownSlots'
  <2>1. /\ ~Seated(p, r)'
        /\ \A q \in Players, s \in Rooms : Seated(q, s)' => Seated(q, s)
    BY <1>0, <1>4, RemovedIsGone
  <2>2. \A s \in Rooms : Seated(p, s) => s = r
    BY <1>4 DEF KnownSlots, NoStrayWindow
  <2>3. QED
    BY <1>0, <1>4, <2>1, <2>2 DEF KnownSlots, TypeOK
<1>5. ASSUME NEW p \in Players, NEW r \in Rooms, handleReconnect(p, r)
      PROVE  KnownSlots'
  <2>1. /\ Seated(p, r) /\ UNCHANGED seat
        /\ sessionRoom' = [sessionRoom EXCEPT ![p] = r]
    BY <1>5 DEF handleReconnect
  <2>2. QED
    BY <1>0, <2>1 DEF KnownSlots, TypeOK, Seated, getSymbolForPlayer
<1>6. ASSUME NEW r \in Rooms, purgeRoom(r) PROVE FALSE
  BY <1>6 DEF purgeRoom
<1>7. QED
  BY <1>1, <1>2, <1>3, <1>4, <1>5, <1>6 DEF Next, vars, closeUnnoticed,
     handleDisconnect, handleLeaveRoom, handlePlayerReady, handleMakeMove,
     handleRequestRematch, handleAcceptRematch, handleDeclineRematch, expireRematch,
     expireReconnectWindow

\* The games of a room only go forward, and a game begins under a new number.
LEMMA GamesGoOn ==
  ASSUME IInv, [Next]_vars, NEW r \in Rooms
  PROVE  /\ game[r].id \in Nat /\ game'[r].id \in Nat
         /\ game'[r].id >= game[r].id
         /\ Active(r)' => Active(r) \/ game'[r].id > game[r].id
<1>0. TypeOK /\ TypeOK'
  BY TypeStep DEF IInv
<1>1. game[r].id \in Nat /\ game'[r].id \in Nat
  BY <1>0 DEF TypeOK, NoGame, StartedGames
<1>2. game'[r].id >= game[r].id
  BY <1>1, OpenerStep
<1>3. ASSUME ~Active(r), Active(r)', game'[r].id = game[r].id PROVE FALSE
  <2>1. ASSUME NEW p \in Players, NEW q \in Rooms, NEW o, endIfActive(q, p, o) PROVE FALSE
    BY <1>0, <1>3, <2>1, EndFacts DEF Active
  <2>2. ASSUME NEW q \in Rooms, NEW first, startGame(q, first) PROVE FALSE
    BY <1>0, <1>1, <1>3, <2>2, StartFacts DEF Active
  <2>3. ASSUME NEW p \in Players, NEW q \in Rooms, handleMakeMove(p, q) PROVE FALSE
    <3>1. Active(q) /\ q # r
      BY <1>3, <2>3 DEF handleMakeMove
    <3>2. game'[r] = game[r]
      BY <1>0, <2>3, <3>1, TurnFacts, FinishFacts DEF handleMakeMove
    <3>3. QED
      BY <1>3, <3>2 DEF Active
  <2>4. UNCHANGED game => FALSE
    BY <1>3 DEF Active
  <2>5. QED
    BY <2>1, <2>2, <2>3, <2>4 DEF Next, vars, handleAuth, closeUnnoticed,
       handleDisconnect, handleJoinRoom, handleLeaveRoom, handlePlayerReady,
       handleRequestRematch, handleAcceptRematch, handleDeclineRematch, handleReconnect,
       purgeRoom, expireRematch, expireReconnectWindow
<1>4. QED
  BY <1>1, <1>2, <1>3

-----------------------------------------------------------------------------
(***************************************************************************)
(* The inductive invariant.  SettledPageIsRight does not hold by itself:   *)
(* a page is right as soon as it knows its room and waits for no RECONNECT *)
(* (KnowingIsRight), and it stays so because it is then in the room's list *)
(* of recipients.  A page gets there by a join, which finds no game in     *)
(* progress, or by a snapshot; a page in the lobby whose player has a slot *)
(* is astray.  A window that is still running when its player's page is    *)
(* right was armed in an earlier game (WindowsAreOld).                     *)
(***************************************************************************)
Knows(p, r) ==
  /\ Online(p)
  /\ page[p].roomId = r /\ Seated(p, r)
  /\ ~page[p].astray /\ "RECONNECT" \notin page[p].sent

Right(p, r) ==
  /\ page[p].view = view(game[r])
  /\ page[p].mySymbol = getSymbolForPlayer(r, p)
  /\ page[p].phase = "ACTIVE" <=> Active(r)
  /\ Listed(r, p)

\* Where the page of p is, compared with where its player is.
InPlace(p) ==
  /\ page[p].sent # {} => page[p].wsState = "AUTHENTICATED"
  /\ page[p].wsState = "OFFLINE" =>
       \/ page[p].phase = "RECONNECTING"
       \/ page[p].phase = "LOBBY" /\ page[p].roomId = NoRoom
  /\ \A r \in Rooms : Online(p) /\ Seated(p, r) =>
       /\ page[p].roomId = r
       /\ page[p].phase = "LOBBY" => page[p].astray

PageInv(p) == InPlace(p) /\ \A r \in Rooms : Knows(p, r) => Right(p, r)

WindowsAreOld ==
  \A p \in Watched, r \in Rooms : p \in window[r] =>
    /\ armedIn[p] \in 1..game[r].id
    /\ Knows(p, r) /\ Active(r) => armedIn[p] < game[r].id

\* The invariant of the rooms, and what the pages' steps add to it.
RoomsInv == IInv /\ purged = {} /\ KnownSlots

PInv ==
  /\ RoomsInv
  /\ PageTypeOK
  /\ \A p \in Watched : PageInv(p)
  /\ WindowsAreOld

\* What a step leaves behind at the page of p.
Kept(p) ==
  /\ PageInv(p)'
  /\ \A r \in Rooms : Knows(p, r)' => \/ Knows(p, r)
                                       \/ ~Active(r)'
                                       \/ p \notin window'[r]

\* Pages start in the lobby, in rooms without players.
LEMMA PageInvInit == PageInit => PInv
<1> SUFFICES ASSUME PageInit PROVE PInv
  OBVIOUS
<1>1. RoomsInv
  BY InvInit DEF PageInit, RoomsInv, Init, KnownSlots, Seated, getSymbolForPlayer, Symbols
<1>2. view(NoGame) \in Views
  BY DEF view, NoGame, Views
<1>3. INITIAL_STATE \in ClientStates
  BY <1>2 DEF INITIAL_STATE, ClientStates
<1>4. PageTypeOK
  BY <1>3 DEF PageInit, PageTypeOK
<1>5. \A p \in Watched : PageInv(p)
  BY DEF PageInit, Init, PageInv, InPlace, Knows, Online, INITIAL_STATE
<1>6. WindowsAreOld
  BY DEF PageInit, Init, WindowsAreOld
<1>7. QED
  BY <1>1, <1>4, <1>5, <1>6 DEF PInv

-----------------------------------------------------------------------------
\* What a step does to a page.

\* The page of p becomes c, but for the request it may send for events it missed.
Becomes(p, c) ==
  /\ page'[p].wsState = c.wsState /\ page'[p].roomId = c.roomId
  /\ page'[p].mySymbol = c.mySymbol /\ page'[p].phase = c.phase
  /\ page'[p].view = c.view /\ page'[p].astray = c.astray
  /\ "RECONNECT" \in page'[p].sent <=> "RECONNECT" \in c.sent
  /\ page'[p].sent # c.sent => Online(p)

\* What a page becomes when an event reaches it or is missed.
LEMMA DeliverFacts ==
  ASSUME NEW r, NEW new, \A q \in Watched : new[q] \in ClientStates, deliver(r, new)
  PROVE  /\ page' \in [Watched -> ClientStates]
         /\ \A q \in Watched : Becomes(q, new[q])
<1>1. PICK gaps \in SUBSET {q \in Watched : Online(q) /\ page[q].roomId = r} :
        page' = [q \in Watched |->
          IF q \in gaps THEN [new[q] EXCEPT !.sent = @ \cup {"SYNC_REQUEST"}] ELSE new[q]]
  BY DEF deliver
<1>2. ASSUME NEW q \in Watched
      PROVE  page'[q] \in ClientStates /\ Becomes(q, new[q])
  <2>1. CASE q \in gaps
    <3> DEFINE d == [new[q] EXCEPT !.sent = @ \cup {"SYNC_REQUEST"}]
    <3>1. page'[q] = d /\ Online(q)
      BY <1>1, <2>1
    <3>2. /\ d \in ClientStates
          /\ d.wsState = new[q].wsState /\ d.roomId = new[q].roomId
          /\ d.mySymbol = new[q].mySymbol /\ d.phase = new[q].phase
          /\ d.view = new[q].view /\ d.astray = new[q].astray
          /\ d.sent = new[q].sent \cup {"SYNC_REQUEST"}
      BY DEF ClientStates
    <3> HIDE DEF d
    <3>3. QED
      BY <3>1, <3>2 DEF Becomes
  <2>2. CASE q \notin gaps
    <3>1. page'[q] = new[q]
      BY <1>1, <2>2
    <3>2. QED
      BY <3>1 DEF Becomes
  <2>3. QED
    BY <2>1, <2>2
<1>3. QED
  BY <1>1, <1>2

\* The page of p stays where it is: no room, connection or RECONNECT of its own.
Quiet(p) ==
  /\ page'[p].wsState = page[p].wsState /\ page'[p].roomId = page[p].roomId
  /\ page'[p].astray = page[p].astray
  /\ "RECONNECT" \in page'[p].sent <=> "RECONNECT" \in page[p].sent
  /\ page'[p].sent # {} => page[p].sent # {} \/ Online(p)
  /\ page'[p].phase = page[p].phase \/ (Online(p) /\ page'[p].phase # "LOBBY")

\* Such a page is in place as it was, and knows no room it did not know.
LEMMA QuietKept ==
  ASSUME NEW p \in Watched, PageInv(p), Quiet(p),
         p \in linked' => p \in linked,
         \A r \in Rooms : Seated(p, r)' => Seated(p, r),
         \A r \in Rooms : Knows(p, r) /\ Right(p, r) /\ Knows(p, r)' => Right(p, r)'
  PROVE  Kept(p)
<1>1. Online(p)' => Online(p)
  BY DEF Quiet, Online
<1>2. \A r \in Rooms : Knows(p, r)' => Knows(p, r)
  BY <1>1 DEF Quiet, Knows
<1>3. InPlace(p)'
  BY <1>1 DEF PageInv, InPlace, Quiet, Online
<1>4. QED
  BY <1>2, <1>3 DEF PageInv, Kept

-----------------------------------------------------------------------------
\* The reducer.

LEMMA ViewType ==
  ASSUME NEW g \in GameStates PROVE view(g) \in Views
<1>1. CASE g = NoGame
  BY <1>1 DEF view, NoGame, Views
<1>2. CASE g \in StartedGames
  BY <1>2 DEF view, StartedGames, Views
<1>3. QED
  BY <1>1, <1>2 DEF GameStates

\* An event of the room keeps the page where it is.
Stays(c, d) ==
  /\ d \in ClientStates
  /\ d.wsState = c.wsState /\ d.roomId = c.roomId /\ d.mySymbol = c.mySymbol
  /\ d.astray = c.astray /\ d.sent = c.sent

\* What the reducer makes of events of the room.
LEMMA ReducerFacts ==
  ASSUME NEW c \in ClientStates
  PROVE  /\ LET d == playerJoined(c) IN
            Stays(c, d) /\ d.view = c.view /\ d.phase = "READY_CHECK"
         /\ LET d == playerLeft(c) IN
            Stays(c, d) /\ d.view = c.view /\ d.phase = "WAITING_FOR_PLAYER"
         /\ LET d == gameFinished(c) IN
            /\ Stays(c, d) /\ d.phase = "FINISHED"
            /\ d.view.id = c.view.id /\ d.view.turn = c.view.turn
            /\ d.view.status = "FINISHED" /\ d.view \in Views
BY DEF playerJoined, playerLeft, gameFinished, Stays, ClientStates, Views

\* A page takes a new game as it is.
LEMMA StartedFacts ==
  ASSUME NEW c \in ClientStates, NEW g \in GameStates
  PROVE  LET d == gameStarted(c, g) IN
         Stays(c, d) /\ d.view = view(g) /\ d.phase = "ACTIVE"
BY ViewType DEF gameStarted, Stays, ClientStates

\* A page takes a move as it takes a new turn.
LEMMA TurnType ==
  ASSUME NEW c \in ClientStates, NEW t \in Symbols \cup {NoSymbol}
  PROVE  LET d == [c EXCEPT !.view.turn = t] IN
         /\ Stays(c, d) /\ d.phase = c.phase
         /\ d.view.id = c.view.id /\ d.view.status = c.view.status
         /\ d.view.turn = t
BY DEF Stays, ClientStates, Views

-----------------------------------------------------------------------------
(***************************************************************************)
(* What each handler leaves behind at every page, given what its events    *)
(* make of it.                                                             *)
(***************************************************************************)
\* What is used of the invariant all the time.
LEMMA Basics ==
  ASSUME PInv
  PROVE  /\ TypeOK /\ PageTypeOK /\ OneSeatPerRoom /\ FreeSlotsAreClean
         /\ \A r \in Rooms : Active(r) => BothSeated(r) /\ game[r].player = seat[r]
         /\ \A p \in Watched : page[p] \in ClientStates /\ PageInv(p)
         /\ \A p \in Players, q, r \in Rooms : Seated(p, q) /\ Seated(p, r) => q = r
BY DEF PInv, RoomsInv, IInv, ActiveGameSeated, PageTypeOK, KnownSlots

\* Who is listed in a room has a slot there.
LEMMA ListedIsSeated ==
  ASSUME TypeOK, NEW r \in Rooms, NEW q \in Players, Listed(r, q)
  PROVE  Seated(q, r)
BY DEF Listed, Seated, TypeOK, Symbols, NoSymbol

\* Nobody joins a game in progress.
LEMMA JoinKept ==
  ASSUME PInv, NEW p \in Players, NEW r \in Rooms, handleJoinRoom(p, r),
         NEW q \in Watched,
         IF q = p
         THEN /\ Online(p)
              /\ Becomes(p, roomJoined(page[p], r, getSymbolForPlayer(r, p)',
                                       BothSeated(r)', game[r]))
         ELSE Becomes(q, IF Online(q) /\ Seated(q, r) THEN playerJoined(page[q])
                         ELSE page[q])
  PROVE  Kept(q)
<1>0. /\ addPlayer(r, p) /\ ~Seated(p, r) /\ UNCHANGED <<linked, game, window>>
      /\ sessionRoom[p] \in {NoRoom, r}
  BY DEF handleJoinRoom
<1>1. /\ Seated(p, r)'
      /\ getSymbolForPlayer(r, p)' \in connected'[r]
      /\ \A z \in Players, s \in Rooms : <<z, s>> # <<p, r>> =>
           getSymbolForPlayer(s, z)' = getSymbolForPlayer(s, z)
      /\ \A s \in Rooms : connected[s] \subseteq connected'[s]
  BY <1>0, Basics, AddedIsSeated
<1>2. ~Active(r) /\ ~Active(r)'
  BY <1>0, Basics, AddFacts DEF Active
<1>3. CASE q = p
  <2> DEFINE d == roomJoined(page[p], r, getSymbolForPlayer(r, p)', BothSeated(r)', game[r])
  <2>1. /\ d.wsState = page[p].wsState /\ d.roomId = r
        /\ d.mySymbol = getSymbolForPlayer(r, p)' /\ d.view = view(game[r])
        /\ d.astray = page[p].astray /\ d.sent = page[p].sent
        /\ d.phase \in {"READY_CHECK", "WAITING_FOR_PLAYER"}
    BY <1>3, Basics DEF roomJoined, ClientStates
  <2>2. Becomes(p, d) /\ Online(p)
    BY <1>3
  <2> HIDE DEF d
  <2>3. \A s \in Rooms : Seated(p, s)' => s = r
    BY <1>0, <1>1, Basics DEF Seated, PInv, RoomsInv, KnownSlots
  <2>4. InPlace(p)'
    BY <2>1, <2>2, <2>3 DEF InPlace, Becomes, Online
  <2>5. \A s \in Rooms : Knows(p, s)' => s = r /\ Right(p, s)'
    BY <1>0, <1>1, <1>2, <2>1, <2>2, <2>3 DEF Knows, Right, Becomes, Listed, Online, Active
  <2>6. QED
    BY <1>2, <1>3, <2>4, <2>5 DEF Kept, PageInv
<1>4. CASE q # p
  <2> DEFINE d == IF Online(q) /\ Seated(q, r) THEN playerJoined(page[q]) ELSE page[q]
  <2>1. /\ Stays(page[q], d) /\ d.view = page[q].view
        /\ d.phase = page[q].phase \/ (Online(q) /\ Seated(q, r) /\ d.phase = "READY_CHECK")
    BY Basics, ReducerFacts DEF Stays
  <2>2. Becomes(q, d)
    BY <1>4
  <2> HIDE DEF d
  <2>3. Quiet(q)
    BY <2>1, <2>2 DEF Quiet, Becomes, Stays
  <2>4. \A s \in Rooms : Seated(q, s)' <=> Seated(q, s)
    BY <1>1, <1>4 DEF Seated
  <2>5. ASSUME NEW s \in Rooms, Knows(q, s), Right(q, s), Knows(q, s)'
        PROVE  Right(q, s)'
    <3>1. /\ page'[q].view = view(game'[s])
          /\ page'[q].mySymbol = getSymbolForPlayer(s, q)'
      BY <1>0, <1>1, <1>4, <2>1, <2>2, <2>5 DEF Right, Becomes, Stays
    <3>2. Listed(s, q)'
      BY <1>1, <1>4, <2>5 DEF Right, Listed, Knows
    <3>3. page'[q].phase = "ACTIVE" <=> Active(s)'
      BY <1>0, <1>2, <2>1, <2>2, <2>5, Basics DEF Right, Knows, Becomes, Active
    <3>4. QED
      BY <3>1, <3>2, <3>3 DEF Right
  <2>6. QED
    BY <1>0, <2>3, <2>4, <2>5, Basics, QuietKept
<1>5. QED
  BY <1>3, <1>4

\* The verdict of a game that is given up is all that is new about it.
LEMMA EndView ==
  ASSUME TypeOK, NEW r \in Rooms, NEW p \in Players, NEW o, endIfActive(r, p, o)
  PROVE  /\ view(game'[r]) = [view(game[r]) EXCEPT
              !.status = IF Active(r) THEN "FINISHED" ELSE @]
         /\ \A s \in Rooms \ {r} : game'[s] = game[s]
         /\ ~Active(r)'
<1>1. CASE Active(r)
  <2> DEFINE w == winnerWithout(r, p)
  <2>1. finishGame(r, o, w)
    BY <1>1 DEF endIfActive
  <2> HIDE DEF w
  <2>2. /\ game'[r].status = "FINISHED"
        /\ game'[r].id = game[r].id /\ game'[r].turn = game[r].turn
        /\ \A s \in Rooms \ {r} : game'[s] = game[s]
    BY <1>1, <2>1, FinishFacts
  <2>3. QED
    BY <1>1, <2>2 DEF view, Active
<1>2. CASE ~Active(r)
  BY <1>2 DEF endIfActive, Active, view
<1>3. QED
  BY <1>1, <1>2

\* A game is over before one of its players loses the slot, and whoever stays is
\* told so before the other one is said to have left.
LEMMA LeaveKept ==
  ASSUME PInv, NEW p \in Players, NEW r \in Rooms, NEW o,
         endIfActive(r, p, o), removePlayer(r, p), UNCHANGED linked,
         NEW q \in Watched, NEW c \in ClientStates, Becomes(q, c), Stays(page[q], c),
         \/ c.view = page[q].view /\ c.phase = page[q].phase /\ (~Listed(r, q) \/ q = p)
         \/ /\ Online(q) /\ Seated(q, r)
            /\ c.phase = "WAITING_FOR_PLAYER"
            /\ c.view = IF Listed(r, q) /\ Active(r)
                        THEN [page[q].view EXCEPT !.status = "FINISHED"] ELSE page[q].view
  PROVE  Kept(q)
<1>1. /\ view(game'[r]) = [view(game[r]) EXCEPT
           !.status = IF Active(r) THEN "FINISHED" ELSE @]
      /\ \A s \in Rooms \ {r} : game'[s] = game[s]
      /\ ~Active(r)'
  BY Basics, EndView
<1>2. /\ ~Seated(p, r)'
      /\ \A z \in Players, s \in Rooms : Seated(z, s)' => Seated(z, s)
      /\ \A z \in Players \ {p}, s \in Rooms :
           getSymbolForPlayer(s, z)' = getSymbolForPlayer(s, z)
  BY Basics, RemovedIsGone
<1>3. /\ \A s \in Rooms \ {r} : seat'[s] = seat[s] /\ connected'[s] = connected[s]
      /\ connected'[r] = connected[r] \ {getSymbolForPlayer(r, p)}
  BY Basics, RemoveFacts
<1>4. Quiet(q)
  BY DEF Quiet, Becomes, Stays
<1>5. ASSUME NEW s \in Rooms, Knows(q, s), Right(q, s), Knows(q, s)'
      PROVE  Right(q, s)'
  <2>1. Seated(q, s) /\ Seated(q, s)' /\ q \in linked'
    BY <1>5 DEF Knows, Online
  <2>2. CASE s # r
    <3>1. ~Seated(q, r)
      BY <2>1, <2>2, Basics
    <3>2. c.view = page[q].view /\ c.phase = page[q].phase
      BY <3>1
    <3>3. getSymbolForPlayer(s, q)' = getSymbolForPlayer(s, q)
      BY <1>3, <2>2 DEF getSymbolForPlayer
    <3>4. QED
      BY <1>1, <1>3, <1>5, <2>2, <3>2, <3>3
      DEF Right, Knows, Becomes, Stays, Listed, Active
  <2>3. CASE s = r
    <3>1. q # p
      BY <1>2, <2>1, <2>3
    <3>2. getSymbolForPlayer(r, q)' = getSymbolForPlayer(r, q)
      BY <1>2, <3>1
    <3>3. getSymbolForPlayer(r, q) # getSymbolForPlayer(r, p)
      BY <2>1, <2>3, <3>1 DEF Seated, getSymbolForPlayer, NoSymbol
    <3>4. Listed(r, q)'
      BY <1>3, <1>5, <2>3, <3>2, <3>3 DEF Right, Listed, Knows
    <3>5. Listed(r, q) /\ page[q].view = view(game[r])
      BY <1>5, <2>3 DEF Right
    <3>6. c.phase = "WAITING_FOR_PLAYER" /\ c.view = view(game'[r])
      BY <1>1, <3>1, <3>5 DEF view
    <3>7. page'[q].mySymbol = getSymbolForPlayer(r, q)'
      BY <1>5, <2>3, <3>2 DEF Right, Becomes, Stays
    <3>8. QED
      BY <1>1, <2>3, <3>4, <3>6, <3>7 DEF Right, Becomes
  <2>4. QED
    BY <2>2, <2>3
<1>6. QED
  BY <1>2, <1>4, <1>5, Basics, QuietKept

\* The next game shows on every page that is listed.
LEMMA StartKept ==
  ASSUME PInv, NEW r \in Rooms, NEW first \in Symbols, TypeOK',
         startGame(r, first) \/ UNCHANGED game, UNCHANGED <<linked, seat, connected>>,
         NEW q \in Watched,
         Becomes(q, IF Listed(r, q) /\ game'[r].id # game[r].id
                    THEN gameStarted(page[q], game'[r]) ELSE page[q])
  PROVE  Kept(q)
<1> DEFINE starts == Listed(r, q) /\ game'[r].id # game[r].id
           c == IF starts THEN gameStarted(page[q], game'[r]) ELSE page[q]
<1>1. game'[r] \in GameStates
  BY DEF TypeOK, GameStates
<1>2. /\ Stays(page[q], c)
      /\ starts => c.view = view(game'[r]) /\ c.phase = "ACTIVE" /\ Online(q)
      /\ ~starts => c.view = page[q].view /\ c.phase = page[q].phase
  BY <1>1, Basics, StartedFacts DEF Stays, Listed
<1>3. Becomes(q, c)
  OBVIOUS
<1>4. /\ \A s \in Rooms \ {r} : game'[s] = game[s]
      /\ game'[r] = game[r] \/ (game'[r].status = "ACTIVE" /\ game'[r].id = game[r].id + 1)
  BY Basics, StartFacts
<1>5. game[r].id \in Nat
  BY Basics, IdFacts
<1> HIDE DEF c, starts
<1>6. Quiet(q)
  BY <1>2, <1>3 DEF Quiet, Becomes, Stays
<1>7. \A s \in Rooms : /\ getSymbolForPlayer(s, q)' = getSymbolForPlayer(s, q)
                       /\ Listed(s, q) /\ Online(q)' => Listed(s, q)'
  BY DEF getSymbolForPlayer, Listed
<1>8. ASSUME NEW s \in Rooms, Knows(q, s), Right(q, s), Knows(q, s)'
      PROVE  Right(q, s)'
  <2>1. /\ Listed(s, q)' /\ Listed(s, q)
        /\ page'[q].mySymbol = getSymbolForPlayer(s, q)'
    BY <1>2, <1>3, <1>7, <1>8 DEF Right, Knows, Becomes, Stays
  <2>2. CASE game'[s] = game[s]
    <3>1. ~starts
      BY <1>8, <2>1, <2>2, Basics, ListedIsSeated DEF starts
    <3>2. QED
      BY <1>2, <1>3, <1>8, <2>1, <2>2, <3>1 DEF Right, Becomes, Active
  <2>3. CASE game'[s] # game[s]
    <3>1. s = r /\ starts /\ game'[r].status = "ACTIVE"
      BY <1>4, <1>5, <2>1, <2>3 DEF starts
    <3>2. QED
      BY <1>2, <1>3, <2>1, <3>1 DEF Right, Becomes, Active
  <2>4. QED
    BY <2>2, <2>3
<1>9. \A s \in Rooms : Seated(q, s)' <=> Seated(q, s)
  BY <1>7 DEF Seated
<1>10. QED
  BY <1>6, <1>8, <1>9, Basics, QuietKept

\* A move changes whose turn it is, or ends the game.
LEMMA MoveView ==
  ASSUME TypeOK, NEW p \in Players, NEW r \in Rooms, handleMakeMove(p, r)
  PROVE  /\ Active(r) /\ \A s \in Rooms \ {r} : game'[s] = game[s]
         /\ view(game'[r]).id = view(game[r]).id
         /\ Active(r)' <=> ~Finished(r)'
         /\ view(game'[r]).status = IF Finished(r)' THEN "FINISHED" ELSE "ACTIVE"
         /\ view(game'[r]).turn = game'[r].turn
         /\ UNCHANGED <<linked, seat, connected, window>>
<1>1. Active(r) /\ UNCHANGED <<linked, seat, connected, window>>
  BY DEF handleMakeMove
<1>2. CASE game' = [game EXCEPT ![r].turn = opponent(game[r].turn)]
  BY <1>1, <1>2, TurnFacts DEF view, Active, Finished
<1>3. ASSUME NEW o, NEW w, finishGame(r, o, w)
      PROVE  /\ game'[r].id = game[r].id /\ game'[r].status = "FINISHED"
             /\ \A s \in Rooms \ {r} : game'[s] = game[s]
  BY <1>1, <1>3, FinishFacts
<1>4. CASE ~(game' = [game EXCEPT ![r].turn = opponent(game[r].turn)])
  BY <1>1, <1>3, <1>4 DEF handleMakeMove, view, Active, Finished
<1>5. QED
  BY <1>2, <1>4

\* Every listed page sees the move and the end it makes.
LEMMA MoveKept ==
  ASSUME PInv, NEW p \in Players, NEW r \in Rooms, TypeOK', handleMakeMove(p, r),
         NEW q \in Watched,
         LET moved == [page[q] EXCEPT !.view.turn = game'[r].turn] IN
         Becomes(q,
           IF Listed(r, q) /\ Finished(r)' THEN gameFinished(moved)
           ELSE IF Listed(r, q) \/ (q = p /\ Online(p))
           THEN [moved EXCEPT !.pendingMove = @ /\ q # p]
           ELSE page[q])
  PROVE  Kept(q)
<1> DEFINE moved == [page[q] EXCEPT !.view.turn = game'[r].turn]
           acked == [moved EXCEPT !.pendingMove = @ /\ q # p]
           c == IF Listed(r, q) /\ Finished(r)' THEN gameFinished(moved)
                ELSE IF Listed(r, q) \/ (q = p /\ Online(p)) THEN acked ELSE page[q]
<1>1. game'[r].turn \in Symbols \cup {NoSymbol}
  BY DEF TypeOK, NoGame, StartedGames
<1>2. /\ Stays(page[q], moved) /\ moved.phase = page[q].phase
      /\ moved.view.id = page[q].view.id /\ moved.view.status = page[q].view.status
      /\ moved.view.turn = game'[r].turn
  BY <1>1, Basics, TurnType
<1>3. moved \in ClientStates
  BY <1>2 DEF Stays
<1>4. Becomes(q, c)
  OBVIOUS
<1> HIDE DEF moved
<1>5. Stays(page[q], acked) /\ acked.phase = page[q].phase /\ acked.view = moved.view
  BY <1>2, <1>3 DEF Stays, ClientStates
<1>6. LET d == gameFinished(moved) IN
      /\ Stays(page[q], d) /\ d.phase = "FINISHED" /\ d.view \in Views
      /\ d.view.id = page[q].view.id /\ d.view.turn = game'[r].turn
      /\ d.view.status = "FINISHED"
  BY <1>2, <1>3, ReducerFacts DEF Stays
<1> DEFINE shows == [id |-> page[q].view.id,
                     status |-> IF Finished(r)' THEN "FINISHED" ELSE page[q].view.status,
                     turn |-> game'[r].turn]
<1>7. moved.view \in Views
  BY <1>3 DEF ClientStates
<1>8. /\ Stays(page[q], c)
      /\ Listed(r, q) => /\ c.view = shows
                         /\ c.phase = IF Finished(r)' THEN "FINISHED" ELSE page[q].phase
      /\ c.phase = page[q].phase \/ (Online(q) /\ c.phase = "FINISHED")
      /\ ~Listed(r, q) => c.phase = page[q].phase
  <2>1. CASE Listed(r, q) /\ Finished(r)'
    BY <1>6, <2>1 DEF Views, Listed
  <2>2. CASE Listed(r, q) /\ ~Finished(r)'
    BY <1>2, <1>5, <1>7, <2>2 DEF Views
  <2>3. CASE ~Listed(r, q)
    BY <1>5, <2>3, Basics DEF Stays
  <2>4. QED
    BY <2>1, <2>2, <2>3
<1>9. ~Seated(q, r) /\ q # p => c.view = page[q].view
  BY Basics, ListedIsSeated
<1> HIDE DEF c, acked
<1>10. /\ Active(r) /\ \A s \in Rooms \ {r} : game'[s] = game[s]
       /\ view(game'[r]).id = view(game[r]).id
       /\ Active(r)' <=> ~Finished(r)'
       /\ view(game'[r]).status = IF Finished(r)' THEN "FINISHED" ELSE "ACTIVE"
       /\ view(game'[r]).turn = game'[r].turn
       /\ UNCHANGED <<linked, seat, connected, window>>
  BY Basics, MoveView
<1>11. Quiet(q)
  BY <1>4, <1>8 DEF Quiet, Becomes, Stays
<1>12. \A s \in Rooms : /\ getSymbolForPlayer(s, q)' = getSymbolForPlayer(s, q)
                        /\ Listed(s, q) /\ Online(q)' => Listed(s, q)'
  BY <1>10 DEF getSymbolForPlayer, Listed
<1>13. p = game[r].player[game[r].turn] /\ game[r].turn \in Symbols
  BY Basics, ActiveIsStarted DEF handleMakeMove, StartedGames
<1>14. Seated(p, r)
  BY <1>10, <1>13, Basics DEF Seated, getSymbolForPlayer, Symbols, NoSymbol
<1>15. ASSUME NEW s \in Rooms, Knows(q, s), Right(q, s), Knows(q, s)'
       PROVE  Right(q, s)'
  <2>1. /\ Listed(s, q)' /\ Listed(s, q)
        /\ page'[q].mySymbol = getSymbolForPlayer(s, q)'
    BY <1>4, <1>8, <1>12, <1>15 DEF Right, Knows, Becomes, Stays
  <2>2. CASE s = r
    <3>1. c.view = view(game'[r])
      <4>1. c.view = [id |-> view(game[r]).id,
                      status |-> IF Finished(r)' THEN "FINISHED" ELSE view(game[r]).status,
                      turn |-> game'[r].turn]
        BY <1>8, <1>15, <2>1, <2>2 DEF Right
      <4>2. view(game[r]).status = "ACTIVE"
        BY <1>10 DEF view, Active
      <4>3. QED
        BY <1>10, <4>1, <4>2 DEF view
    <3>2. c.phase = "ACTIVE" <=> Active(r)'
      BY <1>8, <1>10, <1>15, <2>1, <2>2 DEF Right
    <3>3. QED
      BY <1>4, <2>1, <2>2, <3>1, <3>2 DEF Right, Becomes
  <2>3. CASE s # r
    <3>1. ~Seated(q, r) /\ q # p /\ ~Listed(r, q)
      BY <1>14, <2>1, <2>3, Basics, ListedIsSeated
    <3>2. c.view = page[q].view /\ c.phase = page[q].phase
      BY <1>8, <1>9, <3>1
    <3>3. QED
      BY <1>4, <1>10, <1>15, <2>1, <2>3, <3>2 DEF Right, Becomes, Active
  <2>4. QED
    BY <2>2, <2>3
<1>16. \A s \in Rooms : Seated(q, s)' <=> Seated(q, s)
  BY <1>12 DEF Seated
<1>17. QED
  BY <1>10, <1>11, <1>15, <1>16, Basics, QuietKept

\* A page that is told nothing of the games and slots stays as right as it was.
LEMMA SameKept ==
  ASSUME PInv, UNCHANGED <<seat, game>>, NEW q \in Watched, Becomes(q, page[q]),
         q \in linked' => q \in linked,
         \A s \in Rooms : q \in linked' /\ getSymbolForPlayer(s, q) \in connected[s] =>
                            getSymbolForPlayer(s, q) \in connected'[s]
  PROVE  Kept(q)
<1>1. Quiet(q)
  BY DEF Quiet, Becomes
<1>2. \A s \in Rooms : getSymbolForPlayer(s, q)' = getSymbolForPlayer(s, q)
  BY DEF getSymbolForPlayer
<1>3. \A s \in Rooms : Seated(q, s)' <=> Seated(q, s)
  BY <1>2 DEF Seated
<1>4. ASSUME NEW s \in Rooms, Knows(q, s), Right(q, s), Knows(q, s)'
      PROVE  Right(q, s)'
  <2>1. Listed(s, q)'
    BY <1>2, <1>4 DEF Right, Knows, Listed, Online
  <2>2. QED
    BY <1>2, <1>4, <2>1 DEF Right, Becomes, Active
<1>5. QED
  BY <1>1, <1>3, <1>4, Basics, QuietKept

\* A page that is not connected, or whose player has no slot, can be wrong about
\* nothing.
LEMMA NowhereKept ==
  ASSUME NEW q \in Watched,
         \A s \in Rooms : ~(Online(q)' /\ Seated(q, s)'),
         page'[q].sent # {} => page'[q].wsState = "AUTHENTICATED",
         page'[q].wsState = "OFFLINE" =>
           \/ page'[q].phase = "RECONNECTING"
           \/ page'[q].phase = "LOBBY" /\ page'[q].roomId = NoRoom
  PROVE  Kept(q)
BY DEF Kept, PageInv, InPlace, Knows

-----------------------------------------------------------------------------
(***************************************************************************)
(* What each step of the pages leaves behind.                              *)
(***************************************************************************)
PageStep ==
  /\ page' \in [Watched -> ClientStates]
  /\ \A q \in Watched : Kept(q)

\* A page on which a room's game is shown has its type.
LEMMA ShownType ==
  ASSUME TypeOK, NEW c \in ClientStates, NEW r \in Rooms,
         NEW s \in Symbols \cup {NoSymbol}, NEW both \in BOOLEAN
  PROVE  /\ roomJoined(c, r, s, both, game[r]) \in ClientStates
         /\ LET d == snapshot(c, s, both, game[r]) IN
            /\ d \in ClientStates
            /\ d.wsState = c.wsState /\ d.roomId = c.roomId /\ d.mySymbol = s
            /\ d.view = view(game[r]) /\ d.astray = c.astray /\ d.sent = c.sent
            /\ d.phase # "LOBBY" /\ d.phase # "RECONNECTING"
            /\ d.phase = "ACTIVE" <=> Active(r)
<1>1. view(game[r]) \in Views /\ game[r].status \in {"WAITING", "ACTIVE", "FINISHED"}
  <2>1. game[r] \in GameStates
    BY DEF TypeOK, GameStates
  <2>2. QED
    BY <2>1, ViewType DEF view, Views
<1>2. QED
  BY <1>1 DEF roomJoined, snapshot, ClientStates, Active

\* The symbol of a player in a room, or none.
LEMMA SymbolType ==
  ASSUME NEW r, NEW p
  PROVE  getSymbolForPlayer(r, p) \in Symbols \cup {NoSymbol}
BY DEF getSymbolForPlayer, Symbols

\* A page nothing reaches.
LEMMA SamePage ==
  ASSUME NEW q \in Watched, page'[q] = page[q]
  PROVE  Becomes(q, page[q])
BY DEF Becomes

\* A page joins a room, and the other page in it hears of it.
LEMMA JoinStep ==
  ASSUME PInv, NEW p \in Watched, NEW r \in Rooms, joinRoom(p, r)
  PROVE  PageStep
<1> DEFINE mine == roomJoined(page[p], r, getSymbolForPlayer(r, p)', BothSeated(r)', game[r])
           new == [q \in Watched |->
             IF q = p THEN mine
             ELSE IF Online(q) /\ Seated(q, r) THEN playerJoined(page[q])
             ELSE page[q]]
<1>1. Online(p) /\ handleJoinRoom(p, r) /\ deliver(r, new)
  BY DEF joinRoom
<1>2. mine \in ClientStates
  <2>1. getSymbolForPlayer(r, p)' \in Symbols \cup {NoSymbol}
    BY DEF getSymbolForPlayer, Symbols
  <2>2. BothSeated(r)' \in BOOLEAN
    BY DEF BothSeated
  <2>3. QED
    BY <2>1, <2>2, Basics, ShownType
<1> HIDE DEF mine
<1>3. \A q \in Watched : new[q] \in ClientStates
  BY <1>2, Basics, ReducerFacts DEF Stays
<1> HIDE DEF new
<1>4. /\ page' \in [Watched -> ClientStates]
      /\ \A q \in Watched : Becomes(q, new[q])
  BY <1>1, <1>3, DeliverFacts
<1>5. \A q \in Watched :
        IF q = p THEN Becomes(p, mine)
        ELSE Becomes(q, IF Online(q) /\ Seated(q, r) THEN playerJoined(page[q])
                        ELSE page[q])
  BY <1>4 DEF new
<1>6. \A q \in Watched : Kept(q)
  BY <1>1, <1>5, JoinKept DEF mine
<1>7. QED
  BY <1>4, <1>6 DEF PageStep

\* A page that forgot its room joins it again.
LEMMA RejoinStep ==
  ASSUME PInv, NEW p \in Watched, NEW r \in Rooms, rejoinRoom(p, r)
  PROVE  PageStep
<1> DEFINE mine == roomJoined(page[p], r, getSymbolForPlayer(r, p), BothSeated(r), game[r])
           new == [page EXCEPT ![p] = mine]
<1>1. /\ Online(p) /\ page[p].phase = "LOBBY" /\ Seated(p, r)
      /\ deliver(r, new) /\ UNCHANGED vars
  BY DEF rejoinRoom
<1>2. /\ mine \in ClientStates
      /\ mine.wsState = "AUTHENTICATED" /\ mine.roomId = r
      /\ mine.astray = page[p].astray /\ mine.sent = page[p].sent
      /\ mine.phase \in {"READY_CHECK", "WAITING_FOR_PLAYER"}
  <2>1. BothSeated(r) \in BOOLEAN
    BY DEF BothSeated
  <2>2. mine \in ClientStates
    BY <2>1, Basics, SymbolType, ShownType
  <2>3. QED
    BY <1>1, <2>2, Basics DEF roomJoined, ClientStates, Online
<1> HIDE DEF mine
<1>3. /\ \A q \in Watched : new[q] \in ClientStates
      /\ new[p] = mine /\ \A q \in Watched \ {p} : new[q] = page[q]
  BY <1>2, Basics DEF PInv, PageTypeOK
<1> HIDE DEF new
<1>4. /\ page' \in [Watched -> ClientStates]
      /\ \A q \in Watched : Becomes(q, new[q])
  BY <1>1, <1>3, DeliverFacts
<1>5. \A q \in Watched \ {p} : Kept(q)
  BY <1>1, <1>3, <1>4, SameKept DEF vars
<1>6. Kept(p)
  <2>1. page[p].astray
    BY <1>1, Basics DEF PageInv, InPlace
  <2>2. \A s \in Rooms : Seated(p, s)' => s = r
    BY <1>1, Basics DEF vars, Seated, getSymbolForPlayer
  <2>3. Becomes(p, mine)
    BY <1>3, <1>4
  <2>4. \A s \in Rooms : ~Knows(p, s)'
    BY <1>2, <2>1, <2>3 DEF Becomes, Knows
  <2>5. InPlace(p)'
    BY <1>1, <1>2, <2>2, <2>3 DEF Becomes, InPlace
  <2>6. QED
    BY <2>4, <2>5 DEF Kept, PageInv
<1>7. QED
  BY <1>4, <1>5, <1>6 DEF PageStep

\* The page of a player whose opponent leaves.
LEMMA OpponentLeftFacts ==
  ASSUME PInv, NEW r \in Rooms, NEW q \in Watched
  PROVE  LET c == opponentLeft(r, q) IN
         /\ c \in ClientStates /\ Stays(page[q], c)
         /\ \/ c.view = page[q].view /\ c.phase = page[q].phase /\ ~Listed(r, q)
            \/ /\ Online(q) /\ Seated(q, r)
               /\ c.phase = "WAITING_FOR_PLAYER"
               /\ c.view = IF Listed(r, q) /\ Active(r)
                           THEN [page[q].view EXCEPT !.status = "FINISHED"]
                           ELSE page[q].view
<1> DEFINE f == gameFinished(page[q])
           b == IF Listed(r, q) /\ Active(r) THEN f ELSE page[q]
<1>1. page[q] \in ClientStates /\ page[q].view \in Views
  BY Basics DEF ClientStates
<1>2. /\ Stays(page[q], f) /\ f.view \in Views
      /\ f.view.id = page[q].view.id /\ f.view.turn = page[q].view.turn
      /\ f.view.status = "FINISHED"
  BY <1>1, ReducerFacts
<1>3. f.view = [page[q].view EXCEPT !.status = "FINISHED"]
  BY <1>1, <1>2 DEF Views
<1> HIDE DEF f
<1>4. /\ Stays(page[q], b)
      /\ b.view = IF Listed(r, q) /\ Active(r)
                  THEN [page[q].view EXCEPT !.status = "FINISHED"] ELSE page[q].view
  BY <1>1, <1>2, <1>3 DEF Stays
<1>5. opponentLeft(r, q) = IF ~Online(q) \/ ~Seated(q, r) THEN page[q] ELSE playerLeft(b)
  BY DEF opponentLeft, f
<1> HIDE DEF b
<1>6. /\ Stays(b, playerLeft(b)) /\ playerLeft(b).view = b.view
      /\ playerLeft(b).phase = "WAITING_FOR_PLAYER"
  BY <1>4, ReducerFacts DEF Stays
<1>7. CASE ~Online(q) \/ ~Seated(q, r)
  BY <1>1, <1>5, <1>7, Basics, ListedIsSeated DEF Stays, Listed
<1>8. CASE Online(q) /\ Seated(q, r)
  BY <1>4, <1>5, <1>6, <1>8 DEF Stays
<1>9. QED
  BY <1>7, <1>8

\* A page that leaves shows the lobby, or at most a snapshot it had asked for.
LEMMA LeftType ==
  ASSUME TypeOK, PageTypeOK, NEW p \in Watched, NEW r \in Rooms
  PROVE  LET c == leftRoom(page[p])
             d == snapshot(c, ownSymbol(c), BothSeated(r), game[r])
         IN /\ c \in ClientStates /\ d \in ClientStates
            /\ c.wsState = page[p].wsState /\ c.roomId = NoRoom /\ c.sent = {}
            /\ d.wsState = page[p].wsState /\ d.roomId = NoRoom /\ d.sent = {}
<1> DEFINE c == leftRoom(page[p])
<1>1. view(NoGame) \in Views
  BY DEF view, NoGame, Views
<1>2. /\ c \in ClientStates
      /\ c.wsState = page[p].wsState /\ c.roomId = NoRoom /\ c.sent = {}
  BY <1>1 DEF leftRoom, INITIAL_STATE, ClientStates, PageTypeOK
<1> HIDE DEF c
<1>3. ownSymbol(c) \in Symbols \cup {NoSymbol} /\ BothSeated(r) \in BOOLEAN
  BY <1>2 DEF ownSymbol, ClientStates, Symbols, BothSeated
<1>4. LET d == snapshot(c, ownSymbol(c), BothSeated(r), game[r]) IN
      /\ d \in ClientStates
      /\ d.wsState = c.wsState /\ d.roomId = c.roomId /\ d.sent = c.sent
  BY <1>2, <1>3, ShownType
<1>5. QED
  BY <1>2, <1>4 DEF c

\* A page leaves its room, or one it had no slot in any more.
LEMMA LeaveStep ==
  ASSUME PInv, NEW p \in Watched, NEW r \in Rooms, leaveRoom(p, r)
  PROVE  PageStep
<1>0. page[p].wsState = "AUTHENTICATED" /\ page[p].roomId = r
  BY DEF leaveRoom
<1>1. CASE Online(p) /\ Seated(p, r)
  <2>1. handleLeaveRoom(p, r)
    BY <1>1 DEF leaveRoom
  <2>2. PICK mine \in {leftRoom(page[p]),
                       snapshot(leftRoom(page[p]), ownSymbol(leftRoom(page[p])),
                                BothSeated(r), game[r])} :
          deliver(r, [q \in Watched |->
            IF q = p THEN IF Listed(r, p) /\ Active(r) THEN gameFinished(mine) ELSE mine
            ELSE opponentLeft(r, q)])
    BY <1>1 DEF leaveRoom
  <2>3. /\ mine \in ClientStates /\ mine.wsState = "AUTHENTICATED"
        /\ mine.roomId = NoRoom /\ mine.sent = {}
    <3> DEFINE c == leftRoom(page[p])
               d == snapshot(c, ownSymbol(c), BothSeated(r), game[r])
    <3>1. /\ c \in ClientStates /\ d \in ClientStates
          /\ c.wsState = page[p].wsState /\ c.roomId = NoRoom /\ c.sent = {}
          /\ d.wsState = page[p].wsState /\ d.roomId = NoRoom /\ d.sent = {}
      BY Basics, LeftType
    <3>2. mine = c \/ mine = d
      BY <2>2
    <3> HIDE DEF c, d
    <3>3. QED
      BY <1>0, <3>1, <3>2
  <2> DEFINE last == IF Listed(r, p) /\ Active(r) THEN gameFinished(mine) ELSE mine
             new == [q \in Watched |-> IF q = p THEN last ELSE opponentLeft(r, q)]
  <2>4. /\ last \in ClientStates /\ last.wsState = "AUTHENTICATED"
        /\ last.roomId = NoRoom
    BY <2>3, ReducerFacts DEF Stays
  <2>5. deliver(r, new)
    BY <2>2
  <2> HIDE DEF last
  <2>6. \A q \in Watched : new[q] \in ClientStates
    BY <2>4, OpponentLeftFacts
  <2> HIDE DEF new
  <2>7. /\ page' \in [Watched -> ClientStates]
        /\ \A q \in Watched : Becomes(q, new[q])
    BY <2>5, <2>6, DeliverFacts
  <2>8. /\ endIfActive(r, p, "FORFEIT") /\ removePlayer(r, p) /\ UNCHANGED linked
    BY <2>1 DEF handleLeaveRoom
  <2>9. ASSUME NEW q \in Watched \ {p} PROVE Kept(q)
    <3> DEFINE c == opponentLeft(r, q)
    <3>1. Becomes(q, c)
      BY <2>7, <2>9 DEF new
    <3>2. /\ c \in ClientStates /\ Stays(page[q], c)
          /\ \/ c.view = page[q].view /\ c.phase = page[q].phase /\ ~Listed(r, q)
             \/ /\ Online(q) /\ Seated(q, r)
                /\ c.phase = "WAITING_FOR_PLAYER"
                /\ c.view = IF Listed(r, q) /\ Active(r)
                            THEN [page[q].view EXCEPT !.status = "FINISHED"]
                            ELSE page[q].view
      BY OpponentLeftFacts
    <3> HIDE DEF c
    <3>3. QED
      BY <2>8, <3>1, <3>2, LeaveKept
  <2>10. Kept(p)
    <3>1. Becomes(p, last)
      BY <2>7 DEF new
    <3>2. \A s \in Rooms : ~Seated(p, s)'
      BY <1>1, <2>8, Basics, RemovedIsGone
    <3>3. QED
      BY <2>4, <3>1, <3>2, NowhereKept DEF Becomes
  <2>11. QED
    BY <2>7, <2>9, <2>10 DEF PageStep
<1>2. CASE ~(Online(p) /\ Seated(p, r))
  <2>1. page' = [page EXCEPT ![p] = leftRoom(@)] /\ UNCHANGED vars
    BY <1>2 DEF leaveRoom
  <2>2. /\ leftRoom(page[p]) \in ClientStates
        /\ leftRoom(page[p]).wsState = "AUTHENTICATED"
    BY <1>0, Basics, LeftType
  <2>3. /\ page' \in [Watched -> ClientStates]
        /\ page'[p] = leftRoom(page[p])
        /\ \A q \in Watched \ {p} : page'[q] = page[q]
    BY <2>1, <2>2 DEF PInv, PageTypeOK
  <2>4. \A q \in Watched \ {p} : Kept(q)
    BY <2>1, <2>3, SamePage, SameKept DEF vars
  <2>5. \A s \in Rooms : ~(Online(p)' /\ Seated(p, s)')
    <3>1. \A s \in Rooms : Online(p) /\ Seated(p, s) => s = r
      BY <1>0, Basics DEF PageInv, InPlace
    <3>2. Online(p)' => Online(p)
      BY <1>0, <2>1 DEF Online, vars
    <3>3. \A s \in Rooms : Seated(p, s)' <=> Seated(p, s)
      BY <2>1 DEF vars, Seated, getSymbolForPlayer
    <3>4. QED
      BY <1>2, <3>1, <3>2, <3>3
  <2>6. Kept(p)
    BY <2>2, <2>3, <2>5, NowhereKept
  <2>7. QED
    BY <2>3, <2>4, <2>6 DEF PageStep
<1>3. QED
  BY <1>1, <1>2

\* PLAYER_READY, a rematch that is accepted, and what else may start a game.
LEMMA StartStep ==
  ASSUME PInv, TypeOK', NEW r \in Rooms, NEW first \in Symbols,
         startGame(r, first) \/ UNCHANGED game, UNCHANGED <<linked, seat, connected>>,
         deliverStart(r)
  PROVE  PageStep
<1> DEFINE new == [q \in Watched |->
             IF Listed(r, q) /\ game'[r].id # game[r].id THEN gameStarted(page[q], game'[r])
             ELSE page[q]]
<1>1. deliver(r, new)
  BY DEF deliverStart
<1>2. game'[r] \in GameStates
  BY DEF TypeOK, GameStates
<1>3. \A q \in Watched : new[q] \in ClientStates
  BY <1>2, Basics, StartedFacts DEF Stays
<1> HIDE DEF new
<1>4. /\ page' \in [Watched -> ClientStates]
      /\ \A q \in Watched : Becomes(q, new[q])
  BY <1>1, <1>3, DeliverFacts
<1>5. \A q \in Watched :
        Becomes(q, IF Listed(r, q) /\ game'[r].id # game[r].id
                   THEN gameStarted(page[q], game'[r]) ELSE page[q])
  BY <1>4 DEF new
<1>6. \A q \in Watched : Kept(q)
  BY <1>5, StartKept
<1>7. QED
  BY <1>4, <1>6 DEF PageStep

\* A move, by anyone, reaches the pages that are listed.
LEMMA MoveStep ==
  ASSUME PInv, TypeOK', NEW p \in Players, NEW r \in Rooms,
         handleMakeMove(p, r), deliverMove(p, r)
  PROVE  PageStep
<1> DEFINE moved(q) == [page[q] EXCEPT !.view.turn = game'[r].turn]
           after(q) == IF Listed(r, q) /\ Finished(r)' THEN gameFinished(moved(q))
                       ELSE IF Listed(r, q) \/ (q = p /\ Online(p))
                       THEN [moved(q) EXCEPT !.pendingMove = @ /\ q # p]
                       ELSE page[q]
           new == [q \in Watched |-> after(q)]
<1>1. deliver(r, new)
  BY DEF deliverMove
<1>2. game'[r].turn \in Symbols \cup {NoSymbol}
  BY DEF TypeOK, NoGame, StartedGames
<1>3. ASSUME NEW q \in Watched PROVE after(q) \in ClientStates
  <2>1. moved(q) \in ClientStates
    BY <1>2, Basics, TurnType DEF Stays
  <2>2. gameFinished(moved(q)) \in ClientStates
    BY <2>1, ReducerFacts DEF Stays
  <2>3. [moved(q) EXCEPT !.pendingMove = @ /\ q # p] \in ClientStates
    <3> HIDE DEF moved
    <3>1. QED
      BY <2>1 DEF ClientStates
  <2>4. QED
    BY <2>2, <2>3, Basics
<1>4. \A q \in Watched : new[q] \in ClientStates
  BY <1>3
<1>5. \A q \in Watched : new[q] = after(q)
  OBVIOUS
<1> HIDE DEF new, after
<1>6. /\ page' \in [Watched -> ClientStates]
      /\ \A q \in Watched : Becomes(q, after(q))
  <2>1. /\ page' \in [Watched -> ClientStates]
        /\ \A q \in Watched : Becomes(q, new[q])
    BY <1>1, <1>4, DeliverFacts
  <2>2. QED
    BY <1>5, <2>1
<1>7. \A q \in Watched : Kept(q)
  BY <1>6, MoveKept DEF after
<1>8. QED
  BY <1>6, <1>7 DEF PageStep

\* A step that delivers nothing but perhaps the news of a gap.
LEMMA SameStep ==
  ASSUME PInv, UNCHANGED <<seat, game>>,
         page' = page \/ \E r : deliver(r, page),
         \A q \in Watched : q \in linked' => q \in linked,
         \A q \in Watched, s \in Rooms :
           q \in linked' /\ getSymbolForPlayer(s, q) \in connected[s] =>
             getSymbolForPlayer(s, q) \in connected'[s]
  PROVE  PageStep
<1>1. \A q \in Watched : page[q] \in ClientStates
  BY Basics
<1>2. page \in [Watched -> ClientStates]
  BY DEF PInv, PageTypeOK
<1>3. /\ page' \in [Watched -> ClientStates]
      /\ \A q \in Watched : Becomes(q, page[q])
  BY <1>1, <1>2, SamePage, DeliverFacts
<1>4. \A q \in Watched : Kept(q)
  BY <1>3, SameKept
<1>5. QED
  BY <1>3, <1>4 DEF PageStep

\* A step of one page alone.
LEMMA LonelyStep ==
  ASSUME PInv, NEW p \in Watched, NEW c \in ClientStates,
         page' = [page EXCEPT ![p] = c], UNCHANGED <<seat, game>>,
         \A q \in Watched \ {p} : q \in linked' => q \in linked,
         \A s \in Rooms : connected[s] \subseteq connected'[s],
         Kept(p)
  PROVE  PageStep
<1>1. /\ page' \in [Watched -> ClientStates]
      /\ \A q \in Watched \ {p} : page'[q] = page[q]
  BY DEF PInv, PageTypeOK
<1>2. \A q \in Watched \ {p} : Kept(q)
  BY <1>1, SamePage, SameKept
<1>3. QED
  BY <1>1, <1>2 DEF PageStep

\* The room's state as MAKE_MOVE finds it, or the turn that a rejection names.
LEMMA MakeMoveStep ==
  ASSUME PInv, TypeOK', NEW p \in Watched, NEW r \in Rooms, makeMove(p, r)
  PROVE  PageStep
<1>1. CASE handleMakeMove(p, r) /\ deliverMove(p, r)
  BY <1>1, MoveStep
<1>2. CASE /\ Active(r) /\ view(game[r]) # page[p].view
           /\ deliver(r, [page EXCEPT ![p].view.turn = game[r].turn])
           /\ UNCHANGED vars
  <2> DEFINE mine == [page[p] EXCEPT !.view.turn = game[r].turn]
             new == [page EXCEPT ![p] = mine]
  <2>1. deliver(r, new) /\ UNCHANGED vars
    BY <1>2
  <2>2. game[r].turn \in Symbols \cup {NoSymbol}
    BY Basics DEF TypeOK, NoGame, StartedGames
  <2>3. Stays(page[p], mine) /\ mine.phase = page[p].phase
    BY <2>2, Basics, TurnType
  <2> HIDE DEF mine
  <2>4. /\ \A q \in Watched : new[q] \in ClientStates
        /\ new[p] = mine /\ \A q \in Watched \ {p} : new[q] = page[q]
    BY <2>3, Basics DEF Stays, PInv, PageTypeOK
  <2> HIDE DEF new
  <2>5. /\ page' \in [Watched -> ClientStates]
        /\ \A q \in Watched : Becomes(q, new[q])
    BY <2>1, <2>4, DeliverFacts
  <2>6. \A q \in Watched \ {p} : Kept(q)
    BY <2>1, <2>4, <2>5, SameKept DEF vars
  <2>7. Kept(p)
    <3>1. Becomes(p, mine) /\ page[p].roomId = r
      BY <2>4, <2>5 DEF makeMove, Clicks
    <3>2. Quiet(p)
      BY <2>3, <3>1 DEF Quiet, Becomes, Stays
    <3>3. \A s \in Rooms : ~(Knows(p, s) /\ Right(p, s))
      BY <1>2, <3>1 DEF Knows, Right
    <3>4. \A s \in Rooms : Seated(p, s)' <=> Seated(p, s)
      BY <2>1 DEF vars, Seated, getSymbolForPlayer
    <3>5. QED
      BY <2>1, <3>2, <3>3, <3>4, Basics, QuietKept DEF vars
  <2>8. QED
    BY <2>5, <2>6, <2>7 DEF PageStep
<1>3. QED
  BY <1>1, <1>2 DEF makeMove

\* A move that is not answered leaves the page waiting, and nothing else.
LEMMA InVainStep ==
  ASSUME PInv, NEW p \in Watched, NEW r \in Rooms, makeMoveInVain(p, r)
  PROVE  PageStep
<1> DEFINE mine == [page[p] EXCEPT !.pendingMove = TRUE]
<1>1. page' = [page EXCEPT ![p] = mine] /\ UNCHANGED vars
  BY DEF makeMoveInVain
<1>2. Stays(page[p], mine) /\ mine.phase = page[p].phase /\ mine.view = page[p].view
  <2>1. page[p] \in ClientStates
    BY Basics
  <2>2. QED
    BY <2>1 DEF Stays, ClientStates
<1> HIDE DEF mine
<1>3. page'[p] = mine /\ mine \in ClientStates
  BY <1>1, <1>2 DEF PInv, PageTypeOK, Stays
<1>4. Becomes(p, page[p])
  BY <1>2, <1>3 DEF Becomes, Stays
<1>5. Kept(p)
  BY <1>1, <1>4, SameKept DEF vars
<1>6. QED
  BY <1>1, <1>3, <1>5, LonelyStep DEF vars

\* RECONNECT is answered with a snapshot, and stops the window; who has no slot
\* is told so.
LEMMA ReconnectStep ==
  ASSUME PInv, NEW p \in Watched, NEW r \in Rooms, serveReconnect(p, r)
  PROVE  PageStep
<1> DEFINE c == [page[p] EXCEPT !.sent = @ \ {"RECONNECT"}]
<1>1. /\ c \in ClientStates /\ c.wsState = page[p].wsState /\ c.roomId = page[p].roomId
      /\ c.phase = page[p].phase /\ "RECONNECT" \notin c.sent
  BY Basics DEF ClientStates
<1>2. Online(p) /\ page[p].roomId = r
  BY DEF serveReconnect
<1>3. CASE Seated(p, r)
  <2> DEFINE shown == snapshot(c, getSymbolForPlayer(r, p), BothSeated(r), game[r])
             mine == [shown EXCEPT !.astray = FALSE]
             new == [page EXCEPT ![p] = mine]
  <2>1. handleReconnect(p, r) /\ deliver(r, new)
    BY <1>3 DEF serveReconnect
  <2> HIDE DEF c
  <2>2. BothSeated(r) \in BOOLEAN
    BY DEF BothSeated
  <2>3. /\ shown \in ClientStates
        /\ shown.wsState = c.wsState /\ shown.roomId = c.roomId
        /\ shown.mySymbol = getSymbolForPlayer(r, p)
        /\ shown.view = view(game[r]) /\ shown.sent = c.sent
        /\ shown.phase # "LOBBY" /\ shown.phase # "RECONNECTING"
        /\ shown.phase = "ACTIVE" <=> Active(r)
    BY <1>1, <2>2, Basics, SymbolType, ShownType
  <2> HIDE DEF shown
  <2>4. /\ mine \in ClientStates
        /\ mine.wsState = "AUTHENTICATED" /\ mine.roomId = r
        /\ mine.mySymbol = getSymbolForPlayer(r, p)
        /\ mine.view = view(game[r]) /\ "RECONNECT" \notin mine.sent
        /\ mine.phase # "LOBBY"
        /\ mine.phase = "ACTIVE" <=> Active(r)
    BY <1>1, <1>2, <2>3 DEF ClientStates, Online
  <2> HIDE DEF mine
  <2>5. /\ \A q \in Watched : new[q] \in ClientStates
        /\ new[p] = mine /\ \A q \in Watched \ {p} : new[q] = page[q]
    BY <2>4, Basics DEF PInv, PageTypeOK
  <2> HIDE DEF new
  <2>6. /\ page' \in [Watched -> ClientStates]
        /\ \A q \in Watched : Becomes(q, new[q])
    BY <2>1, <2>5, DeliverFacts
  <2>7. /\ UNCHANGED <<linked, seat, game>> /\ setConnected(r, p, TRUE)
        /\ window' = [window EXCEPT ![r] = @ \ {p}]
    BY <2>1 DEF handleReconnect
  <2>8. /\ \A s \in Rooms : connected[s] \subseteq connected'[s]
        /\ getSymbolForPlayer(r, p) \in connected'[r]
    <3>1. getSymbolForPlayer(r, p) \in Symbols
      BY <1>3, Basics, SymbolFacts
    <3>2. QED
      BY <2>7, <3>1, Basics DEF setConnected, TypeOK
  <2>9. \A q \in Watched \ {p} : Kept(q)
    BY <2>5, <2>6, <2>7, <2>8, SameKept
  <2>10. Kept(p)
    <3>1. Becomes(p, mine)
      BY <2>5, <2>6
    <3>2. \A s \in Rooms : Seated(p, s)' => s = r
      BY <1>3, <2>7, Basics DEF Seated, getSymbolForPlayer
    <3>3. InPlace(p)'
      BY <2>4, <3>1, <3>2 DEF InPlace, Becomes
    <3>4. p \notin window'[r]
      BY <2>7, Basics DEF TypeOK
    <3>5. \A s \in Rooms : Knows(p, s)' => s = r /\ Right(p, s)'
      <4>1. getSymbolForPlayer(r, p)' = getSymbolForPlayer(r, p)
        BY <2>7 DEF getSymbolForPlayer
      <4>2. QED
        BY <2>4, <2>7, <2>8, <3>1, <3>2, <4>1
        DEF Knows, Right, Becomes, Listed, Active
    <3>6. QED
      BY <3>3, <3>4, <3>5 DEF Kept, PageInv
  <2>11. QED
    BY <2>6, <2>9, <2>10 DEF PageStep
<1>4. CASE ~Seated(p, r)
  <2>1. page' = [page EXCEPT ![p] = c] /\ UNCHANGED vars
    BY <1>4 DEF serveReconnect
  <2> HIDE DEF c
  <2>2. page'[p] = c
    BY <2>1 DEF PInv, PageTypeOK
  <2>3. \A s \in Rooms : ~Seated(p, s)'
    <3>1. \A s \in Rooms : Seated(p, s) => s = r
      BY <1>2, Basics DEF PageInv, InPlace
    <3>2. QED
      BY <1>4, <2>1, <3>1 DEF vars, Seated, getSymbolForPlayer
  <2>4. Kept(p)
    BY <1>1, <1>2, <2>2, <2>3, NowhereKept DEF Online
  <2>5. QED
    BY <1>1, <2>1, <2>4, LonelyStep DEF vars
<1>5. QED
  BY <1>3, <1>4

\* A STATE_SYNC tells a page that is right nothing new.
LEMMA SyncStep ==
  ASSUME PInv, NEW p \in Watched, NEW r \in Rooms, serveSync(p, r)
  PROVE  PageStep
<1> DEFINE c == [page[p] EXCEPT !.sent = {}]
           shown == snapshot(c, ownSymbol(c), BothSeated(r), game[r])
           mine == IF Seated(p, r) THEN shown ELSE c
<1>1. /\ c \in ClientStates /\ c.wsState = page[p].wsState /\ c.roomId = page[p].roomId
      /\ c.phase = page[p].phase /\ c.sent = {} /\ c.astray = page[p].astray
      /\ c.view = page[p].view /\ c.mySymbol = page[p].mySymbol
  BY Basics DEF ClientStates
<1>2. /\ Online(p) /\ page[p].roomId = r /\ "RECONNECT" \notin page[p].sent
      /\ page' = [page EXCEPT ![p] = mine] /\ UNCHANGED vars
  BY DEF serveSync, Clicks
<1> HIDE DEF c
<1>3. /\ ownSymbol(c) \in Symbols \cup {NoSymbol} /\ BothSeated(r) \in BOOLEAN
      /\ page[p].mySymbol # NoSymbol => ownSymbol(c) = page[p].mySymbol
  BY <1>1 DEF ownSymbol, ClientStates, Symbols, BothSeated
<1>4. /\ shown \in ClientStates
      /\ shown.wsState = c.wsState /\ shown.roomId = c.roomId
      /\ shown.mySymbol = ownSymbol(c) /\ shown.view = view(game[r])
      /\ shown.astray = c.astray /\ shown.sent = c.sent
      /\ shown.phase # "LOBBY"
      /\ shown.phase = "ACTIVE" <=> Active(r)
  <2>1. TypeOK
    BY Basics
  <2>2. QED
    BY <1>1, <1>3, <2>1, ShownType
<1> HIDE DEF shown
<1>5. /\ mine \in ClientStates
      /\ mine.wsState = page[p].wsState /\ mine.roomId = r
      /\ mine.sent = {} /\ mine.astray = page[p].astray
      /\ mine.phase = page[p].phase \/ mine.phase # "LOBBY"
      /\ Seated(p, r) => mine = shown
  BY <1>1, <1>2, <1>4
<1> HIDE DEF mine
<1>6. page'[p] = mine
  BY <1>2 DEF PInv, PageTypeOK
<1>7. Quiet(p)
  BY <1>2, <1>5, <1>6 DEF Quiet
<1>8. \A s \in Rooms : getSymbolForPlayer(s, p)' = getSymbolForPlayer(s, p)
  BY <1>2 DEF vars, getSymbolForPlayer
<1>9. ASSUME NEW s \in Rooms, Knows(p, s), Right(p, s), Knows(p, s)'
      PROVE  Right(p, s)'
  <2>1. s = r /\ mine = shown
    BY <1>2, <1>5, <1>9 DEF Knows
  <2>2. page[p].mySymbol # NoSymbol
    BY <1>9 DEF Knows, Right, Seated
  <2>3. mine.mySymbol = page[p].mySymbol
    BY <1>3, <1>4, <2>1, <2>2
  <2>4. Listed(s, p)'
    BY <1>2, <1>8, <1>9 DEF vars, Right, Knows, Listed
  <2>5. QED
    BY <1>2, <1>4, <1>6, <1>8, <1>9, <2>1, <2>3, <2>4 DEF Right, Active, vars
<1>10. Kept(p)
  BY <1>2, <1>7, <1>8, <1>9, Basics, QuietKept DEF vars, Seated
<1>11. QED
  BY <1>2, <1>5, <1>10, LonelyStep DEF vars

\* A page that is back is in the phase of what it knows.
LEMMA BackType ==
  ASSUME NEW c \in ClientStates
  PROVE  LET d == wsStateChanged(c, "AUTHENTICATED") IN
         /\ d \in ClientStates /\ d.wsState = "AUTHENTICATED" /\ d.roomId = c.roomId
         /\ (c.phase = "RECONNECTING" /\ c.roomId # NoRoom) => d.phase # "LOBBY"
<1>1. derivePhase(c) \in {"LOBBY", "WAITING_FOR_PLAYER", "READY_CHECK", "ACTIVE", "FINISHED"}
  BY DEF derivePhase, ClientStates, Views
<1>2. c.roomId # NoRoom => derivePhase(c) # "LOBBY"
  BY DEF derivePhase, ClientStates, Views
<1>3. QED
  BY <1>1, <1>2 DEF wsStateChanged, ClientStates

\* A page that is authenticated has no slot, asks for its room, or is astray.
LEMMA AuthenticateStep ==
  ASSUME PInv, KnownSlots', TypeOK', NEW p \in Watched, authenticate(p)
  PROVE  PageStep
<1> DEFINE c == wsStateChanged(page[p], "AUTHENTICATED")
           asks == IF c.roomId = NoRoom THEN {} ELSE {"RECONNECT"}
           home == [c EXCEPT !.sent = asks]
           there == [c EXCEPT !.roomId = sessionRoom'[p],
                              !.mySymbol = getSymbolForPlayer(sessionRoom'[p], p),
                              !.sent = asks, !.astray = (c.roomId = NoRoom)]
           mine == IF sessionRoom'[p] = NoRoom THEN home ELSE there
<1>1. /\ page[p].wsState = "OFFLINE"
      /\ IF p \in linked THEN UNCHANGED vars ELSE handleAuth(p)
      /\ page' = [page EXCEPT ![p] = mine]
  BY DEF authenticate
<1>2. page[p] \in ClientStates /\ PageInv(p)
  BY Basics
<1>3. /\ c \in ClientStates /\ c.wsState = "AUTHENTICATED" /\ c.roomId = page[p].roomId
      /\ c.roomId # NoRoom => c.phase # "LOBBY"
  <2>1. page[p].phase = "RECONNECTING" \/ page[p].roomId = NoRoom
    BY <1>1, <1>2 DEF PageInv, InPlace
  <2>2. QED
    BY <1>2, <2>1, BackType
<1> HIDE DEF c
<1>4. sessionRoom'[p] \in Rooms \cup {NoRoom}
  BY DEF TypeOK
<1>5. /\ home \in ClientStates /\ home.wsState = "AUTHENTICATED"
  BY <1>3 DEF ClientStates
<1>6. /\ there \in ClientStates /\ there.wsState = "AUTHENTICATED"
      /\ there.roomId = sessionRoom'[p] /\ there.phase = c.phase
      /\ there.sent = asks /\ there.astray = (c.roomId = NoRoom)
  BY <1>3, <1>4, SymbolType DEF ClientStates
<1> HIDE DEF home, there
<1>7. mine \in ClientStates /\ page'[p] = mine
  BY <1>1, <1>5, <1>6 DEF PInv, PageTypeOK
<1>8. \A s \in Rooms : Seated(p, s)' => sessionRoom'[p] = s
  BY DEF KnownSlots
<1>9. ASSUME sessionRoom'[p] = NoRoom PROVE Kept(p)
  <2>1. page'[p].wsState = "AUTHENTICATED" /\ \A s \in Rooms : ~Seated(p, s)'
    BY <1>5, <1>7, <1>8, <1>9
  <2>2. QED
    BY <2>1, NowhereKept
<1>10. ASSUME sessionRoom'[p] # NoRoom PROVE Kept(p)
  <2>1. page'[p] = there
    BY <1>7, <1>10
  <2>2. InPlace(p)'
    BY <1>3, <1>6, <1>8, <2>1 DEF InPlace
  <2>3. \A s \in Rooms : ~Knows(p, s)'
    BY <1>6, <2>1 DEF Knows
  <2>4. QED
    BY <2>2, <2>3 DEF Kept, PageInv
<1>11. /\ UNCHANGED <<seat, game, connected>>
       /\ \A q \in Watched \ {p} : q \in linked' => q \in linked
  BY <1>1 DEF vars, handleAuth
<1>12. Kept(p)
  BY <1>9, <1>10
<1> HIDE DEF mine
<1>13. QED
  BY <1>1, <1>7, <1>11, <1>12, LonelyStep

\* A page that is closed, loses its connection or is loaded again.
LEMMA LoseStep ==
  ASSUME PInv, NEW p \in Watched, pageLoses(p) \/ giveUp(p) \/ reload(p)
  PROVE  PageStep
<1> DEFINE cut == [page[p] EXCEPT !.sent = {}]
           lost == wsStateChanged(cut, "OFFLINE")
<1>1. PICK c \in {lost, closedPage, INITIAL_STATE} :
        page' = [page EXCEPT ![p] = c] /\ UNCHANGED vars
  BY DEF pageLoses, giveUp, reload
<1>2. /\ lost \in ClientStates /\ lost.wsState = "OFFLINE"
      /\ lost.sent = {} /\ lost.phase = "RECONNECTING"
  <2>1. page[p] \in ClientStates
    BY Basics
  <2>2. QED
    BY <2>1 DEF wsStateChanged, ClientStates
<1>3. /\ INITIAL_STATE \in ClientStates /\ closedPage \in ClientStates
      /\ INITIAL_STATE.wsState = "OFFLINE" /\ closedPage.wsState = "CLOSED"
      /\ INITIAL_STATE.sent = {} /\ closedPage.sent = {}
      /\ INITIAL_STATE.phase = "LOBBY" /\ INITIAL_STATE.roomId = NoRoom
  <2>1. view(NoGame) \in Views
    BY DEF view, NoGame, Views
  <2>2. QED
    BY <2>1 DEF INITIAL_STATE, closedPage, ClientStates
<1> HIDE DEF lost
<1>4. c \in ClientStates /\ page'[p] = c
  BY <1>1, <1>2, <1>3 DEF PInv, PageTypeOK
<1>5. Kept(p)
  BY <1>1, <1>2, <1>3, <1>4, NowhereKept DEF Online
<1>6. QED
  BY <1>1, <1>4, <1>5, LonelyStep DEF vars

\* PLAYER_LEFT, after GAME_FINISHED if a game was abandoned.
LEMMA ExpiryStep ==
  ASSUME PInv, NEW p \in Players, NEW r \in Rooms, windowExpires(p, r)
  PROVE  PageStep
<1> DEFINE after(q) == IF ~Listed(r, q) THEN page[q] ELSE opponentLeft(r, q)
           new == [q \in Watched |-> after(q)]
<1>1. deliver(r, new)
  <2> DEFINE told == [q \in Watched |->
               IF ~Listed(r, q) THEN page[q]
               ELSE playerLeft(IF Active(r) THEN gameFinished(page[q]) ELSE page[q])]
  <2>1. deliver(r, told)
    BY DEF windowExpires
  <2>2. ASSUME NEW q \in Watched PROVE told[q] = new[q]
    <3>1. Listed(r, q) => Online(q) /\ Seated(q, r)
      BY Basics, ListedIsSeated DEF Listed
    <3>2. QED
      BY <3>1 DEF opponentLeft
  <2>3. told = new
    BY <2>2
  <2> HIDE DEF told, new
  <2>4. QED
    BY <2>1, <2>3
<1>2. \A q \in Watched : after(q) \in ClientStates
  BY Basics, OpponentLeftFacts
<1>3. \A q \in Watched : new[q] = after(q)
  OBVIOUS
<1> HIDE DEF new
<1>4. /\ page' \in [Watched -> ClientStates]
      /\ \A q \in Watched : Becomes(q, new[q])
  BY <1>1, <1>2, <1>3, DeliverFacts
<1>5. /\ endIfActive(r, p, "ABANDONED") /\ removePlayer(r, p) /\ UNCHANGED linked
  BY DEF windowExpires, expireReconnectWindow
<1>6. ASSUME NEW q \in Watched PROVE Kept(q)
  <2> DEFINE c == after(q)
  <2>1. Becomes(q, c)
    BY <1>3, <1>4
  <2>2. CASE ~Listed(r, q)
    BY <1>5, <2>1, <2>2, Basics, LeaveKept DEF Stays
  <2>3. CASE Listed(r, q)
    <3>1. Becomes(q, opponentLeft(r, q))
      BY <2>1, <2>3
    <3> DEFINE d == opponentLeft(r, q)
    <3>2. /\ d \in ClientStates /\ Stays(page[q], d)
          /\ \/ d.view = page[q].view /\ d.phase = page[q].phase /\ ~Listed(r, q)
             \/ /\ Online(q) /\ Seated(q, r)
                /\ d.phase = "WAITING_FOR_PLAYER"
                /\ d.view = IF Listed(r, q) /\ Active(r)
                            THEN [page[q].view EXCEPT !.status = "FINISHED"]
                            ELSE page[q].view
      BY OpponentLeftFacts
    <3> HIDE DEF d
    <3>3. Becomes(q, d)
      BY <3>1 DEF d
    <3>4. QED
      BY <1>5, <3>2, <3>3, LeaveKept
  <2>4. QED
    BY <2>2, <2>3
<1>7. QED
  BY <1>4, <1>6 DEF PageStep

\* The server marks the slot of the player it loses, and no other.
LEMMA ServerLosesStep ==
  ASSUME PInv, NEW p \in Players, serverLoses(p)
  PROVE  PageStep
<1>1. CASE closeUnnoticed(p) /\ UNCHANGED page
  <2>1. UNCHANGED <<seat, game, connected>> /\ linked' = linked \ {p}
    BY <1>1 DEF closeUnnoticed
  <2>2. QED
    BY <1>1, <2>1, SameStep
<1>2. CASE handleDisconnect(p)
  <2> DEFINE r == sessionRoom[p]
  <2>1. /\ UNCHANGED <<seat, game>> /\ linked' = linked \ {p}
        /\ UNCHANGED connected \/ (r \in Rooms /\ setConnected(r, p, FALSE))
    BY <1>2, Basics DEF handleDisconnect, TypeOK
  <2>2. ASSUME NEW q \in Watched, NEW s \in Rooms, q \in linked',
               getSymbolForPlayer(s, q) \in connected[s]
        PROVE  getSymbolForPlayer(s, q) \in connected'[s]
    <3>1. CASE UNCHANGED connected
      BY <2>2, <3>1
    <3>2. CASE s = r /\ setConnected(r, p, FALSE) /\ r \in Rooms
      <4>1. q # p /\ getSymbolForPlayer(s, q) \in Symbols
        BY <2>1, <2>2, Basics DEF TypeOK
      <4>2. getSymbolForPlayer(s, q) # getSymbolForPlayer(s, p)
        BY <4>1 DEF getSymbolForPlayer, Symbols, NoSymbol
      <4>3. connected'[s] = connected[s] \ ({getSymbolForPlayer(s, p)} \cap Symbols)
        BY <3>2, Basics DEF setConnected, TypeOK
      <4>4. QED
        BY <2>2, <4>2, <4>3
    <3>3. CASE s # r /\ setConnected(r, p, FALSE) /\ r \in Rooms
      BY <2>2, <3>3, Basics DEF setConnected, TypeOK
    <3>4. QED
      BY <2>1, <3>1, <3>2, <3>3
  <2>3. \E x \in Rooms \cup {NoRoom} : page' = page \/ deliver(x, page)
    <3>1. r \in Rooms \cup {NoRoom}
      BY Basics DEF TypeOK
    <3>2. page' = page \/ deliver(r, page)
      <4>1. CASE r = NoRoom
        BY <1>2, <4>1 DEF serverLoses, closeUnnoticed
      <4>2. CASE r # NoRoom
        BY <1>2, <4>2 DEF serverLoses
      <4>3. QED
        BY <4>1, <4>2
    <3>3. QED
      BY <3>1, <3>2
  <2>4. QED
    BY <2>1, <2>2, <2>3, SameStep
<1>3. QED
  BY <1>1, <1>2 DEF serverLoses

\* The two handlers that may start a game.
LEMMA ReadyStep ==
  ASSUME PInv, TypeOK', NEW p \in Players, NEW r \in Rooms,
         handlePlayerReady(p, r) \/ handleAcceptRematch(p, r), deliverStart(r)
  PROVE  PageStep
<1>1. CASE handlePlayerReady(p, r)
  <2> DEFINE first == IF game[r].firstTurn = "X" THEN "O" ELSE "X"
  <2>1. /\ UNCHANGED <<linked, seat, connected>> /\ first \in Symbols
        /\ startGame(r, first) \/ UNCHANGED game
    BY <1>1 DEF handlePlayerReady, Symbols
  <2> HIDE DEF first
  <2>2. QED
    BY <2>1, StartStep
<1>2. CASE handleAcceptRematch(p, r)
  <2> DEFINE first == opponent(game[r].firstTurn)
  <2>1. /\ UNCHANGED <<linked, seat, connected>> /\ first \in Symbols
        /\ startGame(r, first) \/ UNCHANGED game
    BY <1>2 DEF handleAcceptRematch, Symbols, opponent
  <2> HIDE DEF first
  <2>2. QED
    BY <2>1, StartStep
<1>3. QED
  BY <1>1, <1>2

\* The rematch handlers that start none.
LEMMA ControlStep ==
  ASSUME PInv, TypeOK', NEW p \in Players, NEW r \in Rooms,
         handleRequestRematch(p, r) \/ handleDeclineRematch(p, r),
         deliverStart(r) \/ deliver(r, page)
  PROVE  PageStep
<1>1. UNCHANGED <<linked, seat, connected, game>>
  BY DEF handleRequestRematch, handleDeclineRematch
<1>2. CASE deliverStart(r)
  BY <1>1, <1>2, StartStep DEF Symbols
<1>3. CASE deliver(r, page)
  BY <1>1, <1>3, SameStep
<1>4. QED
  BY <1>2, <1>3

\* The players without a page.
LEMMA OthersStep ==
  ASSUME PInv, TypeOK', NEW p \in Players \ Watched, NEW r \in Rooms, others(p, r)
  PROVE  PageStep
<1>1. CASE /\ handleJoinRoom(p, r)
           /\ deliver(r, [q \in Watched |->
                IF Online(q) /\ Seated(q, r) THEN playerJoined(page[q]) ELSE page[q]])
  <2> DEFINE new == [q \in Watched |->
               IF Online(q) /\ Seated(q, r) THEN playerJoined(page[q]) ELSE page[q]]
  <2>1. \A q \in Watched : new[q] \in ClientStates
    BY Basics, ReducerFacts DEF Stays
  <2>2. deliver(r, new)
    BY <1>1
  <2> HIDE DEF new
  <2>3. /\ page' \in [Watched -> ClientStates]
        /\ \A q \in Watched : Becomes(q, new[q])
    BY <2>1, <2>2, DeliverFacts
  <2>4. \A q \in Watched : Kept(q)
    BY <1>1, <2>3, JoinKept DEF new
  <2>5. QED
    BY <2>3, <2>4 DEF PageStep
<1>2. CASE /\ handleLeaveRoom(p, r)
           /\ deliver(r, [q \in Watched |-> opponentLeft(r, q)])
  <2> DEFINE new == [q \in Watched |-> opponentLeft(r, q)]
  <2>1. \A q \in Watched : new[q] \in ClientStates
    BY OpponentLeftFacts
  <2>2. deliver(r, new)
    BY <1>2
  <2> HIDE DEF new
  <2>3. /\ page' \in [Watched -> ClientStates]
        /\ \A q \in Watched : Becomes(q, new[q])
    BY <2>1, <2>2, DeliverFacts
  <2>4. ASSUME NEW q \in Watched PROVE Kept(q)
    <3> DEFINE c == opponentLeft(r, q)
    <3>1. Becomes(q, c)
      BY <2>3 DEF new
    <3>2. /\ c \in ClientStates /\ Stays(page[q], c)
          /\ \/ c.view = page[q].view /\ c.phase = page[q].phase /\ ~Listed(r, q)
             \/ /\ Online(q) /\ Seated(q, r)
                /\ c.phase = "WAITING_FOR_PLAYER"
                /\ c.view = IF Listed(r, q) /\ Active(r)
                            THEN [page[q].view EXCEPT !.status = "FINISHED"]
                            ELSE page[q].view
      BY OpponentLeftFacts
    <3>3. endIfActive(r, p, "FORFEIT") /\ removePlayer(r, p) /\ UNCHANGED linked
      BY <1>2 DEF handleLeaveRoom
    <3> HIDE DEF c
    <3>4. QED
      BY <3>1, <3>2, <3>3, LeaveKept
  <2>5. QED
    BY <2>3, <2>4 DEF PageStep
<1>3. CASE (handlePlayerReady(p, r) \/ handleAcceptRematch(p, r)) /\ deliverStart(r)
  BY <1>3, ReadyStep
<1>4. CASE (handleRequestRematch(p, r) \/ handleDeclineRematch(p, r)) /\ deliver(r, page)
  BY <1>4, ControlStep
<1>5. CASE handleReconnect(p, r) /\ deliver(r, page)
  <2>1. UNCHANGED <<seat, game, linked>> /\ setConnected(r, p, TRUE)
    BY <1>5 DEF handleReconnect
  <2>2. \A s \in Rooms : connected[s] \subseteq connected'[s]
    BY <2>1, Basics DEF setConnected, TypeOK
  <2>3. QED
    BY <1>5, <2>1, <2>2, SameStep
<1>6. CASE handleMakeMove(p, r) /\ deliverMove(p, r)
  BY <1>6, MoveStep
<1>7. QED
  BY <1>1, <1>2, <1>3, <1>4, <1>5, <1>6 DEF others, requestRematch

-----------------------------------------------------------------------------
\* The invariant holds in every reachable state.

\* Every page is left as it should be by every step.
LEMMA EveryStep ==
  ASSUME PInv, NoStrayWindow, PageNext
  PROVE  RoomsInv' /\ TypeOK' /\ PageStep
<1>1. [Next]_vars /\ UNCHANGED purged
  BY PageStepIsRoomStep
<1>2. IInv'
  BY <1>1, TypeStep, OutcomeStep, PurgedStep, ActiveStep, SeatStep, CleanStep,
     SessionStep, HistoryStep, ProposalStep DEF IInv, PInv, RoomsInv
<1>3. RoomsInv' /\ TypeOK' /\ KnownSlots'
  BY <1>1, <1>2, KnownStep DEF PInv, RoomsInv, IInv
<1>4. ASSUME NEW p \in Watched, NEW r \in Rooms,
             \/ joinRoom(p, r) \/ rejoinRoom(p, r) \/ leaveRoom(p, r)
             \/ makeMove(p, r) \/ makeMoveInVain(p, r)
             \/ serveReconnect(p, r) \/ serveSync(p, r)
      PROVE  PageStep
  BY <1>3, <1>4, JoinStep, RejoinStep, LeaveStep, MakeMoveStep, InVainStep, ReconnectStep,
     SyncStep
<1>5. ASSUME NEW p \in Watched, NEW r \in Rooms, playerReady(p, r) \/ rematchControl(p, r)
      PROVE  PageStep
  <2>1. /\ \/ handlePlayerReady(p, r) \/ handleAcceptRematch(p, r)
           \/ handleRequestRematch(p, r) \/ handleDeclineRematch(p, r)
        /\ deliverStart(r)
    BY <1>5 DEF playerReady, rematchControl, requestRematch
  <2>2. QED
    BY <1>3, <2>1, ReadyStep, ControlStep
<1>6. ASSUME NEW p \in Watched, authenticate(p) \/ pageLoses(p) \/ giveUp(p) \/ reload(p)
      PROVE  PageStep
  BY <1>3, <1>6, AuthenticateStep, LoseStep
<1>7. ASSUME NEW p \in Players \ Watched, handleAuth(p) /\ UNCHANGED page
      PROVE  PageStep
  <2>1. /\ UNCHANGED <<seat, game, connected>>
        /\ \A q \in Watched : q \in linked' => q \in linked
    BY <1>7 DEF handleAuth
  <2>2. QED
    BY <1>7, <2>1, SameStep
<1>8. ASSUME NEW r \in Rooms, rematchExpires(r) PROVE PageStep
  BY <1>8, SameStep DEF rematchExpires, expireRematch
<1>9. QED
  BY <1>3, <1>4, <1>5, <1>6, <1>7, <1>8, OthersStep, ServerLosesStep, ExpiryStep
  DEF PageNext

\* A window runs on, or is armed in the game that its player has just dropped
\* out of.
LEMMA WindowStep ==
  ASSUME PInv, NoStrayWindow, PageNext, NEW q \in Watched, NEW s \in Rooms, q \in window'[s]
  PROVE  \/ q \in window[s] /\ armedIn'[q] = armedIn[q]
         \/ /\ q \notin linked' /\ UNCHANGED game /\ Active(s)
            /\ armedIn'[q] = game[s].id
<1>1. CASE \E p \in Players : serverLoses(p)
  <2>1. PICK p \in Players : serverLoses(p)
    BY <1>1
  <2> DEFINE r == sessionRoom[p]
  <2>2. CASE closeUnnoticed(p) /\ UNCHANGED <<page, armedIn>>
    BY <2>2 DEF closeUnnoticed
  <2>3. CASE handleDisconnect(p) /\ r = NoRoom
    BY <2>1, <2>3 DEF serverLoses, handleDisconnect, closeUnnoticed
  <2>4. CASE handleDisconnect(p) /\ r # NoRoom /\ ~Active(r)
    <3>1. UNCHANGED window
      BY <2>4 DEF handleDisconnect
    <3>2. UNCHANGED armedIn
      BY <2>1, <2>4 DEF serverLoses
    <3>3. QED
      BY <3>1, <3>2
  <2>5. CASE /\ handleDisconnect(p) /\ r # NoRoom /\ Active(r)
             /\ armedIn' = IF p \in Watched THEN [armedIn EXCEPT ![p] = game[r].id]
                           ELSE armedIn
    <3>1. /\ r \in Rooms /\ Seated(p, r) /\ r \notin purged
      BY <2>5, Basics DEF PInv, RoomsInv, IInv, SessionRoomSeated, TypeOK
    <3>2. /\ linked' = linked \ {p} /\ UNCHANGED game
          /\ window' = [window EXCEPT ![r] = @ \cup {p}]
      BY <2>5, <3>1 DEF handleDisconnect
    <3>3. CASE q # p
      BY <2>5, <3>1, <3>2, <3>3, Basics DEF TypeOK, PInv, PageTypeOK
    <3>4. CASE q = p
      <4>1. s = r
        BY <3>1, <3>2, <3>4, Basics DEF TypeOK, NoStrayWindow
      <4>2. armedIn'[p] = game[r].id
        BY <2>5, <3>4 DEF PInv, PageTypeOK
      <4>3. QED
        BY <2>5, <3>2, <3>4, <4>1, <4>2
    <3>5. QED
      BY <3>3, <3>4
  <2>6. QED
    BY <2>1, <2>2, <2>3, <2>4, <2>5 DEF serverLoses
<1>2. CASE ~\E p \in Players : serverLoses(p)
  <2>1. UNCHANGED armedIn
    BY <1>2 DEF PageNext, windowExpires, rematchExpires
  <2>2. \A r \in Rooms : window'[r] \subseteq window[r]
    <3>1. ASSUME NEW p \in Players, NEW r \in Rooms,
                 window' = [window EXCEPT ![r] = @ \ {p}]
          PROVE  \A z \in Rooms : window'[z] \subseteq window[z]
      BY <3>1, Basics DEF TypeOK
    <3>2. UNCHANGED window \/ \E p \in Players, r \in Rooms :
                                 window' = [window EXCEPT ![r] = @ \ {p}]
      BY <1>2, PageActions DEF PageNext, vars, handleAuth, handleJoinRoom, handleLeaveRoom,
         handlePlayerReady, handleMakeMove, handleRequestRematch, handleAcceptRematch,
         handleDeclineRematch, handleReconnect, expireRematch, expireReconnectWindow
    <3>3. QED
      BY <3>1, <3>2
  <2>3. QED
    BY <2>1, <2>2
<1>3. QED
  BY <1>1, <1>2

-----------------------------------------------------------------------------
(***************************************************************************)
(* Type correctness, which needs nothing but the types of the rooms: it    *)
(* holds whatever windows are left behind.                                 *)
(***************************************************************************)

\* One page changes.
LEMMA OneDelivered ==
  ASSUME PageTypeOK, NEW p \in Watched, NEW c \in ClientStates,
         page' = [page EXCEPT ![p] = c] \/ \E r : deliver(r, [page EXCEPT ![p] = c])
  PROVE  page' \in [Watched -> ClientStates]
<1> DEFINE new == [page EXCEPT ![p] = c]
<1>1. new \in [Watched -> ClientStates]
  BY DEF PageTypeOK
<1>2. page' = new \/ \E r : deliver(r, new)
  OBVIOUS
<1> HIDE DEF new
<1>3. \A q \in Watched : new[q] \in ClientStates
  BY <1>1
<1>4. QED
  BY <1>1, <1>2, <1>3, DeliverFacts

\* The page of a player whose opponent has left.
LEMMA LeftBehindType ==
  ASSUME NEW r, NEW q, page[q] \in ClientStates
  PROVE  /\ opponentLeft(r, q) \in ClientStates
         /\ playerLeft(IF Active(r) THEN gameFinished(page[q]) ELSE page[q]) \in ClientStates
<1>1. gameFinished(page[q]) \in ClientStates
  BY ReducerFacts DEF Stays
<1>2. \A c \in ClientStates : playerLeft(c) \in ClientStates
  BY ReducerFacts DEF Stays
<1>3. QED
  BY <1>1, <1>2 DEF opponentLeft

\* A page that takes a move.
LEMMA MovedType ==
  ASSUME TypeOK', NEW r \in Rooms, NEW c \in ClientStates, NEW b \in BOOLEAN
  PROVE  LET moved == [c EXCEPT !.view.turn = game'[r].turn] IN
         /\ moved \in ClientStates
         /\ gameFinished(moved) \in ClientStates
         /\ [moved EXCEPT !.pendingMove = @ /\ b] \in ClientStates
<1> DEFINE moved == [c EXCEPT !.view.turn = game'[r].turn]
<1>1. game'[r].turn \in Symbols \cup {NoSymbol}
  BY DEF TypeOK, NoGame, StartedGames
<1>2. moved \in ClientStates
  BY <1>1, TurnType DEF Stays
<1> HIDE DEF moved
<1>3. gameFinished(moved) \in ClientStates
  BY <1>2, ReducerFacts DEF Stays
<1>4. [moved EXCEPT !.pendingMove = @ /\ b] \in ClientStates
  BY <1>2 DEF ClientStates
<1>5. QED
  BY <1>2, <1>3, <1>4 DEF moved

\* What deliverStart and deliverMove make of the pages.
LEMMA DeliverStartType ==
  ASSUME PageTypeOK, TypeOK', NEW r \in Rooms, deliverStart(r)
  PROVE  page' \in [Watched -> ClientStates]
<1> DEFINE new == [q \in Watched |->
             IF Listed(r, q) /\ game'[r].id # game[r].id THEN gameStarted(page[q], game'[r])
             ELSE page[q]]
<1>1. deliver(r, new)
  BY DEF deliverStart
<1>2. game'[r] \in GameStates
  BY DEF TypeOK, GameStates
<1>3. \A q \in Watched : new[q] \in ClientStates
  BY <1>2, StartedFacts DEF Stays, PageTypeOK
<1> HIDE DEF new
<1>4. QED
  BY <1>1, <1>3, DeliverFacts

\* A move leaves the pages their types.
LEMMA DeliverMoveType ==
  ASSUME PageTypeOK, TypeOK', NEW p \in Players, NEW r \in Rooms, deliverMove(p, r)
  PROVE  page' \in [Watched -> ClientStates]
<1> DEFINE after(q) ==
             LET moved == [page[q] EXCEPT !.view.turn = game'[r].turn] IN
             IF Listed(r, q) /\ Finished(r)' THEN gameFinished(moved)
             ELSE IF Listed(r, q) \/ (q = p /\ Online(p))
             THEN [moved EXCEPT !.pendingMove = @ /\ q # p]
             ELSE page[q]
           new == [q \in Watched |-> after(q)]
<1>1. deliver(r, new)
  BY DEF deliverMove
<1>2. ASSUME NEW q \in Watched PROVE after(q) \in ClientStates
  <2> DEFINE moved == [page[q] EXCEPT !.view.turn = game'[r].turn]
             b == q # p
  <2>1. page[q] \in ClientStates /\ b \in BOOLEAN
    BY DEF PageTypeOK
  <2> HIDE DEF b
  <2>2. /\ gameFinished(moved) \in ClientStates
        /\ [moved EXCEPT !.pendingMove = @ /\ b] \in ClientStates
    BY <2>1, MovedType
  <2> HIDE DEF moved
  <2>3. /\ gameFinished(moved) \in ClientStates
        /\ [moved EXCEPT !.pendingMove = @ /\ q # p] \in ClientStates
    BY <2>2 DEF b
  <2>4. QED
    BY <2>1, <2>3 DEF moved
<1>3. \A q \in Watched : new[q] \in ClientStates
  BY <1>2
<1> HIDE DEF new
<1>4. QED
  BY <1>1, <1>3, DeliverFacts

\* Every step keeps the type of every page.
LEMMA PageTypeStep ==
  ASSUME TypeOK, TypeOK', PageTypeOK, PageNext
  PROVE  page' \in [Watched -> ClientStates]
<1> USE DEF PageTypeOK
<1>0. \A r, p : /\ getSymbolForPlayer(r, p) \in Symbols \cup {NoSymbol}
                /\ getSymbolForPlayer(r, p)' \in Symbols \cup {NoSymbol}
                /\ BothSeated(r) \in BOOLEAN /\ BothSeated(r)' \in BOOLEAN
  BY DEF getSymbolForPlayer, Symbols, BothSeated
<1>1. ASSUME NEW p \in Watched, NEW r \in Rooms, joinRoom(p, r)
      PROVE  page' \in [Watched -> ClientStates]
  <2> DEFINE mine == roomJoined(page[p], r, getSymbolForPlayer(r, p)', BothSeated(r)', game[r])
             new == [q \in Watched |->
               IF q = p THEN mine
               ELSE IF Online(q) /\ Seated(q, r) THEN playerJoined(page[q])
               ELSE page[q]]
  <2>1. deliver(r, new)
    BY <1>1 DEF joinRoom
  <2>2. mine \in ClientStates
    BY <1>0, ShownType
  <2> HIDE DEF mine
  <2>3. \A q \in Watched : new[q] \in ClientStates
    BY <2>2, ReducerFacts DEF Stays
  <2> HIDE DEF new
  <2>4. QED
    BY <2>1, <2>3, DeliverFacts
<1>2. ASSUME NEW p \in Watched, NEW r \in Rooms, rejoinRoom(p, r)
      PROVE  page' \in [Watched -> ClientStates]
  <2> DEFINE mine == roomJoined(page[p], r, getSymbolForPlayer(r, p), BothSeated(r), game[r])
  <2>1. deliver(r, [page EXCEPT ![p] = mine])
    BY <1>2 DEF rejoinRoom
  <2>2. mine \in ClientStates
    BY <1>0, ShownType
  <2> HIDE DEF mine
  <2>3. QED
    BY <2>1, <2>2, OneDelivered
<1>3. ASSUME NEW p \in Watched, NEW r \in Rooms, leaveRoom(p, r)
      PROVE  page' \in [Watched -> ClientStates]
  <2> DEFINE c == leftRoom(page[p])
             d == snapshot(c, ownSymbol(c), BothSeated(r), game[r])
  <2>1. c \in ClientStates /\ d \in ClientStates
    BY LeftType
  <2>2. CASE page' = [page EXCEPT ![p] = c]
    BY <2>1, <2>2
  <2>3. ASSUME NEW mine \in {c, d},
               deliver(r, [q \in Watched |->
                 IF q = p THEN IF Listed(r, p) /\ Active(r) THEN gameFinished(mine) ELSE mine
                 ELSE opponentLeft(r, q)])
        PROVE  page' \in [Watched -> ClientStates]
    <3> DEFINE last == IF Listed(r, p) /\ Active(r) THEN gameFinished(mine) ELSE mine
               new == [q \in Watched |-> IF q = p THEN last ELSE opponentLeft(r, q)]
    <3>1. deliver(r, new)
      BY <2>3
    <3>2. last \in ClientStates
      BY <2>1, ReducerFacts DEF Stays
    <3> HIDE DEF last
    <3>3. \A q \in Watched : new[q] \in ClientStates
      BY <3>2, LeftBehindType
    <3> HIDE DEF new
    <3>4. QED
      BY <3>1, <3>3, DeliverFacts
  <2>4. \/ page' = [page EXCEPT ![p] = c]
        \/ \E mine \in {c, d} :
             deliver(r, [q \in Watched |->
               IF q = p THEN IF Listed(r, p) /\ Active(r) THEN gameFinished(mine) ELSE mine
               ELSE opponentLeft(r, q)])
    BY <1>3 DEF leaveRoom
  <2> HIDE DEF c, d
  <2>5. QED
    BY <2>2, <2>3, <2>4
<1>4. ASSUME NEW p \in Watched, NEW r \in Rooms, playerReady(p, r) \/ rematchControl(p, r)
      PROVE  page' \in [Watched -> ClientStates]
  BY <1>4, DeliverStartType DEF playerReady, rematchControl
<1>5. ASSUME NEW p \in Watched, NEW r \in Rooms, makeMove(p, r)
      PROVE  page' \in [Watched -> ClientStates]
  <2> DEFINE mine == [page[p] EXCEPT !.view.turn = game[r].turn]
  <2>1. deliverMove(p, r) \/ deliver(r, [page EXCEPT ![p] = mine])
    BY <1>5 DEF makeMove
  <2>2. game[r].turn \in Symbols \cup {NoSymbol}
    BY DEF TypeOK, NoGame, StartedGames
  <2>3. mine \in ClientStates
    BY <2>2, TurnType DEF Stays
  <2> HIDE DEF mine
  <2>4. QED
    BY <2>1, <2>3, OneDelivered, DeliverMoveType
<1>6. ASSUME NEW p \in Watched, NEW r \in Rooms, makeMoveInVain(p, r)
      PROVE  page' \in [Watched -> ClientStates]
  <2> DEFINE mine == [page[p] EXCEPT !.pendingMove = TRUE]
  <2>1. page' = [page EXCEPT ![p] = mine]
    BY <1>6 DEF makeMoveInVain
  <2>2. page[p] \in ClientStates
    OBVIOUS
  <2>3. mine \in ClientStates
    BY <2>2 DEF ClientStates
  <2> HIDE DEF mine
  <2>4. QED
    BY <2>1, <2>3
<1>7. ASSUME NEW p \in Watched, NEW r \in Rooms, serveReconnect(p, r)
      PROVE  page' \in [Watched -> ClientStates]
  <2> DEFINE c == [page[p] EXCEPT !.sent = @ \ {"RECONNECT"}]
             shown == snapshot(c, getSymbolForPlayer(r, p), BothSeated(r), game[r])
             mine == [shown EXCEPT !.astray = FALSE]
  <2>1. \/ deliver(r, [page EXCEPT ![p] = mine])
        \/ page' = [page EXCEPT ![p] = c]
    BY <1>7 DEF serveReconnect
  <2>2. c \in ClientStates
    BY DEF ClientStates
  <2> HIDE DEF c
  <2>3. shown \in ClientStates
    BY <1>0, <2>2, ShownType
  <2> HIDE DEF shown
  <2>4. mine \in ClientStates
    BY <2>3 DEF ClientStates
  <2> HIDE DEF mine
  <2>5. QED
    BY <2>1, <2>2, <2>4, OneDelivered
<1>8. ASSUME NEW p \in Watched, NEW r \in Rooms, serveSync(p, r)
      PROVE  page' \in [Watched -> ClientStates]
  <2> DEFINE c == [page[p] EXCEPT !.sent = {}]
             shown == snapshot(c, ownSymbol(c), BothSeated(r), game[r])
  <2>1. page' = [page EXCEPT ![p] = IF Seated(p, r) THEN shown ELSE c]
    BY <1>8 DEF serveSync
  <2>2. c \in ClientStates
    BY DEF ClientStates
  <2>3. ownSymbol(c) \in Symbols \cup {NoSymbol}
    BY <2>2 DEF ownSymbol, ClientStates, Symbols
  <2> HIDE DEF c
  <2>4. shown \in ClientStates
    BY <1>0, <2>2, <2>3, ShownType
  <2> HIDE DEF shown
  <2>5. QED
    BY <2>1, <2>2, <2>4
<1>9. ASSUME NEW p \in Watched, authenticate(p)
      PROVE  page' \in [Watched -> ClientStates]
  <2> DEFINE c == wsStateChanged(page[p], "AUTHENTICATED")
             asks == IF c.roomId = NoRoom THEN {} ELSE {"RECONNECT"}
             home == [c EXCEPT !.sent = asks]
             there == [c EXCEPT !.roomId = sessionRoom'[p],
                                !.mySymbol = getSymbolForPlayer(sessionRoom'[p], p),
                                !.sent = asks, !.astray = (c.roomId = NoRoom)]
  <2>1. page' = [page EXCEPT ![p] = IF sessionRoom'[p] = NoRoom THEN home ELSE there]
    BY <1>9 DEF authenticate
  <2>2. c \in ClientStates
    <3>1. page[p] \in ClientStates
      OBVIOUS
    <3>2. QED
      BY <3>1, BackType
  <2> HIDE DEF c
  <2>3. sessionRoom'[p] \in Rooms \cup {NoRoom}
    BY DEF TypeOK
  <2>4. home \in ClientStates /\ there \in ClientStates
    BY <1>0, <2>2, <2>3 DEF ClientStates
  <2> HIDE DEF home, there
  <2>5. QED
    BY <2>1, <2>4
<1>10. ASSUME NEW p \in Watched, pageLoses(p) \/ giveUp(p) \/ reload(p)
       PROVE  page' \in [Watched -> ClientStates]
  <2>1. wsStateChanged([page[p] EXCEPT !.sent = {}], "OFFLINE") \in ClientStates
    BY DEF wsStateChanged, ClientStates
  <2>2. view(NoGame) \in Views
    BY DEF view, NoGame, Views
  <2>3. INITIAL_STATE \in ClientStates /\ closedPage \in ClientStates
    BY <2>2 DEF INITIAL_STATE, closedPage, ClientStates
  <2>4. QED
    BY <1>10, <2>1, <2>3 DEF pageLoses, giveUp, reload
<1>11. ASSUME NEW p \in Players, NEW r \in Rooms, others(p, r)
       PROVE  page' \in [Watched -> ClientStates]
  <2>1. CASE deliver(r, [q \in Watched |->
               IF Online(q) /\ Seated(q, r) THEN playerJoined(page[q]) ELSE page[q]])
    <3> DEFINE new == [q \in Watched |->
                 IF Online(q) /\ Seated(q, r) THEN playerJoined(page[q]) ELSE page[q]]
    <3>1. \A q \in Watched : new[q] \in ClientStates
      BY ReducerFacts DEF Stays
    <3>2. deliver(r, new)
      BY <2>1
    <3> HIDE DEF new
    <3>3. QED
      BY <3>1, <3>2, DeliverFacts
  <2>2. CASE deliver(r, [q \in Watched |-> opponentLeft(r, q)])
    <3> DEFINE new == [q \in Watched |-> opponentLeft(r, q)]
    <3>1. \A q \in Watched : new[q] \in ClientStates
      BY LeftBehindType
    <3>2. deliver(r, new)
      BY <2>2
    <3> HIDE DEF new
    <3>3. QED
      BY <3>1, <3>2, DeliverFacts
  <2>3. CASE deliverStart(r) \/ deliver(r, page) \/ deliverMove(p, r)
    BY <2>3, DeliverFacts, DeliverStartType, DeliverMoveType
  <2>4. QED
    BY <1>11, <2>1, <2>2, <2>3 DEF others
<1>12. ASSUME NEW p \in Players, NEW r \in Rooms, windowExpires(p, r)
       PROVE  page' \in [Watched -> ClientStates]
  <2> DEFINE new == [q \in Watched |->
               IF ~Listed(r, q) THEN page[q]
               ELSE playerLeft(IF Active(r) THEN gameFinished(page[q]) ELSE page[q])]
  <2>1. deliver(r, new)
    BY <1>12 DEF windowExpires
  <2>2. \A q \in Watched : new[q] \in ClientStates
    BY LeftBehindType
  <2> HIDE DEF new
  <2>3. QED
    BY <2>1, <2>2, DeliverFacts
<1>13. ASSUME NEW r, UNCHANGED page \/ deliver(r, page)
       PROVE  page' \in [Watched -> ClientStates]
  BY <1>13, DeliverFacts
<1>14. QED
  BY <1>1, <1>2, <1>3, <1>4, <1>5, <1>6, <1>7, <1>8, <1>9, <1>10, <1>11, <1>12, <1>13
  DEF PageNext, serverLoses, rematchExpires

\* Windows are armed in games there are.
LEMMA ArmedType ==
  ASSUME TypeOK, PageTypeOK, PageNext
  PROVE  armedIn' \in [Watched -> 0..MaxGames]
<1>1. ASSUME NEW p \in Players, serverLoses(p) PROVE armedIn' \in [Watched -> 0..MaxGames]
  <2>1. CASE UNCHANGED armedIn
    BY <2>1 DEF PageTypeOK
  <2>2. CASE sessionRoom[p] # NoRoom /\ p \in Watched
             /\ armedIn' = [armedIn EXCEPT ![p] = game[sessionRoom[p]].id]
    <3>1. sessionRoom[p] \in Rooms
      BY <2>2 DEF TypeOK
    <3>2. game[sessionRoom[p]].id \in 0..MaxGames
      BY <3>1, IdFacts
    <3>3. QED
      BY <2>2, <3>2 DEF PageTypeOK
  <2>3. QED
    BY <1>1, <2>1, <2>2 DEF serverLoses
<1>2. QED
  BY <1>1 DEF PageNext, PageTypeOK, windowExpires, rematchExpires

\* The pages have their types at first.
LEMMA PageTypeInit == PageInit => PageTypeOK
BY PageInvInit DEF PInv

\* The pages have their types in every reachable state.
THEOREM PagesTypeCorrect == PageSpec => []PageTypeOK
<1> DEFINE Types == TypeOK /\ PageTypeOK
<1>1. PageInit => Types
  BY PageTypeInit, TypeInit DEF PageInit
<1>2. Types /\ [PageNext]_pageVars => Types'
  <2> SUFFICES ASSUME Types, [PageNext]_pageVars PROVE Types'
    OBVIOUS
  <2>1. [Next]_vars
    BY PageStepIsRoomStep DEF pageVars, vars
  <2>2. TypeOK'
    BY <2>1, TypeStep
  <2>3. CASE PageNext
    <3>1. page' \in [Watched -> ClientStates]
      BY <2>2, <2>3, PageTypeStep
    <3>2. armedIn' \in [Watched -> 0..MaxGames]
      BY <2>3, ArmedType
    <3>3. QED
      BY <2>2, <3>1, <3>2 DEF PageTypeOK
  <2>4. CASE UNCHANGED pageVars
    BY <2>2, <2>4 DEF pageVars, PageTypeOK
  <2>5. QED
    BY <2>3, <2>4
<1>3. QED
  BY <1>1, <1>2, PTL DEF PageSpec

-----------------------------------------------------------------------------
\* The steps keep the invariant.
LEMMA PageInvStep == PInv /\ NoStrayWindow /\ [PageNext]_pageVars => PInv'
<1> SUFFICES ASSUME PInv, NoStrayWindow, [PageNext]_pageVars PROVE PInv'
  OBVIOUS
<1>1. CASE PageNext
  <2>1. RoomsInv' /\ TypeOK' /\ PageStep
    BY <1>1, EveryStep
  <2>2. \A q \in Watched, s \in Rooms : q \in window'[s] =>
          \/ q \in window[s] /\ armedIn'[q] = armedIn[q]
          \/ /\ q \notin linked' /\ UNCHANGED game /\ Active(s)
             /\ armedIn'[q] = game[s].id
    BY <1>1, WindowStep
  <2>3. \A s \in Rooms : /\ game[s].id \in Nat /\ game'[s].id \in Nat
                         /\ game'[s].id >= game[s].id
                         /\ Active(s)' => Active(s) \/ game'[s].id > game[s].id
    BY <1>1, PageStepIsRoomStep, GamesGoOn DEF PInv, RoomsInv
  <2>4. ASSUME NEW q \in Watched, NEW s \in Rooms, q \in window'[s]
        PROVE  /\ armedIn'[q] \in 1..game'[s].id
               /\ Knows(q, s)' /\ Active(s)' => armedIn'[q] < game'[s].id
    <3>1. CASE q \in window[s] /\ armedIn'[q] = armedIn[q]
      <4>1. /\ armedIn[q] \in 1..game[s].id
            /\ Knows(q, s) /\ Active(s) => armedIn[q] < game[s].id
        BY <3>1 DEF PInv, WindowsAreOld
      <4>2. Knows(q, s)' => Knows(q, s) \/ ~Active(s)'
        BY <2>1, <2>4 DEF PageStep, Kept
      <4>3. QED
        BY <2>3, <3>1, <4>1, <4>2
    <3>2. CASE /\ q \notin linked' /\ UNCHANGED game /\ Active(s)
               /\ armedIn'[q] = game[s].id
      <4>1. game[s].id \in 1..game[s].id
        BY <3>2, Basics, ActiveIsStarted DEF StartedGames
      <4>2. ~Knows(q, s)'
        BY <3>2 DEF Knows, Online
      <4>3. QED
        BY <3>2, <4>1, <4>2
    <3>3. QED
      BY <2>2, <2>4, <3>1, <3>2
  <2>5. WindowsAreOld'
    BY <2>4 DEF WindowsAreOld
  <2>6. armedIn' \in [Watched -> 0..MaxGames]
    BY <1>1, Basics, ArmedType
  <2>7. QED
    BY <2>1, <2>5, <2>6 DEF PInv, PageTypeOK, PageStep, Kept
<1>2. CASE UNCHANGED pageVars
  <2>1. UNCHANGED vars /\ UNCHANGED <<page, armedIn>>
    BY <1>2 DEF pageVars, vars
  <2>2. IInv'
    BY <2>1, TypeStep, OutcomeStep, PurgedStep, ActiveStep, SeatStep, CleanStep,
       SessionStep, HistoryStep, ProposalStep DEF PInv, RoomsInv, IInv
  <2>3. \A p, r : getSymbolForPlayer(r, p)' = getSymbolForPlayer(r, p)
    BY <2>1 DEF vars, getSymbolForPlayer
  <2>4. RoomsInv'
    BY <2>1, <2>2, <2>3 DEF vars, PInv, RoomsInv, KnownSlots, Seated
  <2>5. \A q \in Watched : Kept(q)
    BY <2>1, SamePage, SameKept DEF vars
  <2>6. WindowsAreOld'
    BY <2>1, <2>3 DEF PInv, WindowsAreOld, vars, Knows, Online, Seated, Active
  <2>7. QED
    BY <2>1, <2>4, <2>5, <2>6 DEF PInv, PageTypeOK, Kept
<1>3. QED
  BY <1>1, <1>2

\* What every page of a connected player believes of its room is backed by what the
\* server has listed, as long as no window strikes another room than its own.
THEOREM PagesInvariant == PageSpec /\ []NoStrayWindow => []PInv
BY PageInvInit, PageInvStep, PTL DEF PageSpec

\* A settled page shows the game of its room as it is, whatever was lost, left,
\* replaced or snapshotted, as long as no window of a room its player has left
\* strikes another.
THEOREM SettledPagesAreRight == PageSpec /\ []NoStrayWindow => []SettledPageIsRight
<1>1. PInv => SettledPageIsRight
  BY DEF PInv, PageInv, SettledPageIsRight, Settled, Knows, Right
<1>2. QED
  BY <1>1, PagesInvariant, PTL

\* A game is abandoned by the window that runs for the player who loses the slot.
LEMMA AbandonedByWindow ==
  ASSUME PInv, PageNext, NEW p \in Players, NEW r \in Rooms,
         Active(r), Seated(p, r), ~Seated(p, r)', game'[r].outcome = "ABANDONED"
  PROVE  p \in window[r]
<1>1. game[r].outcome = NoSymbol
  BY DEF PInv, RoomsInv, IInv, NoEarlyOutcome
<1>2. ASSUME NEW q \in Players, NEW s \in Rooms, NEW o,
             endIfActive(s, q, o), removePlayer(s, q)
      PROVE  s = r /\ q = p /\ o = "ABANDONED"
  <2>1. s = r /\ o = "ABANDONED"
    BY <1>1, <1>2, Basics, EndFacts DEF NoSymbol
  <2>2. q = p
    BY <1>2, <2>1, Basics, RemovedIsGone DEF Seated
  <2>3. QED
    BY <2>1, <2>2
<1>3. seat' # seat
  BY DEF Seated, getSymbolForPlayer
<1>4. ASSUME NEW q \in Players, NEW s \in Rooms, handleJoinRoom(q, s) PROVE FALSE
  BY <1>1, <1>4 DEF handleJoinRoom, NoSymbol
<1>5. [Next]_vars /\ UNCHANGED purged
  BY PageStepIsRoomStep
<1>6. ASSUME NEW s \in Rooms, purgeRoom(s) PROVE FALSE
  BY <1>5, <1>6 DEF purgeRoom
<1>7. \/ \E q \in Players, s \in Rooms : handleLeaveRoom(q, s)
      \/ \E q \in Players, s \in Rooms : expireReconnectWindow(q, s)
  BY <1>3, <1>4, <1>5, <1>6 DEF Next, vars, handleAuth, closeUnnoticed,
     handleDisconnect, handlePlayerReady, handleMakeMove, handleRequestRematch,
     handleAcceptRematch, handleDeclineRematch, handleReconnect, expireRematch
<1>8. QED
  BY <1>2, <1>7 DEF handleLeaveRoom, expireReconnectWindow

\* Who is back in time keeps the game: only a window of an earlier game can still
\* abandon it.
THEOREM BackInTimeKeepsTheGame == PageSpec /\ []NoStrayWindow => BackInTimeKeepsGame
<1>1. PInv /\ [PageNext]_pageVars =>
        [\A p \in Watched, r \in Rooms :
           Active(r) /\ Settled(p, r) /\ ~Seated(p, r)' /\ game'[r].outcome = "ABANDONED" =>
             armedIn[p] < game[r].id]_pageVars
  <2> SUFFICES ASSUME PInv, PageNext, NEW p \in Watched, NEW r \in Rooms,
                      Active(r), Settled(p, r), ~Seated(p, r)',
                      game'[r].outcome = "ABANDONED"
               PROVE  armedIn[p] < game[r].id
    OBVIOUS
  <2>1. p \in window[r]
    BY AbandonedByWindow DEF Settled
  <2>2. QED
    BY <2>1 DEF PInv, WindowsAreOld, Settled, Knows
<1>2. QED
  BY <1>1, PagesInvariant, PTL DEF PageSpec, BackInTimeKeepsGame

\* With a single room there is no other for a window to strike: both hold without
\* a further condition, for any players and any number of games.
THEOREM OneRoomIsSafe ==
  ASSUME \A q, r \in Rooms : q = r
  PROVE  PageSpec => []SettledPageIsRight /\ BackInTimeKeepsGame
<1>1. NoStrayWindow
  BY DEF NoStrayWindow
<1>2. QED
  BY <1>1, SettledPagesAreRight, BackInTimeKeepsTheGame, PTL
=============================================================================
