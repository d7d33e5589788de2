----------------------------- MODULE RoomSession -----------------------------
(***************************************************************************)
(* The server side of a room: the slots of RoomStore, the room association *)
(* of SessionStore, the game and rematch state and the timers of           *)
(* GameSession, and the handlers of commandHandler.ts that drive them.     *)
(* Node runs one handler or timer callback at a time, so each is one       *)
(* action; what interleaves are the commands of the players, the closing   *)
(* of their connections and the two kinds of timers.                       *)
(*                                                                         *)
(* Abstracted: the board (module Engine) to the choice of whether an       *)
(* accepted move ends the game; a player's sessions and tokens to the      *)
(* player; sequence numbers, events, names and timestamps are left out.    *)
(* A command that is answered with an error, or whose handler changes      *)
(* nothing kept here (a JOIN_ROOM of a seated player, SYNC_REQUEST, PING,  *)
(* a repeated PLAYER_READY), is a stuttering step.  Which connection ends  *)
(* reach handleDisconnect is the subject of module Connections; here both  *)
(* a noticed and an unnoticed one may happen at any time.  A room's id is  *)
(* random: one that was deleted is not made again.                         *)
(***************************************************************************)
EXTENDS Naturals

CONSTANTS
  Players, NoPlayer,
  Rooms, NoRoom,
  MaxGames             \* bound: games started in one room

ASSUME NoPlayerAssumption == NoPlayer \notin Players
ASSUME NoRoomAssumption == NoRoom \notin Rooms
ASSUME MaxGamesAssumption == MaxGames \in Nat

VARIABLES
  linked,      \* the players that have an authenticated connection
  sessionRoom, \* PlayerSession.roomId
  seat,        \* RoomRecord.playerX and playerO: who sits there
  connected,   \* PlayerSlot.connected of the occupied slots
  ready,       \* RoomRecord.readySymbols
  game,        \* GameSession.gameState
  completed,   \* the ids in GameSession.completedGames
  rematch,     \* GameSession.rematch and the game id its timer carries
  window,      \* the players in GameSession.reconnectTimers
  purged       \* the rooms that RoomStore has deleted

vars == <<linked, sessionRoom, seat, connected, ready, game, completed,
          rematch, window, purged>>

Symbols == {"X", "O"}
NoSymbol == "none"
opponent(s) == IF s = "X" THEN "O" ELSE "X"

\* No game yet: gameState is null.  The games of a room are numbered from 1.
NoGame ==
  [id |-> 0, status |-> "WAITING", player |-> [s \in Symbols |-> NoPlayer],
   turn |-> NoSymbol, firstTurn |-> NoSymbol,
   outcome |-> NoSymbol, winner |-> NoSymbol]

\* acceptedBy is a set of symbols in the code; here it also says who accepted.
NoRematch == [gameId |-> 0, acceptedBy |-> [s \in Symbols |-> NoPlayer]]

-----------------------------------------------------------------------------
\* Slots.

getSymbolForPlayer(r, p) ==
  IF seat[r]["X"] = p THEN "X" ELSE IF seat[r]["O"] = p THEN "O" ELSE NoSymbol

Seated(p, r) == getSymbolForPlayer(r, p) # NoSymbol

BothSeated(r) == \A s \in Symbols : seat[r][s] # NoPlayer

\* The first free slot, X before O.
addPlayer(r, p) ==
  \E s \in Symbols :
    /\ seat[r][s] = NoPlayer
    /\ s = "O" => seat[r]["X"] # NoPlayer
    /\ seat' = [seat EXCEPT ![r][s] = p]
    /\ connected' = [connected EXCEPT ![r] = @ \cup {s}]

\* Mistaken variant of removePlayer: the slot is freed but stays ready.
removePlayerKeepsReady(r, p) ==
  LET s == getSymbolForPlayer(r, p) IN
  /\ seat' = [seat EXCEPT ![r] = [t \in Symbols |-> IF t = s THEN NoPlayer ELSE @[t]]]
  /\ connected' = [connected EXCEPT ![r] = @ \ {s}]
  /\ UNCHANGED ready

removePlayer(r, p) ==
  LET s == getSymbolForPlayer(r, p) IN
  /\ seat' = [seat EXCEPT ![r] = [t \in Symbols |-> IF t = s THEN NoPlayer ELSE @[t]]]
  /\ connected' = [connected EXCEPT ![r] = @ \ {s}]
  /\ ready' = [ready EXCEPT ![r] = @ \ {s}]

setConnected(r, p, isConnected) ==
  LET s == {getSymbolForPlayer(r, p)} \cap Symbols IN
  connected' = [connected EXCEPT ![r] = IF isConnected THEN @ \cup s ELSE @ \ s]

-----------------------------------------------------------------------------
\* The game of a room.

Active(r) == game[r].status = "ACTIVE"
Finished(r) == game[r].status = "FINISHED"

\* Mistaken variant of startGame: no check that both slots are taken.
startGameAnyway(r, first) ==
  /\ game[r].id < MaxGames
  /\ game' = [game EXCEPT ![r] =
       [id |-> @.id + 1, status |-> "ACTIVE", player |-> seat[r],
        turn |-> first, firstTurn |-> first,
        outcome |-> NoSymbol, winner |-> NoSymbol]]

startGame(r, first) ==
  IF BothSeated(r)
  THEN /\ game[r].id < MaxGames
       /\ game' = [game EXCEPT ![r] =
            [id |-> @.id + 1, status |-> "ACTIVE", player |-> seat[r],
             turn |-> first, firstTurn |-> first,
             outcome |-> NoSymbol, winner |-> NoSymbol]]
  ELSE UNCHANGED game

\* Mistaken variant of finishGame: a game without a winner is not recorded.
finishGameForgetsDraws(r, outcome, winner) ==
  /\ game' = [game EXCEPT ![r] =
       [@ EXCEPT !.status = "FINISHED", !.outcome = outcome, !.winner = winner]]
  /\ completed' = IF winner = NoSymbol THEN completed
                  ELSE [completed EXCEPT ![r] = @ \cup {game[r].id}]

\* The engine finishes the game and emitGameFinished records it.
finishGame(r, outcome, winner) ==
  /\ game' = [game EXCEPT ![r] =
       [@ EXCEPT !.status = "FINISHED", !.outcome = outcome, !.winner = winner]]
  /\ completed' = [completed EXCEPT ![r] = @ \cup {game[r].id}]

\* Mistaken variant of winnerWithout: the win goes to the one who gives up.
winnerIsLoser(r, p) ==
  IF game[r].player["X"] = p THEN "X"
  ELSE IF game[r].player["O"] = p THEN "O"
  ELSE NoSymbol

\* The engine's winner when p gives up: p's opponent, nobody if p is no player.
winnerWithout(r, p) ==
  IF game[r].player["X"] = p THEN "O"
  ELSE IF game[r].player["O"] = p THEN "X"
  ELSE NoSymbol

\* Mistaken variant of endIfActive: a game that is over is ended again.
endIfStarted(r, p, outcome) ==
  IF game[r] # NoGame THEN finishGame(r, outcome, winnerWithout(r, p))
  ELSE UNCHANGED <<game, completed>>

\* handleForfeit and handleAbandon return at once unless the game is ACTIVE.
endIfActive(r, p, outcome) ==
  IF Active(r) THEN finishGame(r, outcome, winnerWithout(r, p))
  ELSE UNCHANGED <<game, completed>>

-----------------------------------------------------------------------------
(***************************************************************************)
(* Mistaken variants of the handlers below, one bug each.  No action uses  *)
(* them: they stand in for the handler to show which property notices.     *)
(***************************************************************************)

\* A player who has a slot already may take the other one.
joinTwice(p, r) ==
  /\ p \in linked
  /\ r \notin purged
  /\ sessionRoom[p] \in {NoRoom, r}
  /\ addPlayer(r, p)
  /\ sessionRoom' = [sessionRoom EXCEPT ![p] = r]
  /\ UNCHANGED <<linked, ready, game, completed, rematch, window, purged>>

\* The slot is freed without a forfeit.
leaveKeepsGame(p, r) ==
  /\ p \in linked
  /\ Seated(p, r)
  /\ removePlayer(r, p)
  /\ sessionRoom' = [sessionRoom EXCEPT ![p] = NoRoom]
  /\ UNCHANGED <<linked, game, completed, rematch, window, purged>>

\* X opens every game that PLAYER_READY starts.
readyAlwaysX(p, r) ==
  LET s == getSymbolForPlayer(r, p)
      everyone == ready[r] \cup {s} = Symbols
  IN
  /\ p \in linked
  /\ BothSeated(r)
  /\ Seated(p, r)
  /\ s \notin ready[r]
  /\ ready' = [ready EXCEPT ![r] = IF everyone THEN {} ELSE @ \cup {s}]
  /\ IF everyone THEN startGame(r, "X") ELSE UNCHANGED game
  /\ UNCHANGED <<linked, sessionRoom, seat, connected, completed, rematch, window, purged>>

\* One ready player is enough.
readyAlone(p, r) ==
  /\ p \in linked
  /\ BothSeated(r)
  /\ Seated(p, r)
  /\ ready' = [ready EXCEPT ![r] = {}]
  /\ startGame(r, IF game[r].firstTurn = "X" THEN "O" ELSE "X")
  /\ UNCHANGED <<linked, sessionRoom, seat, connected, completed, rematch, window, purged>>

\* The window is not stopped when its player comes back.
reconnectKeepsWindow(p, r) ==
  /\ p \in linked
  /\ Seated(p, r)
  /\ setConnected(r, p, TRUE)
  /\ sessionRoom' = [sessionRoom EXCEPT ![p] = r]
  /\ UNCHANGED <<linked, seat, ready, game, completed, rematch, window, purged>>

\* The window only acts once the game is over.
expireOutsideGame(p, r) ==
  /\ p \in window[r]
  /\ ~Active(r)
  /\ removePlayer(r, p)
  /\ sessionRoom' = [sessionRoom EXCEPT ![p] = NoRoom]
  /\ window' = [window EXCEPT ![r] = @ \ {p}]
  /\ UNCHANGED <<linked, game, completed, rematch, purged>>

\* The association is not cleared when the slot is freed.
expireKeepsRoom(p, r) ==
  /\ p \in window[r]
  /\ endIfActive(r, p, "ABANDONED")
  /\ removePlayer(r, p)
  /\ window' = [window EXCEPT ![r] = @ \ {p}]
  /\ UNCHANGED <<linked, sessionRoom, rematch, purged>>

-----------------------------------------------------------------------------
Init ==
  /\ linked = {}
  /\ sessionRoom = [p \in Players |-> NoRoom]
  /\ seat = [r \in Rooms |-> [s \in Symbols |-> NoPlayer]]
  /\ connected = [r \in Rooms |-> {}]
  /\ ready = [r \in Rooms |-> {}]
  /\ game = [r \in Rooms |-> NoGame]
  /\ completed = [r \in Rooms |-> {}]
  /\ rematch = [r \in Rooms |-> NoRematch]
  /\ window = [r \in Rooms |-> {}]
  /\ purged = {}

\* A first connection authenticates; an association with a room whose slot is
\* gone is dropped.
handleAuth(p) ==
  /\ p \notin linked
  /\ linked' = linked \cup {p}
  /\ sessionRoom' = [sessionRoom EXCEPT ![p] =
       IF @ # NoRoom /\ Seated(p, @) THEN @ ELSE NoRoom]
  /\ UNCHANGED <<seat, connected, ready, game, completed, rematch, window, purged>>

\* The last connection of p closes.
handleDisconnect(p) ==
  LET r == sessionRoom[p] IN
  /\ p \in linked
  /\ linked' = linked \ {p}
  /\ IF r = NoRoom \/ r \in purged THEN UNCHANGED <<connected, window>>
     ELSE /\ setConnected(r, p, FALSE)
          /\ window' = IF Active(r) THEN [window EXCEPT ![r] = @ \cup {p}] ELSE window
  /\ UNCHANGED <<sessionRoom, seat, ready, game, completed, rematch, purged>>

\* The last connection of p is gone and handleDisconnect did not run: the server
\* closed it (idle timeout, expired session), or the registry still holds one
\* that it closed before.
closeUnnoticed(p) ==
  /\ p \in linked
  /\ linked' = linked \ {p}
  /\ UNCHANGED <<sessionRoom, seat, connected, ready, game, completed, rematch, window, purged>>

\* A player who has a slot already is only answered with a snapshot.
handleJoinRoom(p, r) ==
  /\ p \in linked
  /\ r \notin purged
  /\ sessionRoom[p] \in {NoRoom, r}
  /\ ~Seated(p, r)
  /\ addPlayer(r, p)
  /\ sessionRoom' = [sessionRoom EXCEPT ![p] = r]
  /\ UNCHANGED <<linked, ready, game, completed, rematch, window, purged>>

handleLeaveRoom(p, r) ==
  /\ p \in linked
  /\ Seated(p, r)
  /\ endIfActive(r, p, "FORFEIT")
  /\ removePlayer(r, p)
  /\ sessionRoom' = [sessionRoom EXCEPT ![p] = NoRoom]
  /\ UNCHANGED <<linked, rematch, window, purged>>

\* The second player to be ready starts a game, whatever the status of the last.
handlePlayerReady(p, r) ==
  LET s == getSymbolForPlayer(r, p)
      everyone == ready[r] \cup {s} = Symbols
  IN
  /\ p \in linked
  /\ BothSeated(r)
  /\ Seated(p, r)
  /\ s \notin ready[r]
  /\ ready' = [ready EXCEPT ![r] = IF everyone THEN {} ELSE @ \cup {s}]
  /\ IF everyone
     THEN startGame(r, IF game[r].firstTurn = "X" THEN "O" ELSE "X")
     ELSE UNCHANGED game
  /\ UNCHANGED <<linked, sessionRoom, seat, connected, completed, rematch, window, purged>>

\* An accepted move: the engine knows the game's players, not who is seated.
handleMakeMove(p, r) ==
  LET s == game[r].turn IN
  /\ p \in linked
  /\ r \notin purged
  /\ Active(r)
  /\ p = game[r].player[s]
  /\ \/ /\ game' = [game EXCEPT ![r].turn = opponent(s)]
        /\ UNCHANGED completed
     \/ finishGame(r, "WIN", s)
     \/ finishGame(r, "DRAW", NoSymbol)
  /\ UNCHANGED <<linked, sessionRoom, seat, connected, ready, rematch, window, purged>>

handleRequestRematch(p, r) ==
  /\ p \in linked
  /\ rematch[r] = NoRematch
  /\ Finished(r)
  /\ Seated(p, r)
  /\ rematch' = [rematch EXCEPT ![r] =
       [gameId |-> game[r].id,
        acceptedBy |-> [NoRematch.acceptedBy EXCEPT ![getSymbolForPlayer(r, p)] = p]]]
  /\ UNCHANGED <<linked, sessionRoom, seat, connected, ready, game, completed, window, purged>>

handleAcceptRematch(p, r) ==
  LET accepted == [rematch[r].acceptedBy EXCEPT ![getSymbolForPlayer(r, p)] = p]
      everyone == \A s \in Symbols : accepted[s] # NoPlayer
  IN
  /\ p \in linked
  /\ rematch[r] # NoRematch
  /\ Finished(r)
  /\ Seated(p, r)
  /\ IF everyone
     THEN /\ rematch' = [rematch EXCEPT ![r] = NoRematch]
          /\ ready' = [ready EXCEPT ![r] = {}]
          /\ startGame(r, opponent(game[r].firstTurn))
     ELSE /\ rematch' = [rematch EXCEPT ![r].acceptedBy = accepted]
          /\ UNCHANGED <<ready, game>>
  /\ UNCHANGED <<linked, sessionRoom, seat, connected, completed, window, purged>>

handleDeclineRematch(p, r) ==
  /\ p \in linked
  /\ rematch[r] # NoRematch
  /\ Seated(p, r)
  /\ rematch' = [rematch EXCEPT ![r] = NoRematch]
  /\ UNCHANGED <<linked, sessionRoom, seat, connected, ready, game, completed, window, purged>>

handleReconnect(p, r) ==
  /\ p \in linked
  /\ Seated(p, r)
  /\ setConnected(r, p, TRUE)
  /\ sessionRoom' = [sessionRoom EXCEPT ![p] = r]
  /\ window' = [window EXCEPT ![r] = @ \ {p}]
  /\ UNCHANGED <<linked, seat, ready, game, completed, rematch, purged>>

\* REMATCH_TIMEOUT_MS has passed.
expireRematch(r) ==
  /\ rematch[r] # NoRematch
  /\ rematch' = [rematch EXCEPT ![r] = NoRematch]
  /\ UNCHANGED <<linked, sessionRoom, seat, connected, ready, game, completed, window, purged>>

\* RECONNECT_WINDOW_MS has passed: the callback of startReconnectWindow and the
\* onPlayerLeft callback it ends with.
expireReconnectWindow(p, r) ==
  /\ p \in window[r]
  /\ endIfActive(r, p, "ABANDONED")
  /\ removePlayer(r, p)
  /\ sessionRoom' = [sessionRoom EXCEPT ![p] = NoRoom]
  /\ window' = [window EXCEPT ![r] = @ \ {p}]
  /\ UNCHANGED <<linked, rematch, purged>>

\* ROOM_TTL_MS has passed without a join, a leave, a disconnect or a reconnect,
\* whatever was played meanwhile; a window is armed at a disconnect and is much
\* shorter.  The record goes with its slots; sessions, GameSession and its
\* timers keep what they have.
purgeRoom(r) ==
  /\ r \notin purged
  /\ window[r] = {}
  /\ purged' = purged \cup {r}
  /\ seat' = [seat EXCEPT ![r] = [s \in Symbols |-> NoPlayer]]
  /\ connected' = [connected EXCEPT ![r] = {}]
  /\ ready' = [ready EXCEPT ![r] = {}]
  /\ UNCHANGED <<linked, sessionRoom, game, completed, rematch, window>>

Next ==
  \/ \E p \in Players : handleAuth(p)
  \/ \E p \in Players : handleDisconnect(p)
  \/ \E p \in Players : closeUnnoticed(p)
  \/ \E p \in Players, r \in Rooms : handleJoinRoom(p, r)
  \/ \E p \in Players, r \in Rooms : handleLeaveRoom(p, r)
  \/ \E p \in Players, r \in Rooms : handlePlayerReady(p, r)
  \/ \E p \in Players, r \in Rooms : handleMakeMove(p, r)
  \/ \E p \in Players, r \in Rooms : handleRequestRematch(p, r)
  \/ \E p \in Players, r \in Rooms : handleAcceptRematch(p, r)
  \/ \E p \in Players, r \in Rooms : handleDeclineRematch(p, r)
  \/ \E p \in Players, r \in Rooms : handleReconnect(p, r)
  \/ \E r \in Rooms : expireRematch(r)
  \/ \E p \in Players, r \in Rooms : expireReconnectWindow(p, r)
  \/ \E r \in Rooms : purgeRoom(r)

\* Node fires every timer that is not cleared; nothing makes a player act.
Fairness ==
  /\ \A r \in Rooms : WF_vars(expireRematch(r))
  /\ \A p \in Players, r \in Rooms : WF_vars(expireReconnectWindow(p, r))

Spec == Init /\ [][Next]_vars /\ Fairness

-----------------------------------------------------------------------------
\* Properties that hold.

Occupied(r) == {s \in Symbols : seat[r][s] # NoPlayer}

StartedGames ==
  [id : 1..MaxGames, status : {"ACTIVE", "FINISHED"}, player : [Symbols -> Players],
   turn : Symbols, firstTurn : Symbols,
   outcome : {NoSymbol, "WIN", "DRAW", "FORFEIT", "ABANDONED"},
   winner : Symbols \cup {NoSymbol}]

Proposals ==
  [gameId : 0..MaxGames, acceptedBy : [Symbols -> Players \cup {NoPlayer}]]

\* Every variable has its type.
TypeOK ==
  /\ linked \subseteq Players
  /\ sessionRoom \in [Players -> Rooms \cup {NoRoom}]
  /\ seat \in [Rooms -> [Symbols -> Players \cup {NoPlayer}]]
  /\ connected \in [Rooms -> SUBSET Symbols]
  /\ ready \in [Rooms -> SUBSET Symbols]
  /\ game \in [Rooms -> {NoGame} \cup StartedGames]
  /\ completed \in [Rooms -> SUBSET (1..MaxGames)]
  /\ rematch \in [Rooms -> Proposals]
  /\ window \in [Rooms -> SUBSET Players]
  /\ purged \subseteq Rooms

\* The two players of a game in progress are the two players seated in its
\* room, each under the symbol the game knows: handleMakeMove trusts the ids
\* of the game, events are routed by the slots, and the two are kept in step
\* only by what LEAVE_ROOM and the reconnect window do to the game first.
ActiveGameSeated ==
  \A r \in Rooms \ purged : Active(r) => BothSeated(r) /\ game[r].player = seat[r]

\* Nobody plays against himself: a player has at most one of a room's slots.
OneSeatPerRoom ==
  \A r \in Rooms : BothSeated(r) => seat[r]["X"] # seat[r]["O"]

\* A slot that is free keeps nothing of its last occupant: it is neither ready
\* nor connected; and a room never rests with both players ready.
FreeSlotsAreClean ==
  \A r \in Rooms :
    /\ ready[r] \subseteq Occupied(r) /\ ready[r] # Symbols
    /\ connected[r] \subseteq Occupied(r)

\* The slots of a room say who is there and nothing of who was.
SlotsInOrder == OneSeatPerRoom /\ FreeSlotsAreClean

\* ALREADY_IN_ROOM is only ever said to a player who is in a room, or whose
\* room has expired: a session points at no other room without a slot in it.
SessionRoomSeated ==
  \A p \in Players :
    LET r == sessionRoom[p] IN r # NoRoom => Seated(p, r) \/ r \in purged

\* The history of a room holds its finished games and no other: the last game
\* is in it exactly when it is over.
HistoryIsOfFinishedGames ==
  \A r \in Rooms :
    /\ completed[r] \subseteq 1..game[r].id
    /\ game[r].id \in completed[r] <=> Finished(r)

\* A pending proposal waits for exactly one more slot and is about a game that
\* was finished, whoever left, joined or became ready since.
ProposalWaitsForOneSlot ==
  \A r \in Rooms : rematch[r] # NoRematch =>
    /\ \E s \in Symbols : rematch[r].acceptedBy[s] # NoPlayer
                        /\ rematch[r].acceptedBy[opponent(s)] = NoPlayer
    /\ rematch[r].gameId \in completed[r]

\* The opener alternates over all the games of a room, X opening the first,
\* whether a game came from PLAYER_READY or from a rematch.
OpenerAlternates ==
  [][\A r \in Rooms : game'[r].id # game[r].id =>
       /\ game'[r].id = game[r].id + 1
       /\ game'[r].firstTurn = IF game[r].id = 0 THEN "X"
                               ELSE opponent(game[r].firstTurn)]_vars

\* A verdict is final: nothing about a finished game changes until the next one.
VerdictIsFinal ==
  [][\A r \in Rooms : Finished(r) /\ game'[r] # game[r] =>
       game'[r].id > game[r].id]_vars

\* Whoever gives a game up loses the slot with it: a game that ends by forfeit,
\* or is abandoned by one of its players, frees the loser's slot in that step
\* and leaves the winner seated; a forfeit always has a winner.
LoserLosesSlot ==
  [][\A r \in Rooms :
       Active(r) /\ game'[r].outcome \in {"FORFEIT", "ABANDONED"} =>
         LET w == game'[r].winner IN
         /\ game'[r].outcome = "FORFEIT" => w \in Symbols
         /\ w \in Symbols => /\ seat'[r][opponent(w)] = NoPlayer
                             /\ seat'[r][w] = seat[r][w]]_vars

\* A game in progress is replaced only with the consent of both its players: no
\* acceptance of an old rematch and no timer starts another over it, and the one
\* who has not just become ready had a ready mark of his own.
GameReplacedByConsent ==
  [][\A r \in Rooms : Active(r) /\ game'[r].id # game[r].id =>
       /\ ready[r] # {} /\ ready'[r] = {}
       /\ game'[r].player = game[r].player /\ seat'[r] = game[r].player]_vars

\* What a spectator of the rooms sees of their games: module Series.
Games ==
  INSTANCE Series WITH
    Tables <- Rooms, People <- Players,
    number <- [r \in Rooms |-> game[r].id],
    sides <- [r \in Rooms |-> game[r].player],
    opener <- [r \in Rooms |-> game[r].firstTurn],
    turn <- [r \in Rooms |-> game[r].turn],
    verdict <- [r \in Rooms |->
      [how |-> game[r].outcome, winner |-> game[r].winner]],
    recorded <- completed

\* The games of a room are a series: openers alternate, verdicts are final,
\* exactly the games that ended are recorded, whoever is seated, replaced,
\* away, and whichever timers are running.
ImplementsSeries == Games!SeriesSpec

\* A game whose player is away under a running window does not wait forever:
\* it ends, or is replaced, or the player is back.
AwayPlayerIsResolved ==
  \A p \in Players, r \in Rooms, n \in 1..MaxGames :
    (/\ p \in window[r]
     /\ game[r].id = n /\ Active(r)
     /\ \E s \in Symbols : game[r].player[s] = p)
    ~> (\/ game[r].id > n
        \/ Finished(r)
        \/ \E s \in connected[r] : seat[r][s] = p)

-----------------------------------------------------------------------------
\* What the code asserts of a game and does not keep.

\* verifyInvariants of engine.ts, TERMINAL_FORFEIT_HAS_WINNER: a game that was
\* forfeited or abandoned credits somebody with the win.
TerminalForfeitHasWinner ==
  \A r \in Rooms :
    game[r].outcome \in {"FORFEIT", "ABANDONED"} => game[r].winner # NoSymbol
=============================================================================
