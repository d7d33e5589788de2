-------------------------------- MODULE Client --------------------------------
(***************************************************************************)
(* What a browser does with an event of its room: the gap detection of     *)
(* WsClient.handleFrame, dispatchEvent of useWebSocket.ts and the reducer  *)
(* of gameStore.ts, as operators on the state of one client.  React's      *)
(* batching is left out: a dispatched action is in effect at once.         *)
(*                                                                         *)
(* Of the store, the fields that decide whether the player can act are     *)
(* kept: the confirmed game (the board as the number of marks on it), the  *)
(* pending move, the rematch controls and the opponent's connection.       *)
(***************************************************************************)
EXTENDS Naturals, Sequences

Symbols == {"X", "O"}
NoTurn == "none"
opponent(s) == IF s = "X" THEN "O" ELSE "X"

\* The view of a game: gameId (0 for null), gameStatus, board and turn.
NoGame == [id |-> 0, status |-> "WAITING", moves |-> 0, turn |-> "X"]

\* Every room event carries sessionSeq; most carry the game they tell of.
event(type, n, g) == [type |-> type, seq |-> n, game |-> g]
rematchRequested(n, s) == [type |-> "REMATCH_REQUESTED", seq |-> n, by |-> s]
notice(type, n) == [type |-> type, seq |-> n]
replaySync(n, events) == [type |-> "STATE_SYNC_REPLAY", seq |-> n, events |-> events]

-----------------------------------------------------------------------------
\* MOVE_ACK and MOVE_BROADCAST: nextTurn is null in the last event of a game.
moved(c, g) ==
  [c EXCEPT !.view.moves = g.moves,
            !.view.turn = IF g.status = "FINISHED" THEN @ ELSE g.turn]

\* The reducer's case for each event, with the lastReceivedSeq that follows it.
\* me is the symbol of the player.
reduce(me, c, e) ==
  LET next ==
        CASE e.type = "GAME_STARTED" ->
               [c EXCEPT !.lastSeq = 0, !.view = e.game, !.pending = FALSE,
                         !.rematch = "NONE"]
          [] e.type = "MOVE_ACK" -> [moved(c, e.game) EXCEPT !.pending = FALSE]
          [] e.type = "MOVE_BROADCAST" -> moved(c, e.game)
          [] e.type = "MOVE_REJECTED" ->
               [c EXCEPT !.view.moves = e.game.moves, !.view.turn = e.game.turn,
                         !.pending = FALSE]
          [] e.type = "GAME_FINISHED" ->
               [c EXCEPT !.view.moves = e.game.moves, !.view.status = "FINISHED",
                         !.pending = FALSE]
          [] e.type \in {"RECONNECT_ACK", "STATE_SYNC_SNAPSHOT"} ->
               [c EXCEPT !.view = e.game, !.pending = FALSE]
          [] e.type = "REMATCH_REQUESTED" ->
               [c EXCEPT !.rematch = IF e.by = me THEN "REQUESTED_BY_ME"
                                     ELSE "REQUESTED_BY_THEM"]
          [] e.type = "REMATCH_DECLINED" -> [c EXCEPT !.rematch = "DECLINED"]
          [] e.type = "REMATCH_EXPIRED" -> [c EXCEPT !.rematch = "EXPIRED"]
          [] e.type = "OPPONENT_DISCONNECTED" -> [c EXCEPT !.opponentAway = TRUE]
          [] e.type = "OPPONENT_RECONNECTED" -> [c EXCEPT !.opponentAway = FALSE]
          [] e.type = "READY" -> c
  IN [next EXCEPT !.storeSeq = e.seq]

\* The events that a replay brings, one after the other.
replay(me, c, es) ==
  LET after[i \in 0..Len(es)] ==
        IF i = 0 THEN c ELSE reduce(me, after[i - 1], es[i])
  IN after[Len(es)]

\* Mistaken variant of dispatchEvent: the pending move survives a sync.
dispatchKeepsPending(me, c, e) ==
  IF e.type = "STATE_SYNC_REPLAY"
  THEN [replay(me, c, e.events) EXCEPT !.storeSeq = e.seq]
  ELSE IF e.type \in {"RECONNECT_ACK", "STATE_SYNC_SNAPSHOT"}
  THEN [reduce(me, c, e) EXCEPT !.pending = c.pending]
  ELSE reduce(me, c, e)

dispatchEvent(me, c, e) ==
  IF e.type = "STATE_SYNC_REPLAY"
  THEN [replay(me, c, e.events) EXCEPT !.storeSeq = e.seq]
  ELSE reduce(me, c, e)

-----------------------------------------------------------------------------
IsStateSync(e) == e.type \in {"STATE_SYNC_REPLAY", "STATE_SYNC_SNAPSHOT"}

\* GAME_STARTED and STATE_SYNC set the sequence, any other event may show a gap.
HasGap(c, e) ==
  ~IsStateSync(e) /\ e.type # "GAME_STARTED" /\ e.seq > c.lastSeq + 1

\* handleFrame: an event behind a gap is dispatched all the same.
handleFrame(me, c, e) ==
  LET lastSeq == IF IsStateSync(e) \/ e.type = "GAME_STARTED" \/ e.seq = c.lastSeq + 1
                 THEN e.seq ELSE c.lastSeq
      d == dispatchEvent(me, [c EXCEPT !.lastSeq = lastSeq], e)
  IN IF IsStateSync(e) THEN [d EXCEPT !.lastSeq = e.seq] ELSE d

\* canMove, on an authenticated connection.
canMove(me, c) ==
  /\ c.view.status = "ACTIVE"
  /\ c.view.turn = me
  /\ ~c.pending
  /\ ~c.opponentAway
=============================================================================
