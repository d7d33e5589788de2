----------------------------- MODULE EventStream ------------------------------
(***************************************************************************)
(* The events of a room on their way to two browsers: the sequence numbers *)
(* and the replay buffer of GameSession, the delivery rules of makeSendFn, *)
(* RECONNECT and SYNC_REQUEST of commandHandler.ts, the two clients        *)
(* (module Client), and the connections between them, which deliver in     *)
(* order until they are lost with everything in transit.                   *)
(*                                                                         *)
(* Both players keep their slots: nobody leaves, and reconnect windows do  *)
(* not run out (module RoomSession has both).  A move is the choice of     *)
(* whether it ends the game; a move made against an older board may or may *)
(* not hit an occupied cell.  ERROR events, which the client ignores, are  *)
(* left out.                                                               *)
(***************************************************************************)
EXTENDS Client

CONSTANTS
  BufferSize,   \* EVENT_BUFFER_SIZE
  MaxMoves,     \* bound: moves in a game
  MaxGames,     \* bound: games
  Unlucky,      \* bound: the players whose connections are lost
  MaxDrops,     \* bound: connections lost
  MaxSeq        \* bound: no move, no request of a rematch once the sequence is here

ASSUME BoundsAssumption ==
  /\ BufferSize \in Nat \ {0}
  /\ MaxMoves \in Nat \ {0}
  /\ MaxGames \in Nat \ {0}
  /\ Unlucky \subseteq Symbols
  /\ MaxDrops \in Nat
  /\ MaxSeq \in Nat

VARIABLES
  seq,        \* GameSession.sessionSeq
  buffer,     \* GameSession.replayBuffer, with the players an entry replays to
  game,       \* GameSession.gameState
  accepted,   \* GameSession.rematch: who accepted, {} for no proposal
  connected,  \* the slots with connected = true
  link,       \* the connection of a player: up, lost, or down (the server knows)
  events,     \* events in transit to each client
  cmds,       \* commands in transit from each client
  client,     \* the state of each client
  drops       \* how many connections were lost

vars == <<seq, buffer, game, accepted, connected, link, events, cmds, client, drops>>
server == <<seq, buffer, game, accepted, connected>>

-----------------------------------------------------------------------------
\* Sending.  A message has the slots it is sent to, and the players it is
\* replayed to while it is in the buffer.

toPlayer(s, e) == [to |-> {s}, keep |-> {s}, event |-> e]
toOthers(s, e) == [to |-> connected \ {s}, keep |-> {opponent(s)}, event |-> e]
toBroadcast(e) == [to |-> connected, keep |-> Symbols, event |-> e]

\* The buffer and what is in transit, as a handler finds and leaves them.
stream == [buffer |-> buffer, events |-> events]
becomes(st) == buffer' = st.buffer /\ events' = st.events

\* An event for s goes out on the connection that is up; a lost one loses it.
send(st, m) ==
  [st EXCEPT !.events = [s \in Symbols |->
     IF s \in m.to /\ link[s] = "up" THEN Append(@[s], m.event) ELSE @[s]]]

\* Mistaken variant of push: the buffer is never trimmed.
pushUntrimmed(entries, m) == Append(entries, m)

\* The buffer keeps the last BufferSize entries.
push(entries, m) ==
  IF Len(entries) < BufferSize THEN Append(entries, m) ELSE Append(Tail(entries), m)

emit(st, m) == send([st EXCEPT !.buffer = push(@, m)], m)

\* The events from fromSeq on that s should have got.
relevant(entries, fromSeq, s) ==
  LET among[i \in 0..Len(entries)] ==
        IF i = 0 THEN <<>>
        ELSE IF s \in entries[i].keep /\ entries[i].event.seq >= fromSeq
        THEN Append(among[i - 1], entries[i].event)
        ELSE among[i - 1]
  IN among[Len(entries)]

\* Mistaken variant of getReplayEvents: the newest event is cut off.
getReplayEventsButLast(entries, currentSeq, fromSeq, s) ==
  LET es == relevant(entries, fromSeq, s) IN
  IF fromSeq > currentSeq \/ es = <<>> THEN <<>>
  ELSE IF es[1].seq > fromSeq THEN <<>>
  ELSE SubSeq(es, 1, Len(es) - 1)

\* getReplayEvents; null and the empty array mean the same to both callers.
getReplayEvents(entries, currentSeq, fromSeq, s) ==
  LET es == relevant(entries, fromSeq, s) IN
  IF fromSeq > currentSeq \/ es = <<>> THEN <<>>
  ELSE IF es[1].seq > fromSeq THEN <<>>
  ELSE es

stateSync(missed, currentSeq) ==
  IF missed # <<>> THEN replaySync(currentSeq, missed)
  ELSE event("STATE_SYNC_SNAPSHOT", currentSeq, game)

-----------------------------------------------------------------------------
NewGame(n) ==
  [id |-> n, status |-> "ACTIVE", moves |-> 0,
   turn |-> IF n % 2 = 1 THEN "X" ELSE "O"]

\* Both players are ready: the counter restarts with GAME_STARTED, which is sent
\* before the two answers to the last PLAYER_READY, numbered by the old one.
Init ==
  /\ seq = 1
  /\ game = NewGame(1)
  /\ buffer = <<[to |-> Symbols, keep |-> Symbols,
                 event |-> event("GAME_STARTED", 1, NewGame(1))]>>
  /\ accepted = {}
  /\ connected = Symbols
  /\ link = [s \in Symbols |-> "up"]
  /\ events = [s \in Symbols |->
       <<event("GAME_STARTED", 1, NewGame(1)),
         notice("READY", IF s = "X" THEN 7 ELSE 6)>>]
  /\ cmds = [s \in Symbols |-> <<>>]
  /\ client = [s \in Symbols |->
       [lastSeq |-> IF s = "X" THEN 4 ELSE 5, storeSeq |-> IF s = "X" THEN 4 ELSE 5,
        view |-> NoGame, pending |-> FALSE, rematch |-> "NONE",
        opponentAway |-> FALSE]]
  /\ drops = 0

\* The command of s that the server handles next is of the given type.
takes(s, type) ==
  /\ cmds[s] # <<>>
  /\ Head(cmds[s]).type = type
  /\ cmds' = [cmds EXCEPT ![s] = Tail(@)]

rejectMove(s) ==
  /\ seq' = seq + 1
  /\ becomes(emit(stream, toPlayer(s, event("MOVE_REJECTED", seq + 1, game))))
  /\ UNCHANGED game

acceptMove(s) ==
  \E over \in BOOLEAN :
    LET g == [game EXCEPT !.moves = @ + 1,
                          !.turn = IF over THEN s ELSE opponent(s),
                          !.status = IF over THEN "FINISHED" ELSE "ACTIVE"]
        ack == toPlayer(s, event("MOVE_ACK", seq + 1, g))
        broadcast == toOthers(s, event("MOVE_BROADCAST", seq + 2, g))
        finished == toBroadcast(event("GAME_FINISHED", seq + 3, g))
        told == emit(emit(stream, ack), broadcast)
    IN
    /\ game.moves + 1 = MaxMoves => over
    /\ game' = g
    /\ seq' = seq + (IF over THEN 3 ELSE 2)
    /\ becomes(IF over THEN emit(told, finished) ELSE told)

\* A move for another game, or after the end, is answered with an ERROR.
handleMakeMove(s) ==
  LET c == Head(cmds[s]) IN
  /\ takes(s, "MAKE_MOVE")
  /\ IF c.id # game.id \/ game.status # "ACTIVE"
     THEN UNCHANGED <<seq, buffer, game, events>>
     ELSE \/ game.turn = s /\ acceptMove(s)
          \/ (game.turn # s \/ c.moves # game.moves) /\ rejectMove(s)
  /\ UNCHANGED <<accepted, connected, link, client, drops>>

handleSyncRequest(s) ==
  LET missed == getReplayEvents(buffer, seq, Head(cmds[s]).fromSeq, s) IN
  /\ takes(s, "SYNC_REQUEST")
  /\ becomes(send(stream, toPlayer(s, stateSync(missed, seq))))
  /\ UNCHANGED <<seq, game, accepted, connected, link, client, drops>>

\* Mistaken variants of handleReconnect: the slot stays disconnected; the
\* opponent is not told.
reconnectStaysAway(s) ==
  /\ takes(s, "RECONNECT")
  /\ seq' = seq + 1
  /\ becomes(send(stream, toPlayer(s, event("RECONNECT_ACK", seq + 1, game))))
  /\ UNCHANGED <<game, accepted, connected, link, client, drops>>

reconnectSilently(s) ==
  /\ takes(s, "RECONNECT")
  /\ connected' = connected \cup {s}
  /\ seq' = seq + 1
  /\ becomes(send(stream, toPlayer(s, event("RECONNECT_ACK", seq + 1, game))))
  /\ UNCHANGED <<game, accepted, link, client, drops>>

\* The opponent, if there, is told; the player gets a snapshot, and then what
\* the numbers say was missed.
handleReconnect(s) ==
  LET other == opponent(s)
      noted == IF other \in connected
               THEN emit(stream, toPlayer(other, notice("OPPONENT_RECONNECTED", seq + 1)))
               ELSE stream
      seqNow == IF other \in connected THEN seq + 2 ELSE seq + 1
      acked == send(noted, toPlayer(s, event("RECONNECT_ACK", seqNow, game)))
      last == Head(cmds[s]).lastReceivedSeq
      missed == getReplayEvents(acked.buffer, seqNow, last + 1, s)
  IN
  /\ takes(s, "RECONNECT")
  /\ connected' = connected \cup {s}
  /\ seq' = seqNow
  /\ becomes(IF last < seqNow THEN send(acked, toPlayer(s, stateSync(missed, seqNow)))
             ELSE acked)
  /\ UNCHANGED <<game, accepted, link, client, drops>>

handleRequestRematch(s) ==
  /\ takes(s, "REQUEST_REMATCH")
  /\ IF accepted = {} /\ game.status = "FINISHED" /\ Head(cmds[s]).id = game.id
     THEN /\ accepted' = {s}
          /\ seq' = seq + 1
          /\ becomes(emit(stream, toBroadcast(rematchRequested(seq + 1, s))))
     ELSE UNCHANGED <<accepted, seq, buffer, events>>
  /\ UNCHANGED <<game, connected, link, client, drops>>

\* The second acceptance starts the next game, with a new counter and buffer.
handleAcceptRematch(s) ==
  LET started == toBroadcast(event("GAME_STARTED", 1, NewGame(game.id + 1))) IN
  /\ takes(s, "ACCEPT_REMATCH")
  /\ IF accepted = {} \/ game.status # "FINISHED" \/ Head(cmds[s]).id # game.id
     THEN UNCHANGED <<accepted, seq, buffer, game, events>>
     ELSE IF accepted \cup {s} = Symbols
     THEN /\ accepted' = {}
          /\ game' = NewGame(game.id + 1)
          /\ seq' = 1
          /\ becomes(emit([stream EXCEPT !.buffer = <<>>], started))
     ELSE /\ accepted' = accepted \cup {s}
          /\ UNCHANGED <<seq, buffer, game, events>>
  /\ UNCHANGED <<connected, link, client, drops>>

\* REMATCH_DECLINED is sent, but not buffered.
handleDeclineRematch(s) ==
  /\ takes(s, "DECLINE_REMATCH")
  /\ IF accepted = {} THEN UNCHANGED <<accepted, seq, buffer, events>>
     ELSE /\ accepted' = {}
          /\ seq' = seq + 1
          /\ becomes(send(stream, toBroadcast(notice("REMATCH_DECLINED", seq + 1))))
  /\ UNCHANGED <<game, connected, link, client, drops>>

expireRematch ==
  /\ accepted # {}
  /\ accepted' = {}
  /\ seq' = seq + 1
  /\ becomes(emit(stream, toBroadcast(notice("REMATCH_EXPIRED", seq + 1))))
  /\ UNCHANGED <<game, connected, link, cmds, client, drops>>

\* The server notices a lost connection: handleDisconnect, and the event of
\* startReconnectWindow.
handleDisconnect(s) ==
  /\ link[s] = "lost"
  /\ link' = [link EXCEPT ![s] = "down"]
  /\ connected' = connected \ {s}
  /\ IF game.status = "ACTIVE" /\ opponent(s) \in connected
     THEN /\ seq' = seq + 1
          /\ becomes(emit(stream, toPlayer(opponent(s),
                                           notice("OPPONENT_DISCONNECTED", seq + 1))))
     ELSE UNCHANGED <<seq, buffer, events>>
  /\ UNCHANGED <<game, accepted, cmds, client, drops>>

-----------------------------------------------------------------------------
\* The clients.

\* onSequenceGap asks for what is missing; nothing else is sent in return.
receive(s) ==
  LET e == Head(events[s]) IN
  /\ events[s] # <<>>
  /\ events' = [events EXCEPT ![s] = Tail(@)]
  /\ client' = [client EXCEPT ![s] = handleFrame(s, @, e)]
  /\ cmds' = IF HasGap(client[s], e)
             THEN [cmds EXCEPT ![s] = Append(@, [type |-> "SYNC_REQUEST",
                                                 fromSeq |-> client[s].lastSeq + 1])]
             ELSE cmds
  /\ UNCHANGED <<server, link, drops>>

makeMove(s) ==
  /\ link[s] = "up"
  /\ canMove(s, client[s])
  /\ seq < MaxSeq
  /\ client' = [client EXCEPT ![s].pending = TRUE]
  /\ cmds' = [cmds EXCEPT ![s] = Append(@, [type |-> "MAKE_MOVE",
                 id |-> client[s].view.id, moves |-> client[s].view.moves])]
  /\ UNCHANGED <<server, link, events, drops>>

\* Bound: one rematch command of a player at a time.
sendRematch(s, type) ==
  /\ link[s] = "up"
  /\ client[s].view.status = "FINISHED"
  /\ client[s].view.id < MaxGames
  /\ \A i \in DOMAIN cmds[s] : cmds[s][i].type \in {"SYNC_REQUEST", "RECONNECT"}
  /\ cmds' = [cmds EXCEPT ![s] = Append(@, [type |-> type, id |-> client[s].view.id])]
  /\ UNCHANGED <<server, link, events, client, drops>>

requestRematch(s) ==
  /\ seq < MaxSeq
  /\ client[s].rematch \in {"NONE", "DECLINED", "EXPIRED"}
  /\ sendRematch(s, "REQUEST_REMATCH")

acceptRematch(s) ==
  /\ client[s].rematch = "REQUESTED_BY_THEM"
  /\ sendRematch(s, "ACCEPT_REMATCH")

declineRematch(s) ==
  /\ client[s].rematch = "REQUESTED_BY_THEM"
  /\ sendRematch(s, "DECLINE_REMATCH")

\* The connection breaks, and everything in transit on it is gone.
drop(s) ==
  /\ link[s] = "up"
  /\ s \in Unlucky
  /\ drops < MaxDrops
  /\ link' = [link EXCEPT ![s] = "lost"]
  /\ events' = [events EXCEPT ![s] = <<>>]
  /\ cmds' = [cmds EXCEPT ![s] = <<>>]
  /\ drops' = drops + 1
  /\ UNCHANGED <<server, client>>

\* A new connection is open and authenticated, before or after the server has
\* noticed the end of the old one; the client sends RECONNECT first of all.
authenticate(s) ==
  /\ link[s] \in {"lost", "down"}
  /\ link' = [link EXCEPT ![s] = "up"]
  /\ cmds' = [cmds EXCEPT ![s] = <<[type |-> "RECONNECT",
                                    lastReceivedSeq |-> client[s].storeSeq]>>]
  /\ UNCHANGED <<server, events, client, drops>>

-----------------------------------------------------------------------------
handleCommand(s) ==
  \/ handleMakeMove(s)
  \/ handleSyncRequest(s)
  \/ handleReconnect(s)
  \/ handleRequestRematch(s)
  \/ handleAcceptRematch(s)
  \/ handleDeclineRematch(s)

Next ==
  \/ \E s \in Symbols : handleCommand(s)
  \/ expireRematch
  \/ \E s \in Symbols : handleDisconnect(s)
  \/ \E s \in Symbols : receive(s)
  \/ \E s \in Symbols : makeMove(s)
  \/ \E s \in Symbols : requestRematch(s)
  \/ \E s \in Symbols : acceptRematch(s)
  \/ \E s \in Symbols : declineRematch(s)
  \/ \E s \in Symbols : drop(s)
  \/ \E s \in Symbols : authenticate(s)

\* What arrives is handled.  No player has to act and no browser to come back.
Fairness ==
  \A s \in Symbols : WF_vars(handleCommand(s)) /\ WF_vars(receive(s))

Spec == Init /\ [][Next]_vars /\ Fairness

-----------------------------------------------------------------------------
\* Properties that hold.

Commands == {"MAKE_MOVE", "SYNC_REQUEST", "RECONNECT", "REQUEST_REMATCH",
             "ACCEPT_REMATCH", "DECLINE_REMATCH"}

Games == [id : 0..MaxGames, status : {"WAITING", "ACTIVE", "FINISHED"},
          moves : 0..MaxMoves, turn : Symbols]

\* Every variable has its type; the replay buffer never outgrows its size.
TypeOK ==
  /\ seq \in Nat \ {0}
  /\ Len(buffer) <= BufferSize
  /\ \A i \in DOMAIN buffer : buffer[i].event.seq \in 1..seq
  /\ game \in Games
  /\ accepted \subseteq Symbols
  /\ connected \subseteq Symbols
  /\ link \in [Symbols -> {"up", "lost", "down"}]
  /\ \A s \in Symbols : \A i \in DOMAIN cmds[s] : cmds[s][i].type \in Commands
  /\ \A s \in Symbols :
       /\ client[s].view \in Games
       /\ client[s].pending \in BOOLEAN
       /\ client[s].opponentAway \in BOOLEAN
       /\ client[s].rematch \in {"NONE", "REQUESTED_BY_ME", "REQUESTED_BY_THEM",
                                 "DECLINED", "EXPIRED"}
  /\ drops \in 0..MaxDrops

\* Nothing is on its way to or from s.
Quiet(s) == link[s] = "up" /\ events[s] = <<>> /\ cmds[s] = <<>>

\* A client that has nothing left to hear shows the game as it is, whatever was
\* lost, replayed or renumbered, and has no move pending.
QuietClientIsCurrent ==
  \A s \in Symbols : Quiet(s) =>
    LET v == client[s].view IN
    /\ v.id = game.id /\ v.status = game.status /\ v.moves = game.moves
    /\ game.status = "ACTIVE" => v.turn = game.turn
    /\ ~client[s].pending

\* An event, or the events that it replays.
Told(e) == IF e.type = "STATE_SYNC_REPLAY" THEN {e.events[i] : i \in DOMAIN e.events} ELSE {e}

\* A client that has sent RECONNECT and not read the answer.
Resuming(s) ==
  \/ \E i \in DOMAIN cmds[s] : cmds[s][i].type = "RECONNECT"
  \/ \E i \in DOMAIN events[s] : events[s][i].type = "RECONNECT_ACK"

\* What a client shows never goes back to an earlier game or an earlier board,
\* not even when a replay applies old events again; except before the answer to
\* its RECONNECT, when an event of a new game finds the view of the last one.
ViewNeverGoesBack ==
  [][\A s \in Symbols : ~Resuming(s)' =>
       LET v == client[s].view
           w == client'[s].view
       IN v.id < w.id \/ (v.id = w.id /\ v.moves <= w.moves)]_vars

\* When both players are there and have heard everything, the player whose turn
\* it is can click.
PlayerToMoveCanMove ==
  game.status = "ACTIVE" /\ Quiet("X") /\ Quiet("O") =>
    canMove(game.turn, client[game.turn])

\* A click is answered: while it is pending on a live connection, its MAKE_MOVE
\* is on its way to a game that will answer it, or a RECONNECT is, or what clears
\* it is on its way back.  With the fairness of Spec the pending move is cleared
\* in time, or the connection lost.
PendingIsUnderWay ==
  \A s \in Symbols : client[s].pending /\ link[s] = "up" =>
    \/ \E i \in DOMAIN cmds[s] :
         \/ cmds[s][i].type = "RECONNECT"
         \/ /\ cmds[s][i].type = "MAKE_MOVE"
            /\ cmds[s][i].id = game.id /\ game.status = "ACTIVE"
    \/ \E i \in DOMAIN events[s] : \E e \in Told(events[s][i]) :
         e.type \in {"MOVE_ACK", "MOVE_REJECTED", "GAME_FINISHED", "GAME_STARTED",
                    "RECONNECT_ACK", "STATE_SYNC_SNAPSHOT"}
=============================================================================
