--------------------------------- MODULE Wire ---------------------------------
(***************************************************************************)
(* The messages of the protocol: what the builders of the page and the     *)
(* event factory of the server put into them, what the guards of guards.ts *)
(* ask of them, and what MessageRouter answers to a frame before and after *)
(* a handler has it.  There is no state here; module Link has it.          *)
(*                                                                         *)
(* A message is a function from the names of its fields to values, and a   *)
(* value stands for those no guard tells apart: "uuid" is any UUID v4,     *)
(* "room" a room code, "text" any other string, "one" a whole number of at *)
(* least one, "half" a fraction above zero, "cell" a position on the board *)
(* and "offboard" an object that is none.  A field a message does not have *)
(* has the value "absent".                                                 *)
(***************************************************************************)

\* The fields of f, and those of g that f has not.
f @@ g == [name \in DOMAIN f \cup DOMAIN g |-> IF name \in DOMAIN f THEN f[name] ELSE g[name]]

Reasons == {"VOLUNTARY", "CLOSING_TAB", "DISCONNECT_TIMEOUT", "FORFEIT"}
Rejections == {"NOT_YOUR_TURN", "CELL_OCCUPIED", "OUT_OF_BOUNDS",
               "GAME_NOT_ACTIVE", "GAME_ID_MISMATCH"}

Strings == {"", "uuid", "room", "text", "X"} \cup Reasons \cup Rejections
Positive == {"one", "half"}
Numbers == Positive \cup {"zero", "minus"}
Whole == {"one", "zero"}
Objects == {"object", "cell", "offboard", "existing"}
Arrays == {"array", "symbols", "board"}
OrNull(S) == S \cup {"null"}

field(m, name) == IF name \in DOMAIN m THEN m[name] ELSE "absent"

\* A guard gives the values it accepts of every field it looks at.
Satisfies(m, guard) == \A name \in DOMAIN guard : field(m, name) \in guard[name]

-----------------------------------------------------------------------------
\* guards.ts: the envelopes and the commands.

BaseEnvelope == [protocolVersion |-> {"v1"}, messageId |-> {"uuid"},
                 timestamp |-> Positive]

CommandEnvelope == BaseEnvelope @@ [commandId |-> {"uuid"}, sessionToken |-> OrNull(Strings)]

EventEnvelope == BaseEnvelope @@ [sessionSeq |-> {"one"}, roomId |-> {"room"}]

CommandGuard ==
  [AUTH |-> [sessionToken |-> {"null"}, guestToken |-> OrNull(Strings),
             clientVersion |-> Strings],
   JOIN_ROOM |-> [roomId |-> {"room"}, playerName |-> OrNull(Strings)],
   LEAVE_ROOM |-> [roomId |-> {"room"}, reason |-> {"VOLUNTARY", "CLOSING_TAB"}],
   PLAYER_READY |-> [roomId |-> {"room"}],
   MAKE_MOVE |-> [roomId |-> {"room"}, gameId |-> {"uuid"}, position |-> {"cell"}],
   PING |-> [clientTime |-> Positive],
   RECONNECT |-> [roomId |-> {"room"}, lastReceivedSeq |-> Whole],
   SYNC_REQUEST |-> [roomId |-> {"room"}, fromSeq |-> {"one"}]]
  @@ [type \in {"REQUEST_REMATCH", "ACCEPT_REMATCH", "DECLINE_REMATCH"} |->
        [roomId |-> {"room"}, gameId |-> {"uuid"}]]

CommandType == DOMAIN CommandGuard

\* Mistaken variant: the envelope and the type are enough.
isAnyEnvelope(m) ==
  Satisfies(m, CommandEnvelope) /\ field(m, "type") \in CommandType

isAnyCommand(m) ==
  /\ Satisfies(m, CommandEnvelope)
  /\ field(m, "type") \in CommandType
  /\ Satisfies(m, CommandGuard[m.type])

\* parseCommand, on a frame whose shape is that of a JSON object or not.
parseCommand(frame) ==
  IF frame.shape # "object" THEN "MALFORMED_MESSAGE"
  ELSE IF field(frame.message, "protocolVersion") # "v1" THEN "PROTOCOL_VERSION_MISMATCH"
  ELSE IF isAnyCommand(frame.message) THEN "OK"
  ELSE IF /\ Satisfies(frame.message, CommandEnvelope)
          /\ field(frame.message, "type") \in Strings \ {""}
       THEN "UNKNOWN_MESSAGE_TYPE"
  ELSE "MALFORMED_MESSAGE"

-----------------------------------------------------------------------------
\* errors.ts: what each code means for the connection.

\* The codes whose error closes the connection, and those that are not
\* recoverable but do not close it.
Closing == {"AUTH_TIMEOUT", "SESSION_EXPIRED", "DUPLICATE_SESSION",
            "PROTOCOL_VERSION_MISMATCH", "SERVER_SHUTTING_DOWN"}
Final == {"ROOM_EXPIRED", "RECONNECT_WINDOW_EXPIRED"}
Passing == {"AUTH_FAILED", "NOT_AUTHENTICATED", "ROOM_NOT_FOUND", "ROOM_FULL",
            "ALREADY_IN_ROOM", "NOT_IN_ROOM", "REMATCH_PENDING", "REMATCH_NOT_REQUESTED",
            "RECONNECT_INVALID", "MALFORMED_MESSAGE", "UNKNOWN_MESSAGE_TYPE",
            "MESSAGE_TOO_LARGE", "RATE_LIMITED", "UNAUTHORIZED", "INTERNAL_ERROR"}
           \cup Rejections

ERROR_META == [code \in Closing \cup Final \cup Passing |->
                 [recoverable |-> code \in Passing, closesConnection |-> code \in Closing]]

-----------------------------------------------------------------------------
\* guards.ts: the events.

GlobalEventGuard ==
  [AUTH_ACK |-> [sessionToken |-> Strings, playerId |-> {"uuid"}, serverVersion |-> Strings,
                 existingRoom |-> {"null", "existing"}],
   PONG |-> [clientTime |-> Numbers, serverTime |-> Numbers]]

isErrorEvent(m) ==
  /\ Satisfies(m, BaseEnvelope) /\ field(m, "type") = "ERROR"
  /\ Satisfies(m, [code |-> DOMAIN ERROR_META, detail |-> Strings,
                   recoverable |-> {"true", "false"}])

RoomEventGuard ==
  [ROOM_JOINED |-> [playerId |-> {"uuid"}, symbol |-> {"X"}, roomState |-> Objects],
   PLAYER_JOINED |-> [playerId |-> {"uuid"}, symbol |-> {"X"}, playerName |-> OrNull(Strings),
                      connectedPlayerCount |-> Numbers],
   ROOM_LEFT |-> [roomId |-> {"room"}],
   PLAYER_LEFT |-> [playerId |-> {"uuid"}, symbol |-> {"X"}, reason |-> Reasons \ {"CLOSING_TAB"}],
   PLAYER_READY_ACK |-> [readyPlayers |-> {"symbols"}],
   OPPONENT_READY |-> [symbol |-> {"X"}, readyPlayers |-> {"symbols"}]]

PresenceEventGuard ==
  [OPPONENT_DISCONNECTED |-> [symbol |-> {"X"}, reconnectDeadlineAt |-> Numbers],
   OPPONENT_RECONNECTED |-> [symbol |-> {"X"}],
   RECONNECT_ACK |-> [playerId |-> {"uuid"}, symbol |-> {"X"}, roomState |-> Objects]]

GameEventGuard ==
  [GAME_STARTED |-> [board |-> {"board"}, firstTurn |-> {"X"}, players |-> Objects,
                     startedAt |-> Numbers],
   MOVE_ACK |-> [position |-> Objects, symbol |-> {"X"}, sequenceInGame |-> Whole,
                 board |-> {"board"}, nextTurn |-> OrNull({"X"})],
   MOVE_BROADCAST |-> [position |-> Objects, symbol |-> {"X"}, playerId |-> {"uuid"},
                       sequenceInGame |-> Whole, board |-> {"board"}, nextTurn |-> OrNull({"X"})],
   MOVE_REJECTED |-> [position |-> Objects, reason |-> Rejections, board |-> {"board"},
                      currentTurn |-> {"X"}],
   GAME_FINISHED |-> [result |-> Objects, finalBoard |-> {"board"}, moveHistory |-> Arrays,
                      stats |-> Objects],
   REMATCH_REQUESTED |-> [requestedBy |-> {"X"}, expiresAt |-> Numbers],
   REMATCH_DECLINED |-> [declinedBy |-> {"X"}],
   REMATCH_EXPIRED |-> [roomId |-> {"room"}]]

\* STATE_SYNC has two modes.
isStateSyncEvent(m) ==
  \/ Satisfies(m, [mode |-> {"REPLAY"}, fromSeq |-> Whole, toSeq |-> Whole, events |-> Arrays])
  \/ Satisfies(m, [mode |-> {"SNAPSHOT"}, roomState |-> Objects])

isAnyEvent(m) ==
  LET type == field(m, "type") IN
  /\ Satisfies(m, BaseEnvelope)
  /\ \/ type \in DOMAIN GlobalEventGuard /\ Satisfies(m, GlobalEventGuard[type])
     \/ /\ Satisfies(m, EventEnvelope)
        /\ \/ type \in DOMAIN RoomEventGuard /\ Satisfies(m, RoomEventGuard[type])
           \/ type \in DOMAIN PresenceEventGuard /\ Satisfies(m, PresenceEventGuard[type])
           \/ /\ type \in DOMAIN GameEventGuard
              /\ field(m, "gameId") = "uuid"
              /\ Satisfies(m, GameEventGuard[type])
           \/ type = "STATE_SYNC" /\ isStateSyncEvent(m)

parseEvent(m) == isErrorEvent(m) \/ isAnyEvent(m)

-----------------------------------------------------------------------------
\* commandBuilder.ts and the two commands of wsClient.ts: what a page sends.

envelope(type) ==
  [protocolVersion |-> "v1", messageId |-> "uuid", timestamp |-> "one", type |-> type,
   commandId |-> "uuid", sessionToken |-> "uuid"]

buildAuth(guestToken) ==
  [guestToken |-> guestToken, clientVersion |-> "text", sessionToken |-> "null"] @@ envelope("AUTH")

\* The code of a room comes from the lobby's form, which checks it, from the
\* API, or from the address of the page, which nobody checks.
buildJoinRoom(roomId) == envelope("JOIN_ROOM") @@ [roomId |-> roomId, playerName |-> "null"]

inRoom(type) == envelope(type) @@ [roomId |-> "room"]
inGame(type) == inRoom(type) @@ [gameId |-> "uuid"]

Builders ==
  {buildJoinRoom(roomId) : roomId \in {"room", "text"}}
  \cup {inRoom("LEAVE_ROOM") @@ [reason |-> "VOLUNTARY"], inRoom("PLAYER_READY"),
        inGame("MAKE_MOVE") @@ [position |-> "cell"],
        envelope("PING") @@ [clientTime |-> "one"],
        inRoom("SYNC_REQUEST") @@ [fromSeq |-> "one"]}
  \cup {inGame(type) : type \in {"REQUEST_REMATCH", "ACCEPT_REMATCH", "DECLINE_REMATCH"}}
  \cup {inRoom("RECONNECT") @@ [lastReceivedSeq |-> seq] : seq \in Whole}

-----------------------------------------------------------------------------
\* eventFactory.ts: what the server sends.

globalBase(type) ==
  [protocolVersion |-> "v1", messageId |-> "uuid", timestamp |-> "one", type |-> type]

roomBase(type, roomId) ==
  globalBase(type) @@ [roomId |-> roomId, sessionSeq |-> "one"]

makeErrorEvent(code) ==
  globalBase("ERROR") @@
  [code |-> code, detail |-> "text",
   recoverable |-> IF ERROR_META[code].recoverable THEN "true" ELSE "false"]

makeAuthAck(existingRoom) ==
  globalBase("AUTH_ACK") @@ [sessionToken |-> "uuid", playerId |-> "uuid",
                             serverVersion |-> "text", existingRoom |-> existingRoom]

makePong(clientTime) == globalBase("PONG") @@ [clientTime |-> clientTime, serverTime |-> "one"]

whose == [playerId |-> "uuid", symbol |-> "X"]

makeGameStarted(roomId) ==
  roomBase("GAME_STARTED", roomId) @@
  [gameId |-> "uuid", board |-> "board", firstTurn |-> "X", players |-> "object", startedAt |-> "one"]

makePlayerLeft(roomId, reason) == roomBase("PLAYER_LEFT", roomId) @@ whose @@ [reason |-> reason]

makeGameFinished(roomId) ==
  roomBase("GAME_FINISHED", roomId) @@
  [gameId |-> "uuid", result |-> "object", finalBoard |-> "board", moveHistory |-> "array",
   stats |-> "object"]

\* The events a command c on the room makes, for its sender and the opponent.
\* The name that was sent is stripped.
RoomEvents(c) ==
  LET roomId == field(c, "roomId")
      base(type) == roomBase(type, roomId)
  IN CASE c.type = "JOIN_ROOM" ->
            {base("ROOM_JOINED") @@ whose @@ [roomState |-> "object"]}
            \cup {base("PLAYER_JOINED") @@ whose @@ [playerName |-> name, connectedPlayerCount |-> "one"]
                   : name \in IF c.playerName = "null" THEN {"null"} ELSE {"", "text"}}
       [] c.type = "LEAVE_ROOM" ->
            {base("ROOM_LEFT"), makeGameFinished(roomId)}
            \cup {makePlayerLeft(roomId, reason) : reason \in {"VOLUNTARY", "FORFEIT"}}
       [] c.type = "PLAYER_READY" ->
            {base("PLAYER_READY_ACK") @@ [readyPlayers |-> "symbols"],
             base("OPPONENT_READY") @@ [symbol |-> "X", readyPlayers |-> "symbols"],
             makeGameStarted(roomId)}
       [] c.type = "RECONNECT" ->
            {base("RECONNECT_ACK") @@ whose @@ [roomState |-> "object"],
             base("OPPONENT_RECONNECTED") @@ [symbol |-> "X"]}

\* MAKE_MOVE and the rematch commands: the position and the game of the command
\* are sent back.
GameEvents(c) ==
  LET roomId == field(c, "roomId")
      base(type) == roomBase(type, roomId) @@ [gameId |-> field(c, "gameId")]
      moved(type, next) == base(type) @@ [position |-> c.position, symbol |-> "X",
        playerId |-> "uuid", sequenceInGame |-> "one", board |-> "board", nextTurn |-> next]
      rejected(reason) == base("MOVE_REJECTED") @@
        [position |-> c.position, reason |-> reason, board |-> "board", currentTurn |-> "X"]
  IN CASE c.type = "MAKE_MOVE" ->
            {rejected(reason) : reason \in {"GAME_NOT_ACTIVE", "NOT_YOUR_TURN"}}
            \cup IF c.position # "cell" THEN {rejected("OUT_OF_BOUNDS")}
                 ELSE {rejected("CELL_OCCUPIED"), makeGameFinished(roomId)}
                      \cup {moved(type, next) : type \in {"MOVE_ACK", "MOVE_BROADCAST"},
                                                next \in {"X", "null"}}
       [] c.type = "REQUEST_REMATCH" ->
            {base("REMATCH_REQUESTED") @@ [requestedBy |-> "X", expiresAt |-> "one"]}
       [] c.type = "ACCEPT_REMATCH" -> {makeGameStarted(roomId)}
       [] c.type = "DECLINE_REMATCH" -> {base("REMATCH_DECLINED") @@ [declinedBy |-> "X"]}

\* What the timers of a room and the end of the opponent's connection send.
Notices ==
  {roomBase("OPPONENT_DISCONNECTED", "room") @@ [symbol |-> "X", reconnectDeadlineAt |-> "one"],
   makePlayerLeft("room", "DISCONNECT_TIMEOUT"), makeGameFinished("room"),
   roomBase("REMATCH_EXPIRED", "room") @@ [gameId |-> "uuid"]}

\* RECONNECT and SYNC_REQUEST: from where the sender asks.
SyncEvents(c) ==
  LET base == roomBase("STATE_SYNC", field(c, "roomId"))
      fromSeq == IF c.type = "SYNC_REQUEST" THEN field(c, "fromSeq") ELSE "one"
  IN {base @@ [mode |-> "SNAPSHOT", roomState |-> "object"],
      base @@ [mode |-> "REPLAY", fromSeq |-> fromSeq, toSeq |-> "one", events |-> "array"]}

-----------------------------------------------------------------------------
\* MessageRouter and the handlers.

\* A handler throws on a name that is not a string (sanitiseName) and on a
\* position without coordinates to read (handleMove).
Throws(c) ==
  \/ c.type = "JOIN_ROOM" /\ field(c, "playerName") \notin OrNull(Strings)
  \/ c.type = "MAKE_MOVE" /\ field(c, "position") \in {"absent", "null"}

\* The codes the handler of each command answers with.
Refusals(type) ==
  CASE type = "JOIN_ROOM" -> {"ALREADY_IN_ROOM", "ROOM_NOT_FOUND", "ROOM_FULL"}
    [] type \in {"LEAVE_ROOM", "PLAYER_READY", "SYNC_REQUEST"} -> {"ROOM_NOT_FOUND", "NOT_IN_ROOM"}
    [] type = "MAKE_MOVE" -> {"ROOM_NOT_FOUND", "GAME_NOT_ACTIVE", "GAME_ID_MISMATCH"}
    [] type = "REQUEST_REMATCH" -> {"ROOM_NOT_FOUND", "GAME_NOT_ACTIVE", "REMATCH_PENDING"}
    [] type = "ACCEPT_REMATCH" -> {"ROOM_NOT_FOUND", "GAME_NOT_ACTIVE", "REMATCH_NOT_REQUESTED"}
    [] type = "DECLINE_REMATCH" -> {"ROOM_NOT_FOUND", "REMATCH_NOT_REQUESTED"}
    [] type = "RECONNECT" -> {"ROOM_NOT_FOUND", "RECONNECT_INVALID"}
    [] OTHER -> {}

\* The events of which the handler of an accepted command sends one or more;
\* AUTH is answered by Link.
Handled(c) ==
  IF Throws(c) THEN {makeErrorEvent("INTERNAL_ERROR")}
  ELSE {makeErrorEvent(code) : code \in Refusals(c.type)}
       \cup CASE c.type = "PING" -> {makePong(field(c, "clientTime"))}
              [] c.type \in {"JOIN_ROOM", "LEAVE_ROOM", "PLAYER_READY"} -> RoomEvents(c)
              [] c.type = "RECONNECT" -> RoomEvents(c) \cup SyncEvents(c)
              [] c.type = "SYNC_REQUEST" -> SyncEvents(c)
              [] c.type = "AUTH" -> {}
              [] OTHER -> GameEvents(c)

\* handleFrame up to the handler: the code it refuses a frame with, or "OK".
\* A connection is "new" before AUTH, "known" with a session the store has and
\* "expired" with one it has not.
Refused(frame, connection) ==
  IF frame.shape = "huge" THEN "MESSAGE_TOO_LARGE"
  ELSE IF parseCommand(frame) # "OK" THEN parseCommand(frame)
  ELSE IF connection = "new" /\ frame.message.type \notin {"AUTH", "PING"}
       THEN "NOT_AUTHENTICATED"
  ELSE IF connection = "expired" THEN "SESSION_EXPIRED"
  ELSE "OK"
===============================================================================
