------------------------------ MODULE LinkProofs ------------------------------
(***************************************************************************)
(* Theorems about Link, and through it Wire, for any tokens, any limits    *)
(* and whatever frames other connections send.                             *)
(***************************************************************************)
EXTENDS Link, FiniteSetTheorems, TLAPS

-----------------------------------------------------------------------------
(***************************************************************************)
(* Messages.  A message is put together from parts, the first of which is  *)
(* an envelope, and the rest adds to it.                                   *)
(***************************************************************************)
IsOf(m, type) == m.type = type /\ field(m, "type") = type

\* What is added to a message does not change what it has.
LEMMA JoinKeeps ==
  ASSUME NEW m, NEW f, NEW name, field(m, name) # "absent"
  PROVE  field(m @@ f, name) = field(m, name)
BY DEF @@, field

\* Nor its type.
LEMMA JoinKeepsType ==
  ASSUME NEW m, NEW f, NEW type, IsOf(m, type), type # "absent"
  PROVE  IsOf(m @@ f, type)
<1>1. "type" \in DOMAIN m
  BY DEF IsOf, field
<1>2. (m @@ f).type = type
  BY <1>1 DEF @@, IsOf
<1>3. QED
  BY <1>2, JoinKeeps DEF IsOf

\* What a guard that wants its fields accepts, it accepts with more fields.
LEMMA JoinSatisfies ==
  ASSUME NEW m, NEW f, NEW guard, Satisfies(m, guard),
         \A name \in DOMAIN guard : "absent" \notin guard[name]
  PROVE  Satisfies(m @@ f, guard)
BY JoinKeeps DEF Satisfies

-----------------------------------------------------------------------------
\* The guards of the envelopes.

LEMMA BaseFields ==
  ASSUME NEW m
  PROVE  Satisfies(m, BaseEnvelope) <=>
           /\ field(m, "protocolVersion") = "v1"
           /\ field(m, "messageId") = "uuid"
           /\ field(m, "timestamp") \in Positive
<1>1. /\ DOMAIN BaseEnvelope = {"protocolVersion", "messageId", "timestamp"}
      /\ BaseEnvelope["protocolVersion"] = {"v1"}
      /\ BaseEnvelope["messageId"] = {"uuid"}
      /\ BaseEnvelope["timestamp"] = Positive
  BY DEF BaseEnvelope
<1>2. QED
  BY <1>1 DEF Satisfies

\* The envelope of a command, field by field.
LEMMA CommandGuardOf ==
  /\ DOMAIN CommandEnvelope =
       {"protocolVersion", "messageId", "timestamp", "commandId", "sessionToken"}
  /\ CommandEnvelope["protocolVersion"] = {"v1"}
  /\ CommandEnvelope["messageId"] = {"uuid"}
  /\ CommandEnvelope["timestamp"] = Positive
  /\ CommandEnvelope["commandId"] = {"uuid"}
  /\ CommandEnvelope["sessionToken"] = OrNull(Strings)
BY DEF CommandEnvelope, BaseEnvelope, @@

\* Which is that of every message, a command's identity and a token.
LEMMA CommandFields ==
  ASSUME NEW m
  PROVE  Satisfies(m, CommandEnvelope) <=>
           /\ Satisfies(m, BaseEnvelope)
           /\ field(m, "commandId") = "uuid"
           /\ field(m, "sessionToken") \in OrNull(Strings)
<1>1. Satisfies(m, CommandEnvelope) <=>
        /\ field(m, "protocolVersion") = "v1"
        /\ field(m, "messageId") = "uuid"
        /\ field(m, "timestamp") \in Positive
        /\ field(m, "commandId") = "uuid"
        /\ field(m, "sessionToken") \in OrNull(Strings)
  BY CommandGuardOf DEF Satisfies
<1>2. QED
  BY <1>1, BaseFields

\* The envelope of a room's event, field by field.
LEMMA EventGuardOf ==
  /\ DOMAIN EventEnvelope =
       {"protocolVersion", "messageId", "timestamp", "sessionSeq", "roomId"}
  /\ EventEnvelope["protocolVersion"] = {"v1"}
  /\ EventEnvelope["messageId"] = {"uuid"}
  /\ EventEnvelope["timestamp"] = Positive
  /\ EventEnvelope["sessionSeq"] = {"one"}
  /\ EventEnvelope["roomId"] = {"room"}
BY DEF EventEnvelope, BaseEnvelope, @@

\* Which is that of every message, a number and a room.
LEMMA EventFields ==
  ASSUME NEW m
  PROVE  Satisfies(m, EventEnvelope) <=>
           /\ Satisfies(m, BaseEnvelope)
           /\ field(m, "sessionSeq") = "one"
           /\ field(m, "roomId") = "room"
<1>1. Satisfies(m, EventEnvelope) <=>
        /\ field(m, "protocolVersion") = "v1"
        /\ field(m, "messageId") = "uuid"
        /\ field(m, "timestamp") \in Positive
        /\ field(m, "sessionSeq") = "one"
        /\ field(m, "roomId") = "room"
  BY EventGuardOf DEF Satisfies
<1>2. QED
  BY <1>1, BaseFields

-----------------------------------------------------------------------------
\* Commands.

LEMMA CommandTypes ==
  CommandType = {"AUTH", "JOIN_ROOM", "LEAVE_ROOM", "PLAYER_READY", "MAKE_MOVE", "PING",
                 "RECONNECT", "SYNC_REQUEST", "REQUEST_REMATCH", "ACCEPT_REMATCH",
                 "DECLINE_REMATCH"}
BY DEF CommandType, CommandGuard, @@

\* No guard of a field accepts that the field is missing.
LEMMA AbsentIsNothing ==
  "absent" \notin Positive /\ "absent" \notin Strings /\ "absent" \notin OrNull(Strings)
BY DEF Positive, OrNull, Strings, Reasons, Rejections

\* The table of guards.ts, entry by entry.
LEMMA CommandGuards ==
  /\ CommandGuard["AUTH"] =
       [sessionToken |-> {"null"}, guestToken |-> OrNull(Strings), clientVersion |-> Strings]
  /\ CommandGuard["JOIN_ROOM"] = [roomId |-> {"room"}, playerName |-> OrNull(Strings)]
  /\ CommandGuard["LEAVE_ROOM"] = [roomId |-> {"room"}, reason |-> {"VOLUNTARY", "CLOSING_TAB"}]
  /\ CommandGuard["PLAYER_READY"] = [roomId |-> {"room"}]
  /\ CommandGuard["MAKE_MOVE"] = [roomId |-> {"room"}, gameId |-> {"uuid"}, position |-> {"cell"}]
  /\ CommandGuard["PING"] = [clientTime |-> Positive]
  /\ CommandGuard["RECONNECT"] = [roomId |-> {"room"}, lastReceivedSeq |-> Whole]
  /\ CommandGuard["SYNC_REQUEST"] = [roomId |-> {"room"}, fromSeq |-> {"one"}]
BY DEF CommandGuard, @@

\* The three commands about a rematch have the same fields.
LEMMA RematchGuards ==
  \A type \in {"REQUEST_REMATCH", "ACCEPT_REMATCH", "DECLINE_REMATCH"} :
    CommandGuard[type] = [roomId |-> {"room"}, gameId |-> {"uuid"}]
BY DEF CommandGuard, @@

IsCommand(m, type) == IsOf(m, type) /\ Satisfies(m, CommandEnvelope)

\* commandBuilder.ts puts into an envelope what guards.ts asks of it.
LEMMA EnvelopeIsCommand ==
  ASSUME NEW type
  PROVE  IsCommand(envelope(type), type)
<1>1. /\ field(envelope(type), "protocolVersion") = "v1"
      /\ field(envelope(type), "messageId") = "uuid"
      /\ field(envelope(type), "timestamp") = "one"
      /\ field(envelope(type), "commandId") = "uuid"
      /\ field(envelope(type), "sessionToken") = "uuid"
  BY DEF envelope, field
<1>2. Satisfies(envelope(type), CommandEnvelope)
  BY <1>1, BaseFields, CommandFields DEF Positive, OrNull, Strings
<1>3. IsOf(envelope(type), type)
  BY DEF envelope, field, IsOf
<1>4. QED
  BY <1>2, <1>3 DEF IsCommand

\* A command with its arguments is still a command.
LEMMA CommandExtends ==
  ASSUME NEW type \in CommandType, NEW m, NEW f, IsCommand(m, type)
  PROVE  IsCommand(m @@ f, type)
<1>1. type # "absent"
  BY CommandTypes
<1>2. \A name \in DOMAIN CommandEnvelope : "absent" \notin CommandEnvelope[name]
  BY CommandGuardOf, AbsentIsNothing
<1>3. QED
  BY <1>1, <1>2, JoinKeepsType, JoinSatisfies DEF IsCommand

\* An envelope and the arguments of its type are all that is asked.
LEMMA CommandAccepted ==
  ASSUME NEW type \in CommandType, NEW m, IsCommand(m, type), Satisfies(m, CommandGuard[type])
  PROVE  isAnyCommand(m)
BY DEF IsCommand, IsOf, isAnyCommand

\* The envelopes of commands on a room and on a game.
LEMMA RoomCommand ==
  ASSUME NEW type \in CommandType
  PROVE  IsCommand(inRoom(type), type) /\ IsCommand(inGame(type), type)
BY EnvelopeIsCommand, CommandExtends DEF inRoom, inGame


-----------------------------------------------------------------------------
\* A page's commands pass the guards, whatever it knows; the one exception is a
\* JOIN_ROOM whose code came unchecked.
LEMMA BuiltIsAccepted ==
  ASSUME NEW m \in Builders
  PROVE  /\ isAnyCommand(m) \/ (m.type = "JOIN_ROOM" /\ field(m, "roomId") = "text")
         /\ m.type \in CommandType \ {"AUTH"}
<1> USE CommandTypes, CommandGuards
<1>1. ASSUME NEW roomId \in {"room", "text"}, m = buildJoinRoom(roomId)
      PROVE  /\ isAnyCommand(m) \/ field(m, "roomId") = "text"
             /\ m.type = "JOIN_ROOM"
  <2>1. IsCommand(m, "JOIN_ROOM")
    BY <1>1, EnvelopeIsCommand, CommandExtends DEF buildJoinRoom
  <2>2. field(m, "roomId") = roomId /\ field(m, "playerName") = "null"
    BY <1>1 DEF buildJoinRoom, field, envelope, @@
  <2>3. roomId = "room" => Satisfies(m, CommandGuard["JOIN_ROOM"])
    BY <2>2 DEF Satisfies, OrNull
  <2>4. QED
    BY <2>1, <2>2, <2>3, CommandAccepted DEF IsCommand, IsOf
<1>2. CASE m = inRoom("LEAVE_ROOM") @@ [reason |-> "VOLUNTARY"]
  <2>1. IsCommand(m, "LEAVE_ROOM")
    BY <1>2, RoomCommand, CommandExtends
  <2>2. field(m, "roomId") = "room" /\ field(m, "reason") = "VOLUNTARY"
    BY <1>2 DEF inRoom, field, envelope, @@
  <2>3. QED
    BY <2>1, <2>2, CommandAccepted DEF Satisfies, IsCommand, IsOf
<1>3. CASE m = inRoom("PLAYER_READY")
  <2>1. field(m, "roomId") = "room"
    BY <1>3 DEF inRoom, field, envelope, @@
  <2>2. QED
    BY <1>3, <2>1, RoomCommand, CommandAccepted DEF Satisfies, IsCommand, IsOf
<1>4. CASE m = inGame("MAKE_MOVE") @@ [position |-> "cell"]
  <2>1. IsCommand(m, "MAKE_MOVE")
    BY <1>4, RoomCommand, CommandExtends
  <2>2. field(m, "roomId") = "room" /\ field(m, "gameId") = "uuid" /\ field(m, "position") = "cell"
    BY <1>4 DEF inGame, inRoom, field, envelope, @@
  <2>3. QED
    BY <2>1, <2>2, CommandAccepted DEF Satisfies, IsCommand, IsOf
<1>5. CASE m = envelope("PING") @@ [clientTime |-> "one"]
  <2>1. IsCommand(m, "PING")
    BY <1>5, EnvelopeIsCommand, CommandExtends
  <2>2. field(m, "clientTime") = "one"
    BY <1>5 DEF field, envelope, @@
  <2>3. QED
    BY <2>1, <2>2, CommandAccepted DEF Satisfies, IsCommand, IsOf, Positive
<1>6. CASE m = inRoom("SYNC_REQUEST") @@ [fromSeq |-> "one"]
  <2>1. IsCommand(m, "SYNC_REQUEST")
    BY <1>6, RoomCommand, CommandExtends
  <2>2. field(m, "roomId") = "room" /\ field(m, "fromSeq") = "one"
    BY <1>6 DEF inRoom, field, envelope, @@
  <2>3. QED
    BY <2>1, <2>2, CommandAccepted DEF Satisfies, IsCommand, IsOf
<1>7. ASSUME NEW type \in {"REQUEST_REMATCH", "ACCEPT_REMATCH", "DECLINE_REMATCH"}, m = inGame(type)
      PROVE  isAnyCommand(m) /\ m.type = type
  <2>1. field(m, "roomId") = "room" /\ field(m, "gameId") = "uuid"
    BY <1>7 DEF inGame, inRoom, field, envelope, @@
  <2>2. QED
    BY <1>7, <2>1, RoomCommand, RematchGuards, CommandAccepted DEF Satisfies, IsCommand, IsOf
<1>8. ASSUME NEW seq \in Whole, m = inRoom("RECONNECT") @@ [lastReceivedSeq |-> seq]
      PROVE  isAnyCommand(m) /\ m.type = "RECONNECT"
  <2>1. IsCommand(m, "RECONNECT")
    BY <1>8, RoomCommand, CommandExtends
  <2>2. field(m, "roomId") = "room" /\ field(m, "lastReceivedSeq") = seq
    BY <1>8 DEF inRoom, field, envelope, @@
  <2>3. QED
    BY <2>1, <2>2, <1>8, CommandAccepted DEF Satisfies, IsCommand, IsOf
<1>9. QED
  BY <1>1, <1>2, <1>3, <1>4, <1>5, <1>6, <1>7, <1>8 DEF Builders

\* So do the two forms of AUTH.
LEMMA AuthIsAccepted ==
  ASSUME NEW guestToken \in {"null", "uuid"}
  PROVE  isAnyCommand(buildAuth(guestToken)) /\ buildAuth(guestToken).type = "AUTH"
<1> DEFINE m == buildAuth(guestToken)
<1>1. /\ field(m, "protocolVersion") = "v1"
      /\ field(m, "messageId") = "uuid"
      /\ field(m, "timestamp") = "one"
      /\ field(m, "commandId") = "uuid"
      /\ field(m, "sessionToken") = "null"
  BY DEF buildAuth, envelope, field, @@
<1>2. field(m, "guestToken") = guestToken /\ field(m, "clientVersion") = "text"
  BY DEF buildAuth, envelope, field, @@
<1>3. IsOf(m, "AUTH")
  BY DEF buildAuth, envelope, field, @@, IsOf
<1>4. Satisfies(m, CommandEnvelope)
  BY <1>1, BaseFields, CommandFields DEF Positive, OrNull
<1>5. Satisfies(m, CommandGuard["AUTH"])
  <2>1. guestToken \in OrNull(Strings) /\ "text" \in Strings
    BY DEF OrNull, Strings
  <2> HIDE DEF m
  <2>2. QED
    BY <1>1, <1>2, <2>1, CommandGuards DEF Satisfies
<1>6. QED
  BY <1>3, <1>4, <1>5, CommandTypes, CommandAccepted DEF IsCommand, IsOf


\* What a handler can count on in a command that has been accepted, whoever has
\* built it; so that none throws.
LEMMA AcceptedFields ==
  ASSUME NEW c, isAnyCommand(c)
  PROVE  /\ IsOf(c, c.type) /\ c.type \in CommandType
         /\ c.type \notin {"AUTH", "PING"} => field(c, "roomId") = "room"
         /\ c.type = "PING" => field(c, "clientTime") \in Positive
         /\ c.type = "JOIN_ROOM" => field(c, "playerName") \in OrNull(Strings)
         /\ c.type = "MAKE_MOVE" => field(c, "position") = "cell" /\ c.position = "cell"
         /\ c.type = "SYNC_REQUEST" => field(c, "fromSeq") = "one"
         /\ c.type \in {"MAKE_MOVE", "REQUEST_REMATCH", "ACCEPT_REMATCH", "DECLINE_REMATCH"} =>
              field(c, "gameId") = "uuid"
<1>1. IsOf(c, c.type) /\ c.type \in CommandType
  BY CommandTypes DEF isAnyCommand, IsOf, field
<1>2. Satisfies(c, CommandGuard[c.type])
  BY DEF isAnyCommand
<1>3. c.type = "PING" => field(c, "clientTime") \in Positive
  BY <1>2, CommandGuards DEF Satisfies
<1>4. c.type = "JOIN_ROOM" => field(c, "roomId") = "room" /\ field(c, "playerName") \in OrNull(Strings)
  BY <1>2, CommandGuards DEF Satisfies
<1>5. c.type = "MAKE_MOVE" =>
        field(c, "roomId") = "room" /\ field(c, "gameId") = "uuid" /\ field(c, "position") = "cell"
  BY <1>2, CommandGuards DEF Satisfies
<1>6. c.type = "SYNC_REQUEST" => field(c, "roomId") = "room" /\ field(c, "fromSeq") = "one"
  BY <1>2, CommandGuards DEF Satisfies
<1>7. c.type \in {"REQUEST_REMATCH", "ACCEPT_REMATCH", "DECLINE_REMATCH"} =>
        field(c, "roomId") = "room" /\ field(c, "gameId") = "uuid"
  BY <1>2, RematchGuards DEF Satisfies
<1>8. c.type \in {"LEAVE_ROOM", "PLAYER_READY", "RECONNECT"} => field(c, "roomId") = "room"
  BY <1>2, CommandGuards DEF Satisfies
<1>9. field(c, "position") = "cell" => c.position = "cell"
  BY DEF field
<1>10. QED
  BY <1>1, <1>3, <1>4, <1>5, <1>6, <1>7, <1>8, <1>9, CommandTypes

\* No handler throws on a command that was accepted.
LEMMA AcceptedNeverThrows ==
  ASSUME NEW c, isAnyCommand(c)
  PROVE  ~Throws(c)
BY AcceptedFields DEF Throws

-----------------------------------------------------------------------------
\* Events.

\* An event that is understood and is no error.
Plain(e) ==
  /\ parseEvent(e)
  /\ e.type \notin {"AUTH_ACK", "CLOSE", "none"}
  /\ field(e, "code") = "absent" /\ field(e, "recoverable") = "absent"

IsGlobal(m, type) == IsOf(m, type) /\ Satisfies(m, BaseEnvelope)

\* eventFactory.ts puts into an event what every message has.
LEMMA GlobalBase ==
  ASSUME NEW type
  PROVE  IsGlobal(globalBase(type), type)
<1>1. /\ field(globalBase(type), "protocolVersion") = "v1"
      /\ field(globalBase(type), "messageId") = "uuid"
      /\ field(globalBase(type), "timestamp") = "one"
      /\ IsOf(globalBase(type), type)
  BY DEF globalBase, field, IsOf
<1>2. QED
  BY <1>1, BaseFields DEF IsGlobal, Positive

\* And what is added leaves it there.
LEMMA GlobalExtends ==
  ASSUME NEW type, type # "absent", NEW m, NEW f, IsGlobal(m, type)
  PROVE  IsGlobal(m @@ f, type)
<1>1. \A name \in DOMAIN BaseEnvelope : "absent" \notin BaseEnvelope[name]
  BY AbsentIsNothing DEF BaseEnvelope
<1>2. QED
  BY <1>1, JoinKeepsType, JoinSatisfies DEF IsGlobal

IsRoomEvent(m, type) == IsOf(m, type) /\ Satisfies(m, EventEnvelope)

\* The same for the events of a room.
LEMMA RoomBase ==
  ASSUME NEW type, type # "absent"
  PROVE  IsRoomEvent(roomBase(type, "room"), type)
<1> DEFINE e == roomBase(type, "room")
<1>1. IsGlobal(e, type)
  BY GlobalBase, GlobalExtends DEF roomBase
<1>2. field(e, "sessionSeq") = "one" /\ field(e, "roomId") = "room"
  BY DEF roomBase, globalBase, field, @@
<1> HIDE DEF e
<1>3. IsRoomEvent(e, type)
  BY <1>1, <1>2, EventFields DEF IsRoomEvent, IsGlobal
<1>4. QED
  BY <1>3 DEF e

\* And what is added to those.
LEMMA RoomEventExtends ==
  ASSUME NEW type, type # "absent", NEW m, NEW f, IsRoomEvent(m, type)
  PROVE  IsRoomEvent(m @@ f, type)
<1>1. \A name \in DOMAIN EventEnvelope : "absent" \notin EventEnvelope[name]
  BY EventGuardOf, AbsentIsNothing
<1>2. QED
  BY <1>1, JoinKeepsType, JoinSatisfies DEF IsRoomEvent

\* The errors are understood, and are recoverable or final as their code says.
LEMMA ErrorFields ==
  ASSUME NEW code \in DOMAIN ERROR_META
  PROVE  /\ parseEvent(makeErrorEvent(code))
         /\ makeErrorEvent(code).type = "ERROR"
         /\ field(makeErrorEvent(code), "code") = code
         /\ field(makeErrorEvent(code), "recoverable") = "false" <=> code \notin Passing
<1> DEFINE e == makeErrorEvent(code)
<1>1. IsGlobal(e, "ERROR")
  BY GlobalBase, GlobalExtends DEF makeErrorEvent
<1>2. /\ field(e, "code") = code /\ field(e, "detail") = "text"
      /\ field(e, "recoverable") = IF ERROR_META[code].recoverable THEN "true" ELSE "false"
  BY DEF makeErrorEvent, globalBase, field, @@
<1>3. ERROR_META[code].recoverable <=> code \in Passing
  BY DEF ERROR_META
<1> HIDE DEF e
<1>4. Satisfies(e, [code |-> DOMAIN ERROR_META, detail |-> Strings, recoverable |-> {"true", "false"}])
  <2>1. /\ "text" \in Strings
        /\ field(e, "recoverable") \in {"true", "false"}
    BY <1>2 DEF Strings
  <2>2. QED
    BY <1>2, <2>1 DEF Satisfies
<1>5. parseEvent(e) /\ e.type = "ERROR"
  BY <1>1, <1>4 DEF parseEvent, isErrorEvent, IsGlobal, IsOf
<1>6. field(e, "recoverable") = "false" <=> code \notin Passing
  BY <1>2, <1>3
<1>7. QED
  BY <1>2, <1>5, <1>6 DEF e


\* The tables of events, entry by entry.
LEMMA GlobalEventGuards ==
  /\ DOMAIN GlobalEventGuard =
       {"AUTH_ACK", "PONG"}
  /\ GlobalEventGuard["AUTH_ACK"] =
       [sessionToken |-> Strings, playerId |-> {"uuid"}, serverVersion |-> Strings,
          existingRoom |-> {"null", "existing"}]
  /\ GlobalEventGuard["PONG"] =
       [clientTime |-> Numbers, serverTime |-> Numbers]
BY DEF GlobalEventGuard

\* The events of a room.
LEMMA RoomEventGuards ==
  /\ DOMAIN RoomEventGuard =
       {"ROOM_JOINED", "PLAYER_JOINED", "ROOM_LEFT", "PLAYER_LEFT", "PLAYER_READY_ACK",
        "OPPONENT_READY"}
  /\ RoomEventGuard["ROOM_JOINED"] =
       [playerId |-> {"uuid"}, symbol |-> {"X"}, roomState |-> Objects]
  /\ RoomEventGuard["PLAYER_JOINED"] =
       [playerId |-> {"uuid"}, symbol |-> {"X"}, playerName |-> OrNull(Strings),
          connectedPlayerCount |-> Numbers]
  /\ RoomEventGuard["ROOM_LEFT"] =
       [roomId |-> {"room"}]
  /\ RoomEventGuard["PLAYER_LEFT"] =
       [playerId |-> {"uuid"}, symbol |-> {"X"}, reason |-> Reasons \ {"CLOSING_TAB"}]
  /\ RoomEventGuard["PLAYER_READY_ACK"] =
       [readyPlayers |-> {"symbols"}]
  /\ RoomEventGuard["OPPONENT_READY"] =
       [symbol |-> {"X"}, readyPlayers |-> {"symbols"}]
BY DEF RoomEventGuard

\* The events of presence.
LEMMA PresenceEventGuards ==
  /\ DOMAIN PresenceEventGuard =
       {"OPPONENT_DISCONNECTED", "OPPONENT_RECONNECTED", "RECONNECT_ACK"}
  /\ PresenceEventGuard["OPPONENT_DISCONNECTED"] =
       [symbol |-> {"X"}, reconnectDeadlineAt |-> Numbers]
  /\ PresenceEventGuard["OPPONENT_RECONNECTED"] =
       [symbol |-> {"X"}]
  /\ PresenceEventGuard["RECONNECT_ACK"] =
       [playerId |-> {"uuid"}, symbol |-> {"X"}, roomState |-> Objects]
BY DEF PresenceEventGuard

\* The events of a game.
LEMMA GameEventGuards ==
  /\ DOMAIN GameEventGuard =
       {"GAME_STARTED", "MOVE_ACK", "MOVE_BROADCAST", "MOVE_REJECTED", "GAME_FINISHED",
        "REMATCH_REQUESTED", "REMATCH_DECLINED", "REMATCH_EXPIRED"}
  /\ GameEventGuard["GAME_STARTED"] =
       [board |-> {"board"}, firstTurn |-> {"X"}, players |-> Objects, startedAt |->
          Numbers]
  /\ GameEventGuard["MOVE_ACK"] =
       [position |-> Objects, symbol |-> {"X"}, sequenceInGame |-> Whole, board |->
          {"board"}, nextTurn |-> OrNull({"X"})]
  /\ GameEventGuard["MOVE_BROADCAST"] =
       [position |-> Objects, symbol |-> {"X"}, playerId |-> {"uuid"}, sequenceInGame
          |-> Whole, board |-> {"board"}, nextTurn |-> OrNull({"X"})]
  /\ GameEventGuard["MOVE_REJECTED"] =
       [position |-> Objects, reason |-> Rejections, board |-> {"board"}, currentTurn
          |-> {"X"}]
  /\ GameEventGuard["GAME_FINISHED"] =
       [result |-> Objects, finalBoard |-> {"board"}, moveHistory |-> Arrays, stats |->
          Objects]
  /\ GameEventGuard["REMATCH_REQUESTED"] =
       [requestedBy |-> {"X"}, expiresAt |-> Numbers]
  /\ GameEventGuard["REMATCH_DECLINED"] =
       [declinedBy |-> {"X"}]
  /\ GameEventGuard["REMATCH_EXPIRED"] =
       [roomId |-> {"room"}]
BY DEF GameEventGuard



\* An event of a room that has what its guard asks for is understood.
LEMMA ReadIsPlain ==
  ASSUME NEW type, type \notin {"absent", "AUTH_ACK", "CLOSE", "none"},
         NEW e, IsRoomEvent(e, type),
         field(e, "code") = "absent", field(e, "recoverable") = "absent",
         \/ type \in DOMAIN RoomEventGuard /\ Satisfies(e, RoomEventGuard[type])
         \/ type \in DOMAIN PresenceEventGuard /\ Satisfies(e, PresenceEventGuard[type])
         \/ /\ type \in DOMAIN GameEventGuard
            /\ field(e, "gameId") = "uuid"
            /\ Satisfies(e, GameEventGuard[type])
         \/ type = "STATE_SYNC" /\ isStateSyncEvent(e)
  PROVE  Plain(e)
<1>1. e.type = type /\ field(e, "type") = type
  BY DEF IsRoomEvent, IsOf
<1>2. Satisfies(e, EventEnvelope) /\ Satisfies(e, BaseEnvelope)
  BY EventFields DEF IsRoomEvent
<1>3. isAnyEvent(e)
  BY <1>1, <1>2 DEF isAnyEvent
<1>4. QED
  BY <1>1, <1>3 DEF Plain, parseEvent

\* Event by event, as the factory makes them: ROOM_JOINED is understood.
LEMMA RoomJoinedRead ==
  Plain(roomBase("ROOM_JOINED", "room") @@ whose @@ [roomState |-> "object"])
<1> DEFINE e == roomBase("ROOM_JOINED", "room") @@ whose @@ [roomState |-> "object"]
<1>1. IsRoomEvent(e, "ROOM_JOINED")
  BY RoomBase, RoomEventExtends
<1>2. /\ field(e, "playerId") = "uuid"
      /\ field(e, "symbol") = "X"
      /\ field(e, "roomState") = "object"
      /\ field(e, "code") = "absent"
      /\ field(e, "recoverable") = "absent"
  BY DEF whose, roomBase, globalBase, field, @@
<1> HIDE DEF e
<1>3. "object" \in Objects
  BY DEF Objects
<1>4. Satisfies(e, RoomEventGuard["ROOM_JOINED"])
  BY <1>2, <1>3, RoomEventGuards DEF Satisfies
<1>5. Plain(e)
  BY <1>1, <1>2, <1>4, RoomEventGuards, ReadIsPlain
<1>6. QED
  BY <1>5 DEF e

\* PLAYER_JOINED is understood, with any name that is left when one is stripped.
LEMMA PlayerJoinedRead ==
  ASSUME NEW playerName \in OrNull(Strings)
  PROVE  Plain(roomBase("PLAYER_JOINED", "room") @@ whose @@ [playerName |-> playerName,
                connectedPlayerCount |-> "one"])
<1> DEFINE e == roomBase("PLAYER_JOINED", "room") @@ whose @@ [playerName |-> playerName,
                connectedPlayerCount |-> "one"]
<1>1. IsRoomEvent(e, "PLAYER_JOINED")
  BY RoomBase, RoomEventExtends
<1>2. /\ field(e, "playerId") = "uuid"
      /\ field(e, "symbol") = "X"
      /\ field(e, "playerName") = playerName
      /\ field(e, "connectedPlayerCount") = "one"
      /\ field(e, "code") = "absent"
      /\ field(e, "recoverable") = "absent"
  BY DEF whose, roomBase, globalBase, field, @@
<1> HIDE DEF e
<1>3. "one" \in Numbers
  BY DEF Numbers, Positive
<1>4. Satisfies(e, RoomEventGuard["PLAYER_JOINED"])
  BY <1>2, <1>3, RoomEventGuards DEF Satisfies
<1>5. Plain(e)
  BY <1>1, <1>2, <1>4, RoomEventGuards, ReadIsPlain
<1>6. QED
  BY <1>5 DEF e

\* ROOM_LEFT is understood.
LEMMA RoomLeftRead ==
  Plain(roomBase("ROOM_LEFT", "room"))
<1> DEFINE e == roomBase("ROOM_LEFT", "room")
<1>1. IsRoomEvent(e, "ROOM_LEFT")
  BY RoomBase, RoomEventExtends
<1>2. /\ field(e, "code") = "absent"
      /\ field(e, "recoverable") = "absent"
  BY DEF roomBase, globalBase, field, @@
<1> HIDE DEF e
<1>4. Satisfies(e, RoomEventGuard["ROOM_LEFT"])
  BY <1>2, RoomEventGuards, EventFields, <1>1 DEF Satisfies, IsRoomEvent
<1>5. Plain(e)
  BY <1>1, <1>2, <1>4, RoomEventGuards, ReadIsPlain
<1>6. QED
  BY <1>5 DEF e

\* PLAYER_LEFT is understood, for every reason there is for it.
LEMMA PlayerLeftRead ==
  ASSUME NEW reason \in Reasons \ {"CLOSING_TAB"}
  PROVE  Plain(makePlayerLeft("room", reason))
<1> DEFINE e == makePlayerLeft("room", reason)
<1>1. IsRoomEvent(e, "PLAYER_LEFT")
  BY RoomBase, RoomEventExtends DEF makePlayerLeft, whose
<1>2. /\ field(e, "playerId") = "uuid"
      /\ field(e, "symbol") = "X"
      /\ field(e, "reason") = reason
      /\ field(e, "code") = "absent"
      /\ field(e, "recoverable") = "absent"
  BY DEF makePlayerLeft, whose, roomBase, globalBase, field, @@
<1> HIDE DEF e
<1>4. Satisfies(e, RoomEventGuard["PLAYER_LEFT"])
  BY <1>2, RoomEventGuards DEF Satisfies
<1>5. Plain(e)
  BY <1>1, <1>2, <1>4, RoomEventGuards, ReadIsPlain
<1>6. QED
  BY <1>5 DEF e

\* PLAYER_READY_ACK is understood.
LEMMA ReadyAckRead ==
  Plain(roomBase("PLAYER_READY_ACK", "room") @@ [readyPlayers |-> "symbols"])
<1> DEFINE e == roomBase("PLAYER_READY_ACK", "room") @@ [readyPlayers |-> "symbols"]
<1>1. IsRoomEvent(e, "PLAYER_READY_ACK")
  BY RoomBase, RoomEventExtends
<1>2. /\ field(e, "readyPlayers") = "symbols"
      /\ field(e, "code") = "absent"
      /\ field(e, "recoverable") = "absent"
  BY DEF roomBase, globalBase, field, @@
<1> HIDE DEF e
<1>4. Satisfies(e, RoomEventGuard["PLAYER_READY_ACK"])
  BY <1>2, RoomEventGuards DEF Satisfies
<1>5. Plain(e)
  BY <1>1, <1>2, <1>4, RoomEventGuards, ReadIsPlain
<1>6. QED
  BY <1>5 DEF e

\* OPPONENT_READY is understood.
LEMMA OpponentReadyRead ==
  Plain(roomBase("OPPONENT_READY", "room") @@ [symbol |-> "X", readyPlayers |-> "symbols"])
<1> DEFINE e == roomBase("OPPONENT_READY", "room") @@ [symbol |-> "X", readyPlayers |->
                "symbols"]
<1>1. IsRoomEvent(e, "OPPONENT_READY")
  BY RoomBase, RoomEventExtends
<1>2. /\ field(e, "symbol") = "X"
      /\ field(e, "readyPlayers") = "symbols"
      /\ field(e, "code") = "absent"
      /\ field(e, "recoverable") = "absent"
  BY DEF roomBase, globalBase, field, @@
<1> HIDE DEF e
<1>4. Satisfies(e, RoomEventGuard["OPPONENT_READY"])
  BY <1>2, RoomEventGuards DEF Satisfies
<1>5. Plain(e)
  BY <1>1, <1>2, <1>4, RoomEventGuards, ReadIsPlain
<1>6. QED
  BY <1>5 DEF e

\* OPPONENT_DISCONNECTED is understood.
LEMMA DisconnectedRead ==
  Plain(roomBase("OPPONENT_DISCONNECTED", "room") @@ [symbol |-> "X", reconnectDeadlineAt
        |-> "one"])
<1> DEFINE e == roomBase("OPPONENT_DISCONNECTED", "room") @@ [symbol |-> "X",
                reconnectDeadlineAt |-> "one"]
<1>1. IsRoomEvent(e, "OPPONENT_DISCONNECTED")
  BY RoomBase, RoomEventExtends
<1>2. /\ field(e, "symbol") = "X"
      /\ field(e, "reconnectDeadlineAt") = "one"
      /\ field(e, "code") = "absent"
      /\ field(e, "recoverable") = "absent"
  BY DEF roomBase, globalBase, field, @@
<1> HIDE DEF e
<1>3. "one" \in Numbers /\ "one" \in Whole
  BY DEF Numbers, Positive, Whole
<1>4. Satisfies(e, PresenceEventGuard["OPPONENT_DISCONNECTED"])
  BY <1>2, <1>3, PresenceEventGuards DEF Satisfies
<1>5. Plain(e)
  BY <1>1, <1>2, <1>4, PresenceEventGuards, ReadIsPlain
<1>6. QED
  BY <1>5 DEF e

\* OPPONENT_RECONNECTED is understood.
LEMMA ReconnectedRead ==
  Plain(roomBase("OPPONENT_RECONNECTED", "room") @@ [symbol |-> "X"])
<1> DEFINE e == roomBase("OPPONENT_RECONNECTED", "room") @@ [symbol |-> "X"]
<1>1. IsRoomEvent(e, "OPPONENT_RECONNECTED")
  BY RoomBase, RoomEventExtends
<1>2. /\ field(e, "symbol") = "X"
      /\ field(e, "code") = "absent"
      /\ field(e, "recoverable") = "absent"
  BY DEF roomBase, globalBase, field, @@
<1> HIDE DEF e
<1>4. Satisfies(e, PresenceEventGuard["OPPONENT_RECONNECTED"])
  BY <1>2, PresenceEventGuards DEF Satisfies
<1>5. Plain(e)
  BY <1>1, <1>2, <1>4, PresenceEventGuards, ReadIsPlain
<1>6. QED
  BY <1>5 DEF e

\* RECONNECT_ACK is understood.
LEMMA ReconnectAckRead ==
  Plain(roomBase("RECONNECT_ACK", "room") @@ whose @@ [roomState |-> "object"])
<1> DEFINE e == roomBase("RECONNECT_ACK", "room") @@ whose @@ [roomState |-> "object"]
<1>1. IsRoomEvent(e, "RECONNECT_ACK")
  BY RoomBase, RoomEventExtends
<1>2. /\ field(e, "playerId") = "uuid"
      /\ field(e, "symbol") = "X"
      /\ field(e, "roomState") = "object"
      /\ field(e, "code") = "absent"
      /\ field(e, "recoverable") = "absent"
  BY DEF whose, roomBase, globalBase, field, @@
<1> HIDE DEF e
<1>3. "object" \in Objects
  BY DEF Objects
<1>4. Satisfies(e, PresenceEventGuard["RECONNECT_ACK"])
  BY <1>2, <1>3, PresenceEventGuards DEF Satisfies
<1>5. Plain(e)
  BY <1>1, <1>2, <1>4, PresenceEventGuards, ReadIsPlain
<1>6. QED
  BY <1>5 DEF e

\* GAME_STARTED is understood.
LEMMA GameStartedRead ==
  Plain(makeGameStarted("room"))
<1> DEFINE e == makeGameStarted("room")
<1>1. IsRoomEvent(e, "GAME_STARTED")
  BY RoomBase, RoomEventExtends DEF makeGameStarted
<1>2. /\ field(e, "gameId") = "uuid"
      /\ field(e, "board") = "board"
      /\ field(e, "firstTurn") = "X"
      /\ field(e, "players") = "object"
      /\ field(e, "startedAt") = "one"
      /\ field(e, "code") = "absent"
      /\ field(e, "recoverable") = "absent"
  BY DEF makeGameStarted, roomBase, globalBase, field, @@
<1> HIDE DEF e
<1>3. "object" \in Objects /\ "one" \in Numbers /\ "one" \in Whole
  BY DEF Objects, Numbers, Positive, Whole
<1>4. Satisfies(e, GameEventGuard["GAME_STARTED"])
  BY <1>2, <1>3, GameEventGuards DEF Satisfies
<1>5. Plain(e)
  BY <1>1, <1>2, <1>4, GameEventGuards, ReadIsPlain
<1>6. QED
  BY <1>5 DEF e

\* GAME_FINISHED is understood.
LEMMA GameFinishedRead ==
  Plain(makeGameFinished("room"))
<1> DEFINE e == makeGameFinished("room")
<1>1. IsRoomEvent(e, "GAME_FINISHED")
  BY RoomBase, RoomEventExtends DEF makeGameFinished
<1>2. /\ field(e, "gameId") = "uuid"
      /\ field(e, "result") = "object"
      /\ field(e, "finalBoard") = "board"
      /\ field(e, "moveHistory") = "array"
      /\ field(e, "stats") = "object"
      /\ field(e, "code") = "absent"
      /\ field(e, "recoverable") = "absent"
  BY DEF makeGameFinished, roomBase, globalBase, field, @@
<1> HIDE DEF e
<1>3. "object" \in Objects /\ "array" \in Arrays
  BY DEF Objects, Arrays
<1>4. Satisfies(e, GameEventGuard["GAME_FINISHED"])
  BY <1>2, <1>3, GameEventGuards DEF Satisfies
<1>5. Plain(e)
  BY <1>1, <1>2, <1>4, GameEventGuards, ReadIsPlain
<1>6. QED
  BY <1>5 DEF e

\* MOVE_ACK and MOVE_BROADCAST are understood, with the position of the command.
LEMMA MovedRead ==
  ASSUME NEW type \in {"MOVE_ACK", "MOVE_BROADCAST"}, NEW next \in {"X", "null"}
  PROVE  Plain(roomBase(type, "room") @@ [gameId |-> "uuid"] @@ [position |-> "cell",
                symbol |-> "X", playerId |-> "uuid", sequenceInGame |-> "one", board |->
                "board", nextTurn |-> next])
<1> DEFINE e == roomBase(type, "room") @@ [gameId |-> "uuid"] @@ [position |-> "cell",
                symbol |-> "X", playerId |-> "uuid", sequenceInGame |-> "one", board |->
                "board", nextTurn |-> next]
<1>1. IsRoomEvent(e, type)
  BY RoomBase, RoomEventExtends
<1>2. /\ field(e, "gameId") = "uuid"
      /\ field(e, "position") = "cell"
      /\ field(e, "symbol") = "X"
      /\ field(e, "playerId") = "uuid"
      /\ field(e, "sequenceInGame") = "one"
      /\ field(e, "board") = "board"
      /\ field(e, "nextTurn") = next
      /\ field(e, "code") = "absent"
      /\ field(e, "recoverable") = "absent"
  BY DEF roomBase, globalBase, field, @@
<1> HIDE DEF e
<1>3. "cell" \in Objects /\ "one" \in Numbers /\ "one" \in Whole /\ next \in OrNull({"X"})
  BY DEF Objects, Numbers, Positive, Whole, OrNull
<1>4. Satisfies(e, GameEventGuard[type])
  BY <1>2, <1>3, GameEventGuards DEF Satisfies
<1>5. Plain(e)
  BY <1>1, <1>2, <1>4, GameEventGuards, ReadIsPlain
<1>6. QED
  BY <1>5 DEF e

\* MOVE_REJECTED is understood, with the position of the command and every reason.
LEMMA RejectedRead ==
  ASSUME NEW reason \in Rejections
  PROVE  Plain(roomBase("MOVE_REJECTED", "room") @@ [gameId |-> "uuid"] @@ [position |->
                "cell", reason |-> reason, board |-> "board", currentTurn |-> "X"])
<1> DEFINE e == roomBase("MOVE_REJECTED", "room") @@ [gameId |-> "uuid"] @@ [position |->
                "cell", reason |-> reason, board |-> "board", currentTurn |-> "X"]
<1>1. IsRoomEvent(e, "MOVE_REJECTED")
  BY RoomBase, RoomEventExtends
<1>2. /\ field(e, "gameId") = "uuid"
      /\ field(e, "position") = "cell"
      /\ field(e, "reason") = reason
      /\ field(e, "board") = "board"
      /\ field(e, "currentTurn") = "X"
      /\ field(e, "code") = "absent"
      /\ field(e, "recoverable") = "absent"
  BY DEF roomBase, globalBase, field, @@
<1> HIDE DEF e
<1>3. "cell" \in Objects
  BY DEF Objects
<1>4. Satisfies(e, GameEventGuard["MOVE_REJECTED"])
  BY <1>2, <1>3, GameEventGuards DEF Satisfies
<1>5. Plain(e)
  BY <1>1, <1>2, <1>4, GameEventGuards, ReadIsPlain
<1>6. QED
  BY <1>5 DEF e

\* REMATCH_REQUESTED is understood, with the game of the command.
LEMMA RematchRequestedRead ==
  Plain(roomBase("REMATCH_REQUESTED", "room") @@ [gameId |-> "uuid"] @@ [requestedBy |->
        "X", expiresAt |-> "one"])
<1> DEFINE e == roomBase("REMATCH_REQUESTED", "room") @@ [gameId |-> "uuid"] @@ [requestedBy
                |-> "X", expiresAt |-> "one"]
<1>1. IsRoomEvent(e, "REMATCH_REQUESTED")
  BY RoomBase, RoomEventExtends
<1>2. /\ field(e, "gameId") = "uuid"
      /\ field(e, "requestedBy") = "X"
      /\ field(e, "expiresAt") = "one"
      /\ field(e, "code") = "absent"
      /\ field(e, "recoverable") = "absent"
  BY DEF roomBase, globalBase, field, @@
<1> HIDE DEF e
<1>3. "one" \in Numbers /\ "one" \in Whole
  BY DEF Numbers, Positive, Whole
<1>4. Satisfies(e, GameEventGuard["REMATCH_REQUESTED"])
  BY <1>2, <1>3, GameEventGuards DEF Satisfies
<1>5. Plain(e)
  BY <1>1, <1>2, <1>4, GameEventGuards, ReadIsPlain
<1>6. QED
  BY <1>5 DEF e

\* REMATCH_DECLINED is understood, with the game of the command.
LEMMA RematchDeclinedRead ==
  Plain(roomBase("REMATCH_DECLINED", "room") @@ [gameId |-> "uuid"] @@ [declinedBy |-> "X"])
<1> DEFINE e == roomBase("REMATCH_DECLINED", "room") @@ [gameId |-> "uuid"] @@ [declinedBy
                |-> "X"]
<1>1. IsRoomEvent(e, "REMATCH_DECLINED")
  BY RoomBase, RoomEventExtends
<1>2. /\ field(e, "gameId") = "uuid"
      /\ field(e, "declinedBy") = "X"
      /\ field(e, "code") = "absent"
      /\ field(e, "recoverable") = "absent"
  BY DEF roomBase, globalBase, field, @@
<1> HIDE DEF e
<1>4. Satisfies(e, GameEventGuard["REMATCH_DECLINED"])
  BY <1>2, GameEventGuards DEF Satisfies
<1>5. Plain(e)
  BY <1>1, <1>2, <1>4, GameEventGuards, ReadIsPlain
<1>6. QED
  BY <1>5 DEF e

\* REMATCH_EXPIRED is understood.
LEMMA RematchExpiredRead ==
  Plain(roomBase("REMATCH_EXPIRED", "room") @@ [gameId |-> "uuid"])
<1> DEFINE e == roomBase("REMATCH_EXPIRED", "room") @@ [gameId |-> "uuid"]
<1>1. IsRoomEvent(e, "REMATCH_EXPIRED")
  BY RoomBase, RoomEventExtends
<1>2. /\ field(e, "gameId") = "uuid"
      /\ field(e, "code") = "absent"
      /\ field(e, "recoverable") = "absent"
  BY DEF roomBase, globalBase, field, @@
<1> HIDE DEF e
<1>4. Satisfies(e, GameEventGuard["REMATCH_EXPIRED"])
  BY <1>2, GameEventGuards, EventFields, <1>1 DEF Satisfies, IsRoomEvent
<1>5. Plain(e)
  BY <1>1, <1>2, <1>4, GameEventGuards, ReadIsPlain
<1>6. QED
  BY <1>5 DEF e


\* STATE_SYNC is understood as a snapshot.
LEMMA SnapshotRead ==
  Plain(roomBase("STATE_SYNC", "room") @@ [mode |-> "SNAPSHOT", roomState |-> "object"])
<1> DEFINE e == roomBase("STATE_SYNC", "room") @@ [mode |-> "SNAPSHOT", roomState |-> "object"]
<1>1. IsRoomEvent(e, "STATE_SYNC")
  BY RoomBase, RoomEventExtends
<1>2. /\ field(e, "mode") = "SNAPSHOT" /\ field(e, "roomState") = "object"
      /\ field(e, "code") = "absent"
      /\ field(e, "recoverable") = "absent"
  BY DEF roomBase, globalBase, field, @@
<1> HIDE DEF e
<1>3. isStateSyncEvent(e)
  BY <1>2 DEF isStateSyncEvent, Satisfies, Objects
<1>4. Plain(e)
  BY <1>1, <1>2, <1>3, ReadIsPlain
<1>5. QED
  BY <1>4 DEF e

\* STATE_SYNC is understood as a replay from where the command asks.
LEMMA ReplayRead ==
  Plain(roomBase("STATE_SYNC", "room") @@
        [mode |-> "REPLAY", fromSeq |-> "one", toSeq |-> "one", events |-> "array"])
<1> DEFINE e == roomBase("STATE_SYNC", "room") @@
      [mode |-> "REPLAY", fromSeq |-> "one", toSeq |-> "one", events |-> "array"]
<1>1. IsRoomEvent(e, "STATE_SYNC")
  BY RoomBase, RoomEventExtends
<1>2. /\ field(e, "mode") = "REPLAY" /\ field(e, "fromSeq") = "one"
      /\ field(e, "toSeq") = "one" /\ field(e, "events") = "array"
      /\ field(e, "code") = "absent"
      /\ field(e, "recoverable") = "absent"
  BY DEF roomBase, globalBase, field, @@
<1> HIDE DEF e
<1>3. isStateSyncEvent(e)
  BY <1>2 DEF isStateSyncEvent, Satisfies, Whole, Arrays
<1>4. Plain(e)
  BY <1>1, <1>2, <1>3, ReadIsPlain
<1>5. QED
  BY <1>4 DEF e

\* PONG is understood, with the time of the command.
LEMMA PongRead ==
  ASSUME NEW clientTime \in Positive
  PROVE  Plain(makePong(clientTime))
<1> DEFINE e == makePong(clientTime)
<1>1. IsGlobal(e, "PONG")
  BY GlobalBase, GlobalExtends DEF makePong
<1>2. /\ field(e, "clientTime") = clientTime /\ field(e, "serverTime") = "one"
      /\ field(e, "code") = "absent" /\ field(e, "recoverable") = "absent"
  BY DEF makePong, globalBase, field, @@
<1> HIDE DEF e
<1>3. clientTime \in Numbers /\ "one" \in Numbers
  BY DEF Numbers, Positive
<1>4. Satisfies(e, GlobalEventGuard["PONG"])
  BY <1>2, <1>3, GlobalEventGuards DEF Satisfies
<1>5. isAnyEvent(e)
  BY <1>1, <1>4, GlobalEventGuards DEF isAnyEvent, IsGlobal, IsOf
<1>6. Plain(e)
  BY <1>1, <1>2, <1>5 DEF Plain, parseEvent, IsGlobal, IsOf
<1>7. QED
  BY <1>6 DEF e

\* AUTH_ACK is understood.
LEMMA AuthAckRead ==
  /\ parseEvent(makeAuthAck("null")) /\ makeAuthAck("null").type = "AUTH_ACK"
  /\ field(makeAuthAck("null"), "code") = "absent"
  /\ field(makeAuthAck("null"), "recoverable") = "absent"
<1> DEFINE e == makeAuthAck("null")
<1>1. IsGlobal(e, "AUTH_ACK")
  BY GlobalBase, GlobalExtends DEF makeAuthAck
<1>2. /\ field(e, "sessionToken") = "uuid" /\ field(e, "playerId") = "uuid"
      /\ field(e, "serverVersion") = "text" /\ field(e, "existingRoom") = "null"
      /\ field(e, "code") = "absent" /\ field(e, "recoverable") = "absent"
  BY DEF makeAuthAck, globalBase, field, @@
<1> HIDE DEF e
<1>3. "uuid" \in Strings /\ "text" \in Strings
  BY DEF Strings
<1>4. Satisfies(e, GlobalEventGuard["AUTH_ACK"])
  BY <1>2, <1>3, GlobalEventGuards DEF Satisfies
<1>5. isAnyEvent(e)
  BY <1>1, <1>4, GlobalEventGuards DEF isAnyEvent, IsGlobal, IsOf
<1>6. QED
  BY <1>1, <1>2, <1>5 DEF e, parseEvent, IsGlobal, IsOf

-----------------------------------------------------------------------------
\* What the handlers send.

\* The events about the slots of a room.
LEMMA RoomEventsRead ==
  ASSUME NEW c, c.type \in {"JOIN_ROOM", "LEAVE_ROOM", "PLAYER_READY", "RECONNECT"},
         field(c, "roomId") = "room", NEW e \in RoomEvents(c)
  PROVE  Plain(e)
<1>1. CASE c.type = "JOIN_ROOM"
  <2> DEFINE names == IF c.playerName = "null" THEN {"null"} ELSE {"", "text"}
  <2>1. names \subseteq OrNull(Strings)
    BY DEF OrNull, Strings
  <2>2. \/ e = roomBase("ROOM_JOINED", "room") @@ whose @@ [roomState |-> "object"]
        \/ \E name \in names :
             e = roomBase("PLAYER_JOINED", "room") @@ whose
                   @@ [playerName |-> name, connectedPlayerCount |-> "one"]
    BY <1>1, Zenon DEF RoomEvents
  <2> HIDE DEF names
  <2>3. QED
    BY <2>1, <2>2, RoomJoinedRead, PlayerJoinedRead
<1>2. CASE c.type = "LEAVE_ROOM"
  <2>1. \/ e = roomBase("ROOM_LEFT", "room") \/ e = makeGameFinished("room")
        \/ \E reason \in {"VOLUNTARY", "FORFEIT"} : e = makePlayerLeft("room", reason)
    BY <1>2 DEF RoomEvents
  <2>2. {"VOLUNTARY", "FORFEIT"} \subseteq Reasons \ {"CLOSING_TAB"}
    BY DEF Reasons
  <2>3. QED
    BY <2>1, <2>2, RoomLeftRead, GameFinishedRead, PlayerLeftRead
<1>3. CASE c.type = "PLAYER_READY"
  <2>1. \/ e = roomBase("PLAYER_READY_ACK", "room") @@ [readyPlayers |-> "symbols"]
        \/ e = roomBase("OPPONENT_READY", "room") @@ [symbol |-> "X", readyPlayers |-> "symbols"]
        \/ e = makeGameStarted("room")
    BY <1>3 DEF RoomEvents
  <2>2. QED
    BY <2>1, ReadyAckRead, OpponentReadyRead, GameStartedRead
<1>4. CASE c.type = "RECONNECT"
  <2>1. \/ e = roomBase("RECONNECT_ACK", "room") @@ whose @@ [roomState |-> "object"]
        \/ e = roomBase("OPPONENT_RECONNECTED", "room") @@ [symbol |-> "X"]
    BY <1>4 DEF RoomEvents
  <2>2. QED
    BY <2>1, ReconnectAckRead, ReconnectedRead
<1>5. QED
  BY <1>1, <1>2, <1>3, <1>4


\* The events about a game.  A move that is accepted has a position on the board.
LEMMA GameEventsRead ==
  ASSUME NEW c,
         c.type \in {"MAKE_MOVE", "REQUEST_REMATCH", "ACCEPT_REMATCH", "DECLINE_REMATCH"},
         field(c, "roomId") = "room", field(c, "gameId") = "uuid",
         c.type = "MAKE_MOVE" => c.position = "cell",
         NEW e \in GameEvents(c)
  PROVE  Plain(e)
<1> DEFINE base(type) == roomBase(type, "room") @@ [gameId |-> "uuid"]
<1>1. CASE c.type = "MAKE_MOVE"
  <2> DEFINE rejected(reason) == base("MOVE_REJECTED") @@
               [position |-> "cell", reason |-> reason, board |-> "board", currentTurn |-> "X"]
             moved(type, next) == base(type) @@ [position |-> "cell", symbol |-> "X",
               playerId |-> "uuid", sequenceInGame |-> "one", board |-> "board", nextTurn |-> next]
  <2>1. \/ e = makeGameFinished("room")
        \/ \E reason \in {"GAME_NOT_ACTIVE", "NOT_YOUR_TURN", "CELL_OCCUPIED"} : e = rejected(reason)
        \/ \E type \in {"MOVE_ACK", "MOVE_BROADCAST"}, next \in {"X", "null"} : e = moved(type, next)
    BY <1>1 DEF GameEvents
  <2>2. \A reason \in {"GAME_NOT_ACTIVE", "NOT_YOUR_TURN", "CELL_OCCUPIED"} : Plain(rejected(reason))
    BY RejectedRead DEF Rejections
  <2>3. \A type \in {"MOVE_ACK", "MOVE_BROADCAST"}, next \in {"X", "null"} : Plain(moved(type, next))
    BY MovedRead
  <2>4. QED
    BY <2>1, <2>2, <2>3, GameFinishedRead
<1>2. CASE c.type = "REQUEST_REMATCH"
  <2>1. e = base("REMATCH_REQUESTED") @@ [requestedBy |-> "X", expiresAt |-> "one"]
    BY <1>2 DEF GameEvents
  <2>2. QED
    BY <2>1, RematchRequestedRead
<1>3. CASE c.type = "ACCEPT_REMATCH"
  BY <1>3, GameStartedRead DEF GameEvents
<1>4. CASE c.type = "DECLINE_REMATCH"
  <2>1. e = base("REMATCH_DECLINED") @@ [declinedBy |-> "X"]
    BY <1>4 DEF GameEvents
  <2>2. QED
    BY <2>1, RematchDeclinedRead
<1>5. QED
  BY <1>1, <1>2, <1>3, <1>4

\* What synchronises a page is understood.
LEMMA SyncEventsRead ==
  ASSUME NEW c, field(c, "roomId") = "room", c.type = "SYNC_REQUEST" => field(c, "fromSeq") = "one",
         NEW e \in SyncEvents(c)
  PROVE  Plain(e)
<1>1. \/ e = roomBase("STATE_SYNC", "room") @@ [mode |-> "SNAPSHOT", roomState |-> "object"]
      \/ e = roomBase("STATE_SYNC", "room") @@
               [mode |-> "REPLAY", fromSeq |-> "one", toSeq |-> "one", events |-> "array"]
  BY DEF SyncEvents
<1>2. QED
  BY <1>1, SnapshotRead, ReplayRead

\* What no command causes is understood.
LEMMA NoticesRead ==
  ASSUME NEW e \in Notices
  PROVE  Plain(e)
<1>1. "DISCONNECT_TIMEOUT" \in Reasons \ {"CLOSING_TAB"}
  BY DEF Reasons
<1>2. QED
  BY <1>1, DisconnectedRead, PlayerLeftRead, GameFinishedRead, RematchExpiredRead DEF Notices

\* The refusals of a handler leave the connection open and do not speak of the
\* session.
Harmless == Passing \ {"INTERNAL_ERROR", "AUTH_FAILED", "NOT_AUTHENTICATED"}

\* The errors of handlers neither end a connection nor are about its session.
LEMMA RefusalsAreHarmless ==
  ASSUME NEW type
  PROVE  Refusals(type) \subseteq Harmless
BY DEF Refusals, Passing, Rejections, Harmless

\* An event that answers an accepted command: understood, recoverable if it is an
\* error, and neither an AUTH_ACK nor about the session.
Answer(e) == Plain(e) \/ \E code \in Harmless : e = makeErrorEvent(code)

\* Whatever a handler sends for a command that was accepted is an answer.
LEMMA HandledAnswers ==
  ASSUME NEW c, isAnyCommand(c), NEW e \in Handled(c)
  PROVE  Answer(e)
<1> USE AcceptedFields, CommandTypes
<1>1. CASE \E code \in Refusals(c.type) : e = makeErrorEvent(code)
  BY <1>1, RefusalsAreHarmless DEF Answer
<1>2. CASE c.type = "PING" /\ e = makePong(field(c, "clientTime"))
  BY <1>2, PongRead DEF Answer
<1>3. CASE c.type \in {"JOIN_ROOM", "LEAVE_ROOM", "PLAYER_READY", "RECONNECT"} /\ e \in RoomEvents(c)
  BY <1>3, RoomEventsRead DEF Answer
<1>4. CASE c.type \in {"RECONNECT", "SYNC_REQUEST"} /\ e \in SyncEvents(c)
  BY <1>4, SyncEventsRead DEF Answer
<1>5. CASE /\ c.type \in {"MAKE_MOVE", "REQUEST_REMATCH", "ACCEPT_REMATCH", "DECLINE_REMATCH"}
           /\ e \in GameEvents(c)
  BY <1>5, GameEventsRead DEF Answer
<1>6. QED
  BY <1>1, <1>2, <1>3, <1>4, <1>5, AcceptedNeverThrows DEF Handled

-----------------------------------------------------------------------------
\* Refusals of the router.

\* The codes a frame is refused with, by the standing of its connection.
LEMMA RefusedCodes ==
  ASSUME NEW frame, NEW standing
  PROVE  /\ Refused(frame, standing) \in {"OK", "MESSAGE_TOO_LARGE", "MALFORMED_MESSAGE",
              "PROTOCOL_VERSION_MISMATCH", "UNKNOWN_MESSAGE_TYPE", "NOT_AUTHENTICATED",
              "SESSION_EXPIRED"}
         /\ Refused(frame, standing) = "OK" => isAnyCommand(frame.message)
         /\ Refused(frame, standing) = "NOT_AUTHENTICATED" =>
              standing = "new" /\ frame.message.type # "AUTH"
BY DEF Refused, parseCommand

\* Each code is one of those that close the connection or of those that do not.
LEMMA CodesOfTheRouter ==
  /\ {"MESSAGE_TOO_LARGE", "MALFORMED_MESSAGE", "UNKNOWN_MESSAGE_TYPE", "NOT_AUTHENTICATED",
      "RATE_LIMITED", "AUTH_FAILED"} \subseteq Passing \ (Closing \cup {"INTERNAL_ERROR"})
  /\ {"PROTOCOL_VERSION_MISMATCH", "SESSION_EXPIRED", "AUTH_TIMEOUT"} \subseteq Closing \ Passing
  /\ DOMAIN ERROR_META = Closing \cup Final \cup Passing
  /\ \A code \in DOMAIN ERROR_META : ERROR_META[code].closesConnection <=> code \in Closing
BY DEF Passing, Closing, Final, Rejections, ERROR_META


-----------------------------------------------------------------------------
(***************************************************************************)
(* The inductive invariant.                                                *)
(***************************************************************************)
PageMessages == Builders \cup {buildAuth("null"), buildAuth("uuid")}

\* INTERNAL_ERROR is not among them.
ServerMessages ==
  {makeAuthAck("null")}
  \cup {makeErrorEvent(code) : code \in DOMAIN ERROR_META \ {"INTERNAL_ERROR"}}
  \cup (UNION {Handled(m) : m \in {b \in Builders : isAnyCommand(b)}})
  \cup Notices

CloseMessage == [type |-> "CLOSE"]

UpFrames == [message : PageMessages, token : Tokens \cup {NoToken}]
DownFrames ==
  [message : ServerMessages \cup {CloseMessage}, token : Tokens \cup {NoToken}, code : Nat]

\* What is on its way was sent by the page and its server, on an open socket.
InTransit ==
  /\ up \in Seq(UpFrames)
  /\ down \in Seq(DownFrames)
  /\ socket # "open" => up = <<>> /\ down = <<>>

IsAuth(i) == up[i].message.type = "AUTH"
IsAck(i) == down[i].message.type = "AUTH_ACK"
Acked == \E i \in 1 .. Len(down) : IsAck(i)

\* AUTH is the first frame of a connection, with the token the page still has, and
\* has no answer before it is read.
AuthFirst ==
  \A i \in 1 .. Len(up) : IsAuth(i) =>
    /\ i = 1
    /\ up[i].token = token
    /\ record.token = NoToken
    /\ ~Acked

\* There is one AUTH_ACK at most, with a token that is in use, which is the page's
\* if it has one.
AckIsNews ==
  \A i \in 1 .. Len(down) : IsAck(i) =>
    /\ down[i].token \in Tokens
    /\ session[down[i].token] # "free"
    /\ token = NoToken \/ token = down[i].token
    /\ \A j \in 1 .. Len(down) : IsAck(j) => j = i

\* A close is the last thing a server says on a connection.
CloseIsLast ==
  \A i \in 1 .. Len(down) :
    /\ down[i].code # 0 <=> down[i].message.type = "CLOSE"
    /\ down[i].code # 0 => i = Len(down) /\ ~record.open

TokenIsUsed == token # NoToken => session[token] # "free"

SessionIsLost == token # NoToken /\ session[token] = "lost"

\* A connection whose AUTH was read and that is not authenticated has been refused
\* for its token.
UnservedIsLost ==
  /\ record.open /\ record.token = NoToken
  /\ \A i \in 1 .. Len(up) : ~IsAuth(i)
  => SessionIsLost

RefusedIsLost ==
  \A i \in 1 .. Len(down) :
    field(down[i].message, "code") \in {"AUTH_FAILED", "NOT_AUTHENTICATED"} => SessionIsLost

\* Whoever has sent the other frame understands what it causes.
OtherIsUnderstood ==
  other = NoEvent \/ (parseEvent(other) /\ field(other, "code") # "INTERNAL_ERROR")

\* A session is made for a page without a token, whose AUTH_ACK is lost by a fault
\* only; so that as many faults as tokens would be needed to use them up.
Used == {t \in Tokens : session[t] # "free"}

TokensLast ==
  Cardinality(Used) <= faults + (IF token # NoToken \/ Acked THEN 1 ELSE 0)

LinkOrder ==
  /\ InTransit /\ AuthFirst /\ AckIsNews /\ CloseIsLast /\ TokenIsUsed
  /\ UnservedIsLost /\ RefusedIsLost /\ FinalErrorsClose /\ OtherIsUnderstood /\ TokensLast

LinkInv == TypeOK /\ LinkOrder

-----------------------------------------------------------------------------
\* What is said of a message follows from where it comes from.

LEMMA AnswerFacts ==
  ASSUME NEW e, Answer(e)
  PROVE  /\ parseEvent(e) /\ e.type \notin {"AUTH_ACK", "CLOSE", "none"}
         /\ field(e, "code") \notin {"INTERNAL_ERROR", "AUTH_FAILED", "NOT_AUTHENTICATED"}
         /\ field(e, "recoverable") # "false"
<1>1. Harmless \subseteq DOMAIN ERROR_META /\ Harmless \subseteq Passing
  BY CodesOfTheRouter DEF Harmless
<1>2. "absent" \notin {"INTERNAL_ERROR", "AUTH_FAILED", "NOT_AUTHENTICATED", "false"}
  OBVIOUS
<1>3. CASE Plain(e)
  BY <1>2, <1>3 DEF Plain
<1>4. CASE \E code \in Harmless : e = makeErrorEvent(code)
  BY <1>1, <1>4, ErrorFields DEF Harmless
<1>5. QED
  BY <1>3, <1>4 DEF Answer

\* All that the server sends is understood, and none of it is INTERNAL_ERROR.
LEMMA ServerMessageFacts ==
  ASSUME NEW e \in ServerMessages
  PROVE  /\ parseEvent(e) /\ e.type \notin {"CLOSE", "none"}
         /\ field(e, "code") # "INTERNAL_ERROR"
<1>1. CASE e = makeAuthAck("null")
  <2>1. "absent" # "INTERNAL_ERROR" /\ "AUTH_ACK" \notin {"CLOSE", "none"}
    OBVIOUS
  <2>2. QED
    BY <1>1, <2>1, AuthAckRead
<1>2. CASE e \in {makeErrorEvent(code) : code \in DOMAIN ERROR_META \ {"INTERNAL_ERROR"}}
  BY <1>2, ErrorFields
<1>3. CASE e \in UNION {Handled(m) : m \in {b \in Builders : isAnyCommand(b)}}
  <2>1. PICK m \in Builders : isAnyCommand(m) /\ e \in Handled(m)
    BY <1>3, Zenon
  <2>2. QED
    BY <2>1, HandledAnswers, AnswerFacts
<1>4. CASE e \in Notices
  BY <1>4, NoticesRead, AnswerFacts DEF Answer
<1>5. QED
  BY <1>1, <1>2, <1>3, <1>4, Zenon DEF ServerMessages

\* A close carries nothing.
LEMMA CloseFacts ==
  /\ CloseMessage.type = "CLOSE"
  /\ field(CloseMessage, "code") = "absent" /\ field(CloseMessage, "recoverable") = "absent"
BY DEF CloseMessage, field


-----------------------------------------------------------------------------
(***************************************************************************)
(* What steps do to the frames on their way.                               *)
(***************************************************************************)
LEMMA TailFacts ==
  ASSUME NEW S, NEW s \in Seq(S), s # <<>>
  PROVE  /\ Tail(s) \in Seq(S) /\ Len(Tail(s)) = Len(s) - 1 /\ Len(s) \in Nat \ {0}
         /\ \A i \in 1 .. Len(Tail(s)) : i + 1 \in 2 .. Len(s) /\ Tail(s)[i] = s[i + 1]
         /\ Head(s) = s[1] /\ s[1] \in S
OBVIOUS

\* One frame more, and the others where they were.
LEMMA AppendFacts ==
  ASSUME NEW S, NEW s \in Seq(S), NEW x \in S
  PROVE  /\ Append(s, x) \in Seq(S) /\ Len(Append(s, x)) = Len(s) + 1
         /\ Append(s, x)[Len(s) + 1] = x
         /\ \A i \in 1 .. Len(s) : Append(s, x)[i] = s[i]
OBVIOUS

\* After the first frame there is no AUTH.
LEMMA ReadFacts ==
  ASSUME LinkInv, up # <<>>, up' = Tail(up)
  PROVE  /\ up' \in Seq(UpFrames)
         /\ \A i \in 1 .. Len(up') : ~IsAuth(i)'
<1>1. up \in Seq(UpFrames)
  BY DEF LinkInv, LinkOrder, InTransit
<1>2. /\ up' \in Seq(UpFrames)
      /\ \A i \in 1 .. Len(up') : i + 1 \in 2 .. Len(up) /\ up'[i] = up[i + 1]
  BY <1>1, TailFacts
<1>3. \A i \in 2 .. Len(up) : ~IsAuth(i)
  BY DEF LinkInv, LinkOrder, AuthFirst
<1>4. QED
  BY <1>2, <1>3 DEF IsAuth

\* Tokens once in use are not free again, and lost ones are lost for good.
SessionsGoOn ==
  \A t \in Tokens :
    /\ session[t] # "free" => session'[t] # "free"
    /\ session[t] = "lost" => session'[t] = "lost"

\* Tokens in use can be counted.
LEMMA UsedFinite ==
  Used \subseteq Tokens /\ IsFiniteSet(Used) /\ Cardinality(Used) \in Nat
<1>1. Used \subseteq Tokens
  BY DEF Used
<1>2. QED
  BY <1>1, TokensAssumption, FS_Subset, FS_CardinalityType

\* Steps that touch nothing on its way.
LEMMA QuietStep ==
  ASSUME LinkInv, UNCHANGED <<up, down, record, token>>,
         (socket = "open") <=> (socket' = "open"),
         SessionsGoOn, Used' = Used, faults' \in Nat, faults' >= faults, OtherIsUnderstood'
  PROVE  LinkOrder'
<1> USE DEF LinkInv, LinkOrder
<1>1. InTransit'
  BY DEF InTransit
<1>2. AuthFirst'
  BY DEF AuthFirst, IsAuth, Acked, IsAck
<1>3. AckIsNews'
  BY DEF AckIsNews, IsAck, SessionsGoOn
<1>4. CloseIsLast'
  BY DEF CloseIsLast
<1>5. TokenIsUsed' /\ (SessionIsLost => SessionIsLost')
  BY DEF TokenIsUsed, SessionIsLost, SessionsGoOn, TypeOK
<1>6. UnservedIsLost'
  BY <1>5 DEF UnservedIsLost, IsAuth
<1>7. RefusedIsLost'
  BY <1>5 DEF RefusedIsLost
<1>8. FinalErrorsClose'
  BY DEF FinalErrorsClose
<1>9. TokensLast'
  BY UsedFinite DEF TokensLast, Acked, IsAck, TypeOK
<1>10. QED
  BY <1>1, <1>2, <1>3, <1>4, <1>5, <1>6, <1>7, <1>8, <1>9

\* The connection of the page is gone; an AUTH_ACK that goes with it takes a fault.
LEMMA ClearedStep ==
  ASSUME LinkInv, up' = <<>>, down' = <<>>, ~record'.open,
         UNCHANGED <<token, other>>, SessionsGoOn, Used' = Used,
         faults' \in Nat, faults' >= faults,
         Acked => faults' > faults
  PROVE  LinkOrder'
<1> USE DEF LinkInv, LinkOrder
<1>1. InTransit'
  BY DEF InTransit
<1>2. AuthFirst' /\ AckIsNews' /\ CloseIsLast' /\ RefusedIsLost' /\ FinalErrorsClose' /\ ~Acked'
  BY DEF AuthFirst, AckIsNews, CloseIsLast, RefusedIsLost, FinalErrorsClose, Acked
<1>3. TokenIsUsed'
  BY DEF TokenIsUsed, SessionsGoOn, TypeOK
<1>4. UnservedIsLost' /\ OtherIsUnderstood'
  BY DEF UnservedIsLost, OtherIsUnderstood
<1>5. TokensLast'
  BY <1>2, UsedFinite DEF TokensLast, TypeOK
<1>6. QED
  BY <1>1, <1>2, <1>3, <1>4, <1>5

\* The server sends one event that does not close the connection, having read a
\* frame or not.
LEMMA AnswerStep ==
  ASSUME LinkInv, up' = up \/ (up # <<>> /\ up' = Tail(up)),
         NEW e \in ServerMessages, e.type # "AUTH_ACK",
         field(e, "recoverable") # "false",
         field(e, "code") \in {"AUTH_FAILED", "NOT_AUTHENTICATED"} => SessionIsLost,
         record.open, answer(e), UnservedIsLost',
         UNCHANGED <<token, other, socket, faults>>
  PROVE  LinkOrder'
<1> USE DEF LinkInv, LinkOrder, answer
<1> DEFINE n == Len(down)
<1>1. event(e) \in DownFrames /\ event(e).code = 0 /\ event(e).message = e
  BY DEF event, DownFrames
<1>2. down \in Seq(DownFrames) /\ n \in Nat
  BY DEF InTransit
<1>3. /\ down' \in Seq(DownFrames) /\ Len(down') = n + 1
      /\ down'[n + 1] = event(e)
      /\ \A i \in 1 .. n : down'[i] = down[i]
  BY <1>1, <1>2, AppendFacts
<1>4. e.type # "CLOSE"
  BY ServerMessageFacts
<1>5. \A i \in 1 .. n : down[i].code = 0
  BY <1>2 DEF CloseIsLast
<1>6. up \in Seq(UpFrames) /\ socket = "open"
  BY DEF InTransit, TypeOK
<1>7. /\ up' \in Seq(UpFrames)
      /\ \A i \in 1 .. Len(up') : IsAuth(i)' => up' = up
  BY <1>6, ReadFacts
<1> HIDE DEF n
<1>8. InTransit'
  BY <1>3, <1>6, <1>7 DEF InTransit
<1>9. Acked' <=> Acked
  BY <1>1, <1>2, <1>3 DEF Acked, IsAck, n
<1>10. AuthFirst'
  BY <1>7, <1>9 DEF AuthFirst, IsAuth
<1>11. AckIsNews'
  BY <1>1, <1>2, <1>3 DEF AckIsNews, IsAck, n
<1>12. CloseIsLast'
  BY <1>1, <1>2, <1>3, <1>4, <1>5 DEF CloseIsLast, n
<1>13. TokenIsUsed' /\ (SessionIsLost => SessionIsLost')
  BY DEF TokenIsUsed, SessionIsLost
<1>14. RefusedIsLost'
  BY <1>1, <1>2, <1>3, <1>13 DEF RefusedIsLost, n
<1>15. FinalErrorsClose'
  BY <1>1, <1>2, <1>3, <1>5 DEF FinalErrorsClose, n
<1>16. OtherIsUnderstood' /\ TokensLast'
  BY <1>9 DEF OtherIsUnderstood, TokensLast, Used
<1>17. QED
  BY <1>8, <1>10, <1>11, <1>12, <1>13, <1>14, <1>15, <1>16


\* The server gives the connection up, with a last error or without.
LEMMA ClosingStep ==
  ASSUME LinkInv, up' = up \/ (up # <<>> /\ up' = Tail(up)),
         NEW events, NEW code \in Nat \ {0}, NEW reason \in DOMAIN ERROR_META,
         reason \notin {"INTERNAL_ERROR", "AUTH_FAILED", "NOT_AUTHENTICATED"},
         events = <<>> \/ events = <<event(makeErrorEvent(reason))>>,
         record.open, closeWith(events, code),
         UNCHANGED <<session, token, other, socket>>, faults' \in Nat, faults' >= faults
  PROVE  LinkOrder'
<1> USE DEF LinkInv, LinkOrder
<1> DEFINE n == Len(down)
           e == makeErrorEvent(reason)
<1>1. e \in ServerMessages /\ e.type = "ERROR" /\ field(e, "code") = reason
  BY ErrorFields DEF ServerMessages
<1> HIDE DEF e
<1>2. /\ event(e) \in DownFrames /\ event(e).code = 0 /\ event(e).message = e
      /\ close(code) \in DownFrames /\ close(code).code # 0
      /\ close(code).message = CloseMessage
  BY <1>1 DEF event, close, CloseMessage, DownFrames
<1>3. down \in Seq(DownFrames) /\ n \in Nat
  BY DEF InTransit
<1>4. /\ down' \in Seq(DownFrames) /\ Len(down') \in {n + 1, n + 2}
      /\ down'[Len(down')] = close(code)
      /\ \A i \in 1 .. n : down'[i] = down[i]
      /\ Len(down') = n + 2 => down'[n + 1] = event(e)
  <2>1. CASE events = <<>>
    <3>1. down' = Append(down, close(code))
      BY <1>2, <1>3, <2>1 DEF closeWith
    <3>2. QED
      BY <1>2, <1>3, <3>1, AppendFacts
  <2>2. CASE events = <<event(e)>>
    <3>1. down' = Append(Append(down, event(e)), close(code))
      BY <1>2, <1>3, <2>2 DEF closeWith
    <3>2. /\ Append(down, event(e)) \in Seq(DownFrames)
          /\ Len(Append(down, event(e))) = n + 1
          /\ Append(down, event(e))[n + 1] = event(e)
          /\ \A i \in 1 .. n : Append(down, event(e))[i] = down[i]
      BY <1>2, <1>3, AppendFacts
    <3>3. QED
      BY <1>2, <1>3, <3>1, <3>2, AppendFacts
  <2>3. QED
    BY <2>1, <2>2 DEF e
<1>5. \A i \in 1 .. n : down[i].code = 0
  BY <1>3 DEF CloseIsLast
<1>6. up \in Seq(UpFrames) /\ socket = "open" /\ record' = NoRecord
  BY DEF InTransit, TypeOK, closeWith
<1>7. /\ up' \in Seq(UpFrames)
      /\ \A i \in 1 .. Len(up') : IsAuth(i)' => up' = up
  BY <1>6, ReadFacts
<1>8. \A i \in 1 .. Len(down') :
        \/ i \in 1 .. n /\ down'[i] = down[i]
        \/ i = n + 1 /\ i < Len(down') /\ down'[i] = event(e)
        \/ i = Len(down') /\ i > n /\ down'[i] = close(code)
  BY <1>3, <1>4
<1> HIDE DEF n
<1>9. InTransit'
  BY <1>4, <1>6, <1>7 DEF InTransit
<1>10. \A i \in 1 .. Len(down') : IsAck(i)' <=> i \in 1 .. n /\ IsAck(i)
  <2> TAKE i \in 1 .. Len(down')
  <2>1. event(e).message.type # "AUTH_ACK" /\ close(code).message.type # "AUTH_ACK"
    BY <1>1, <1>2, CloseFacts
  <2>2. n \in Nat /\ Len(down') \in Nat
    BY <1>3, <1>4
  <2>3. QED
    BY <1>8, <2>1, <2>2 DEF IsAck
<1>11. Acked' <=> Acked
  <2>1. n \in Nat /\ Len(down') \in Nat /\ n <= Len(down') /\ n = Len(down)
    BY <1>3, <1>4 DEF n
  <2>2. QED
    BY <1>10, <2>1 DEF Acked
<1>12. AuthFirst'
  BY <1>6, <1>7, <1>11 DEF AuthFirst, IsAuth, NoRecord
<1>13. AckIsNews'
  <2> SUFFICES ASSUME NEW i \in 1 .. Len(down'), IsAck(i)'
               PROVE  /\ down'[i].token \in Tokens
                      /\ session'[down'[i].token] # "free"
                      /\ token' = NoToken \/ token' = down'[i].token
                      /\ \A j \in 1 .. Len(down') : IsAck(j)' => j = i
    BY DEF AckIsNews
  <2>1. i \in 1 .. Len(down) /\ IsAck(i) /\ down'[i] = down[i]
    BY <1>4, <1>10 DEF n
  <2>2. QED
    BY <1>10, <2>1 DEF AckIsNews, n
<1>14. CloseIsLast'
  <2>1. ASSUME NEW i \in 1 .. n
        PROVE  down'[i].code = 0 /\ down'[i].message.type # "CLOSE"
    BY <1>4, <1>5, <2>1 DEF CloseIsLast, n
  <2>2. ~record'.open
    BY <1>6 DEF NoRecord
  <2>3. QED
    BY <1>1, <1>2, <1>8, <2>1, <2>2, CloseFacts DEF CloseIsLast
<1>15. TokenIsUsed' /\ (SessionIsLost => SessionIsLost')
  BY DEF TokenIsUsed, SessionIsLost
<1>16. RefusedIsLost'
  BY <1>1, <1>2, <1>8, <1>15, CloseFacts DEF RefusedIsLost, n
<1>17. FinalErrorsClose'
  BY <1>2, <1>3, <1>4, <1>8, CloseFacts DEF FinalErrorsClose
<1>18. UnservedIsLost' /\ OtherIsUnderstood'
  BY <1>6 DEF UnservedIsLost, OtherIsUnderstood, NoRecord
<1>19. TokensLast'
  BY <1>11, UsedFinite DEF TokensLast, Used, TypeOK
<1>20. QED
  BY <1>9, <1>12, <1>13, <1>14, <1>15, <1>16, <1>17, <1>18, <1>19


\* AUTH is accepted, for a session there is or for a new one.
LEMMA AuthenticatedStep ==
  ASSUME LinkInv, up # <<>>, IsAuth(1), up' = Tail(up), record.open,
         NEW t \in Tokens, authenticate(t),
         \/ token = NoToken /\ session[t] = "free" /\ session' = [session EXCEPT ![t] = "live"]
         \/ token = t /\ session[t] = "live" /\ session' = session,
         UNCHANGED <<token, other, socket, faults>>
  PROVE  LinkOrder'
<1> USE DEF LinkInv, LinkOrder
<1> DEFINE n == Len(down)
<1>1. /\ authAck(t) \in DownFrames /\ authAck(t).message.type = "AUTH_ACK"
      /\ authAck(t).token = t /\ authAck(t).code = 0
      /\ field(authAck(t).message, "code") = "absent"
      /\ field(authAck(t).message, "recoverable") = "absent"
  BY AuthAckRead DEF authAck, DownFrames, ServerMessages
<1>2. down \in Seq(DownFrames) /\ n \in Nat
  BY DEF InTransit
<1>3. /\ down' \in Seq(DownFrames) /\ Len(down') = n + 1
      /\ down'[n + 1] = authAck(t)
      /\ \A i \in 1 .. n : down'[i] = down[i]
  BY <1>1, <1>2, AppendFacts DEF authenticate
<1>4. up' \in Seq(UpFrames) /\ \A i \in 1 .. Len(up') : ~IsAuth(i)'
  BY ReadFacts
<1>5. ~Acked
  <2>1. Len(up) \in Nat \ {0}
    BY TailFacts DEF InTransit
  <2>2. QED
    BY <2>1 DEF AuthFirst
<1>6. socket = "open" /\ t # NoToken /\ record' = [record EXCEPT !.token = t]
  BY LinkAssumption DEF TypeOK, authenticate
<1>7. record'.open /\ record'.token = t
  BY <1>6 DEF TypeOK
<1>8. \A i \in 1 .. n : down[i].code = 0 /\ ~IsAck(i)
  BY <1>2, <1>5 DEF CloseIsLast, Acked
<1>9. session'[t] = "live" /\ SessionsGoOn
  BY DEF SessionsGoOn, TypeOK
<1> HIDE DEF n
<1>10. InTransit'
  BY <1>3, <1>4, <1>6 DEF InTransit
<1>11. \A i \in 1 .. Len(down') : IsAck(i)' <=> i = n + 1
  BY <1>1, <1>2, <1>3, <1>8 DEF IsAck
<1>12. AuthFirst'
  BY <1>4 DEF AuthFirst
<1>13. AckIsNews'
  BY <1>1, <1>2, <1>3, <1>9, <1>11 DEF AckIsNews
<1>14. CloseIsLast'
  <2>1. ASSUME NEW i \in 1 .. n
        PROVE  down'[i].code = 0 /\ down'[i].message.type # "CLOSE"
    BY <1>3, <1>8, <2>1 DEF CloseIsLast, n
  <2>2. QED
    BY <1>1, <1>2, <1>3, <2>1 DEF CloseIsLast
<1>15. TokenIsUsed' /\ (SessionIsLost => SessionIsLost')
  BY <1>9 DEF TokenIsUsed, SessionIsLost, SessionsGoOn, TypeOK
<1>16. RefusedIsLost'
  BY <1>1, <1>2, <1>3, <1>15 DEF RefusedIsLost, n
<1>17. FinalErrorsClose'
  BY <1>1, <1>2, <1>3, <1>8 DEF FinalErrorsClose, n
<1>18. UnservedIsLost' /\ OtherIsUnderstood'
  BY <1>6, <1>7 DEF UnservedIsLost, OtherIsUnderstood
<1>19. Acked'
  BY <1>2, <1>3, <1>11 DEF Acked
<1>20. TokensLast'
  <2>1. CASE token = t /\ session' = session
    BY <1>6, <1>19, <2>1 DEF TokensLast, Used
  <2>2. CASE token = NoToken /\ session[t] = "free" /\ session' = [session EXCEPT ![t] = "live"]
    <3>1. Used' = Used \cup {t} /\ t \notin Used
      BY <2>2 DEF Used, TypeOK
    <3>2. Cardinality(Used') = Cardinality(Used) + 1
      BY <3>1, UsedFinite, FS_AddElement
    <3>3. Cardinality(Used) <= faults
      BY <1>5, <2>2, UsedFinite DEF TokensLast, TypeOK
    <3>4. QED
      BY <1>19, <3>2, <3>3, UsedFinite DEF TokensLast, TypeOK
  <2>3. QED
    BY <2>1, <2>2
<1>21. QED
  BY <1>10, <1>12, <1>13, <1>14, <1>15, <1>16, <1>17, <1>18, <1>20

\* There is a token for a new session.
LEMMA NewTokenIsFree ==
  ASSUME LinkInv, token = NoToken, ~Acked
  PROVE  newToken \in Tokens /\ session[newToken] = "free"
<1>1. Cardinality(Used) <= faults /\ faults <= MaxFaults /\ faults \in Nat
  BY UsedFinite DEF LinkInv, LinkOrder, TokensLast, TypeOK
<1>2. Cardinality(Used) < Cardinality(Tokens)
  BY <1>1, UsedFinite, TokensAssumption, LinkAssumption, FS_CardinalityType
<1>3. Used # Tokens
  BY <1>2, UsedFinite, <1>1
<1>4. \E t \in Tokens : session[t] = "free"
  BY <1>3 DEF Used
<1>5. QED
  BY <1>4 DEF newToken

\* What an error that is final is followed by is not read before it.
LEMMA FinalAfterTail ==
  ASSUME NEW n, n = Len(down), FinalErrorsClose,
         Len(down') = n - 1, n \in Nat \ {0},
         \A i \in 1 .. Len(down') : i + 1 \in 2 .. n /\ down'[i] = down[i + 1]
  PROVE  FinalErrorsClose'
<1> SUFFICES ASSUME NEW i \in 1 .. Len(down'), field(down'[i].message, "recoverable") = "false"
             PROVE  \E j \in i + 1 .. Len(down') : down'[j].code # 0
  BY DEF FinalErrorsClose
<1>1. i + 1 \in 1 .. n /\ field(down[i + 1].message, "recoverable") = "false"
  OBVIOUS
<1>2. PICK k \in i + 2 .. n : down[k].code # 0
  BY <1>1 DEF FinalErrorsClose
<1>3. k - 1 \in i + 1 .. Len(down') /\ k - 1 \in 1 .. Len(down') /\ down'[k - 1] = down[k]
  BY <1>2
<1>4. QED
  BY <1>2, <1>3

\* The page reads what is no close.
LEMMA ReadingStep ==
  ASSUME LinkInv, onmessage
  PROVE  LinkOrder' /\ (token' # NoToken => token' \in Tokens)
<1> USE DEF LinkInv, LinkOrder
<1> DEFINE n == Len(down)
           f == Head(down)
<1>1. down \in Seq(DownFrames) /\ down # <<>> /\ down' = Tail(down)
  BY DEF InTransit, onmessage
<1>2. /\ down' \in Seq(DownFrames) /\ Len(down') = n - 1 /\ n \in Nat \ {0}
      /\ \A i \in 1 .. Len(down') : i + 1 \in 2 .. n /\ down'[i] = down[i + 1]
      /\ f = down[1] /\ f \in DownFrames /\ f.code = 0
  BY <1>1, TailFacts DEF onmessage
<1>3. /\ UNCHANGED <<retryCount, socket, record, session, up, other, faults>>
      /\ IF parseEvent(f.message) /\ f.message.type = "AUTH_ACK"
         THEN token' = f.token ELSE UNCHANGED token
  BY DEF onmessage
<1>4. f.message.type # "CLOSE" /\ f.message \in ServerMessages \cup {CloseMessage}
  BY <1>2 DEF CloseIsLast, DownFrames
<1>5. f.message.type = "AUTH_ACK" => parseEvent(f.message)
  BY <1>4, ServerMessageFacts, CloseFacts
<1> HIDE DEF f
<1>6. CASE IsAck(1)
  <2>1. token' = f.token /\ f.token \in Tokens /\ session[f.token] # "free"
        /\ (token = NoToken \/ token' = token)
    BY <1>2, <1>3, <1>5, <1>6 DEF AckIsNews, IsAck
  <2>2. \A i \in 1 .. Len(down') : ~IsAck(i)'
    <3>1. \A j \in 2 .. n : ~IsAck(j)
      BY <1>2, <1>6 DEF AckIsNews
    <3>2. QED
      BY <1>2, <3>1 DEF IsAck
  <2>3. \A i \in 1 .. Len(up) : ~IsAuth(i)
    BY <1>2, <1>6 DEF AuthFirst, Acked
  <2>4. token' # NoToken /\ (SessionIsLost => SessionIsLost')
    BY <1>3, <2>1, LinkAssumption DEF SessionIsLost
  <2>5. QED
  <3>1. InTransit' /\ AuthFirst' /\ AckIsNews'
    BY <1>2, <1>3, <2>2, <2>3 DEF InTransit, AuthFirst, AckIsNews, IsAuth, TypeOK
  <3>2. CloseIsLast'
    BY <1>2, <1>3 DEF CloseIsLast
  <3>3. TokenIsUsed' /\ UnservedIsLost' /\ OtherIsUnderstood'
    BY <1>3, <2>1, <2>4 DEF TokenIsUsed, UnservedIsLost, OtherIsUnderstood, IsAuth
  <3>4. RefusedIsLost'
    BY <1>2, <1>3, <2>4 DEF RefusedIsLost
  <3>5. FinalErrorsClose'
    BY <1>2, FinalAfterTail
  <3>6. TokensLast'
    BY <1>2, <1>3, <1>6, <2>4 DEF TokensLast, Used, Acked
  <3>7. QED
    BY <2>1, <3>1, <3>2, <3>3, <3>4, <3>5, <3>6
<1>7. CASE ~IsAck(1)
  <2>1. token' = token
    BY <1>2, <1>3, <1>7 DEF IsAck
  <2>2. Acked' <=> Acked
    <3>1. Acked => Acked'
      <4> SUFFICES ASSUME NEW i \in 1 .. n, IsAck(i)
                   PROVE  Acked'
        BY DEF Acked
      <4>1. i # 1 /\ i - 1 \in 1 .. Len(down')
        BY <1>2, <1>7
      <4>2. down'[i - 1] = down[i - 1 + 1] /\ i - 1 + 1 = i
        BY <1>2, <4>1
      <4>3. IsAck(i - 1)'
        BY <4>2 DEF IsAck
      <4>4. QED
        BY <4>1, <4>3 DEF Acked
    <3>2. QED
      BY <1>2, <3>1 DEF Acked, IsAck
  <2>3. InTransit' /\ AuthFirst'
    <3>1. InTransit'
      BY <1>1, <1>2, <1>3 DEF InTransit
    <3>2. AuthFirst'
      BY <1>3, <2>1, <2>2 DEF AuthFirst, IsAuth
    <3>3. QED
      BY <3>1, <3>2
  <2>4. AckIsNews'
    <3>1. \A i \in 1 .. Len(down') : i + 1 \in 1 .. n /\ (IsAck(i)' <=> IsAck(i + 1))
      BY <1>2 DEF IsAck
    <3> SUFFICES ASSUME NEW i \in 1 .. Len(down'), IsAck(i)'
                 PROVE  /\ down'[i].token \in Tokens
                        /\ session'[down'[i].token] # "free"
                        /\ token' = NoToken \/ token' = down'[i].token
                        /\ \A j \in 1 .. Len(down') : IsAck(j)' => j = i
      BY DEF AckIsNews
    <3>2. IsAck(i + 1) /\ down'[i] = down[i + 1] /\ i + 1 \in 1 .. n
      BY <1>2, <3>1
    <3>3. \A j \in 1 .. n : IsAck(j) => j = i + 1
      BY <3>2 DEF AckIsNews
    <3>4. \A j \in 1 .. Len(down') : IsAck(j)' => j = i
      BY <1>2, <3>1, <3>3
    <3>5. QED
      BY <1>3, <2>1, <3>2, <3>4 DEF AckIsNews
  <2>5. CloseIsLast'
    BY <1>2, <1>3 DEF CloseIsLast
  <2>6. TokenIsUsed' /\ UnservedIsLost' /\ OtherIsUnderstood' /\ (SessionIsLost <=> SessionIsLost')
    BY <1>3, <2>1 DEF TokenIsUsed, UnservedIsLost, OtherIsUnderstood, IsAuth, SessionIsLost
  <2>7. RefusedIsLost'
    BY <1>2, <1>3, <2>6 DEF RefusedIsLost
  <2>8. FinalErrorsClose'
    BY <1>2, FinalAfterTail
  <2>9. TokensLast'
    BY <1>3, <2>1, <2>2 DEF TokensLast, Used
  <2>10. QED
    BY <2>1, <2>3, <2>4, <2>5, <2>6, <2>7, <2>8, <2>9 DEF TypeOK
<1>8. QED
  BY <1>6, <1>7


\* The page sends what it builds.
LEMMA SendingStep ==
  ASSUME LinkInv, NEW m \in Builders, send(m)
  PROVE  LinkOrder'
<1> USE DEF LinkInv, LinkOrder
<1> DEFINE f == [message |-> m, token |-> token]
<1>1. f \in UpFrames /\ f.message = m /\ m.type # "AUTH"
  BY BuiltIsAccepted DEF UpFrames, PageMessages, TypeOK
<1>2. up \in Seq(UpFrames) /\ down \in Seq(DownFrames) /\ socket = "open" /\ up' = Append(up, f)
      /\ UNCHANGED <<wsState, token, retryCount, socket, record, session, down, other, faults>>
  BY DEF InTransit, send
<1>3. /\ up' \in Seq(UpFrames) /\ Len(up') = Len(up) + 1 /\ Len(up) \in Nat
      /\ up'[Len(up) + 1] = f
      /\ \A i \in 1 .. Len(up) : up'[i] = up[i]
  BY <1>1, <1>2, AppendFacts
<1> HIDE DEF f
<1>4. \A i \in 1 .. Len(up') : IsAuth(i)' <=> i \in 1 .. Len(up) /\ IsAuth(i)
  <2> TAKE i \in 1 .. Len(up')
  <2>1. i = Len(up) + 1 \/ i \in 1 .. Len(up)
    BY <1>3
  <2>2. QED
    BY <1>1, <1>3, <2>1 DEF IsAuth
<1>5. InTransit'
  BY <1>2, <1>3 DEF InTransit
<1>6. (Acked' <=> Acked) /\ (SessionIsLost' <=> SessionIsLost)
  BY <1>2 DEF Acked, IsAck, SessionIsLost
<1>7. AuthFirst'
  BY <1>2, <1>3, <1>4, <1>6 DEF AuthFirst
<1>8. UnservedIsLost'
  <2>1. \A i \in 1 .. Len(up) : i \in 1 .. Len(up')
    BY <1>3
  <2>2. QED
    BY <1>2, <1>4, <1>6, <2>1 DEF UnservedIsLost
<1>9. AckIsNews' /\ CloseIsLast' /\ TokenIsUsed'
  BY <1>2 DEF AckIsNews, CloseIsLast, TokenIsUsed, IsAck
<1>10. RefusedIsLost' /\ FinalErrorsClose' /\ OtherIsUnderstood' /\ TokensLast'
  BY <1>2, <1>6 DEF RefusedIsLost, FinalErrorsClose, OtherIsUnderstood, TokensLast, Used
<1>11. QED
  BY <1>5, <1>7, <1>8, <1>9, <1>10

\* A connection opens with AUTH.
LEMMA OpeningStep ==
  ASSUME LinkInv, onopen
  PROVE  LinkOrder'
<1> USE DEF LinkInv, LinkOrder
<1> DEFINE f == [message |-> buildAuth(IF token = NoToken THEN "null" ELSE "uuid"), token |-> token]
<1>1. f \in UpFrames /\ f.token = token /\ f.message.type = "AUTH"
  BY AuthIsAccepted DEF UpFrames, PageMessages, TypeOK
<1>2. /\ up' = <<f>> /\ down' = <<>> /\ socket' = "open" /\ record' = [open |-> TRUE, token |-> NoToken]
      /\ UNCHANGED <<token, session, other, faults>>
  BY DEF onopen
<1>3. down = <<>> /\ ~Acked /\ ~Acked'
  BY <1>2 DEF InTransit, onopen, Acked
<1> HIDE DEF f
<1>4. Len(up') = 1 /\ up'[1] = f /\ IsAuth(1)'
  BY <1>1, <1>2 DEF IsAuth
<1>5. InTransit' /\ AuthFirst'
  BY <1>1, <1>2, <1>3, <1>4 DEF InTransit, AuthFirst
<1>6. AckIsNews' /\ CloseIsLast' /\ RefusedIsLost' /\ FinalErrorsClose'
  BY <1>2 DEF AckIsNews, CloseIsLast, RefusedIsLost, FinalErrorsClose
<1>7. TokenIsUsed' /\ UnservedIsLost' /\ OtherIsUnderstood'
  BY <1>2, <1>4 DEF TokenIsUsed, UnservedIsLost, OtherIsUnderstood
<1>8. TokensLast'
  BY <1>2, <1>3 DEF TokensLast, Used
<1>9. QED
  BY <1>5, <1>6, <1>7, <1>8

\* A frame that is read and has no effect.
LEMMA DroppingStep ==
  ASSUME LinkInv, up # <<>>, up' = Tail(up), UnservedIsLost',
         UNCHANGED <<down, record, session, token, other, socket, faults>>
  PROVE  LinkOrder'
<1> USE DEF LinkInv, LinkOrder
<1>1. up' \in Seq(UpFrames) /\ \A i \in 1 .. Len(up') : ~IsAuth(i)'
  BY ReadFacts
<1>2. socket = "open"
  BY DEF InTransit
<1>3. InTransit' /\ AuthFirst'
  BY <1>1, <1>2 DEF InTransit, AuthFirst
<1>4. (Acked' <=> Acked) /\ (SessionIsLost' <=> SessionIsLost)
  BY DEF Acked, IsAck, SessionIsLost
<1>5. AckIsNews' /\ CloseIsLast' /\ TokenIsUsed'
  BY DEF AckIsNews, CloseIsLast, TokenIsUsed, IsAck
<1>6. RefusedIsLost' /\ FinalErrorsClose' /\ OtherIsUnderstood' /\ TokensLast'
  BY <1>4 DEF RefusedIsLost, FinalErrorsClose, OtherIsUnderstood, TokensLast, Used
<1>7. QED
  BY <1>3, <1>5, <1>6

-----------------------------------------------------------------------------
\* The server reads a frame.

LEMMA AcceptedIsOK ==
  ASSUME NEW m, isAnyCommand(m)
  PROVE  /\ parseCommand([shape |-> "object", message |-> m]) = "OK"
         /\ m.type = "AUTH" => Refused([shape |-> "object", message |-> m], "new") = "OK"
<1>1. field(m, "protocolVersion") = "v1"
  BY CommandFields, BaseFields DEF isAnyCommand
<1>2. QED
  BY <1>1 DEF parseCommand, Refused

\* The errors that are answered and leave the connection open.
LEMMA SafeError ==
  ASSUME NEW code \in Passing \ {"INTERNAL_ERROR"}
  PROVE  /\ makeErrorEvent(code) \in ServerMessages
         /\ makeErrorEvent(code).type # "AUTH_ACK"
         /\ field(makeErrorEvent(code), "recoverable") # "false"
         /\ field(makeErrorEvent(code), "code") = code
<1>1. code \in DOMAIN ERROR_META
  BY CodesOfTheRouter
<1>2. makeErrorEvent(code) \in ServerMessages
  BY <1>1 DEF ServerMessages
<1>3. QED
  BY <1>1, <1>2, ErrorFields

\* The first frame is the AUTH.
LEMMA AuthReadStep ==
  ASSUME LinkInv, handleFrame, record.open, IsAuth(1)
  PROVE  LinkOrder'
<1> USE DEF LinkInv, LinkOrder
<1> DEFINE f == Head(up)
<1>1. /\ up # <<>> /\ up' = Tail(up)
      /\ UNCHANGED <<wsState, token, retryCount, socket, other, faults>>
  BY DEF handleFrame
<1>2. up \in Seq(UpFrames) /\ f = up[1] /\ f \in UpFrames /\ Len(up) \in Nat \ {0}
  BY <1>1, TailFacts DEF InTransit
<1>3. f.message.type = "AUTH" /\ f.token = token /\ record.token = NoToken /\ ~Acked
  BY <1>2 DEF AuthFirst, IsAuth
<1>4. isAnyCommand(f.message)
  BY <1>2, <1>3, BuiltIsAccepted, AuthIsAccepted DEF UpFrames, PageMessages
<1>5. Refused([shape |-> "object", message |-> f.message], Standing) = "OK"
  BY <1>3, <1>4, AcceptedIsOK DEF Standing
<1>6. handleAuth(f.token)
  BY <1>1, <1>3, <1>5 DEF handleFrame
<1> HIDE DEF f
<1>7. CASE token = NoToken
  <2>1. newToken \in Tokens /\ session[newToken] = "free"
    BY <1>3, <1>7, NewTokenIsFree
  <2>2. session' = [session EXCEPT ![newToken] = "live"] /\ authenticate(newToken)
    BY <1>3, <1>6, <1>7 DEF handleAuth
  <2>3. QED
    BY <1>1, <1>7, <2>1, <2>2, AuthenticatedStep
<1>8. CASE token # NoToken /\ session[token] = "live"
  <2>1. token \in Tokens /\ authenticate(token) /\ session' = session
    BY <1>3, <1>6, <1>8 DEF handleAuth, TypeOK
  <2>2. QED
    BY <1>1, <1>8, <2>1, AuthenticatedStep
<1>9. CASE token # NoToken /\ session[token] # "live"
  <2>1. SessionIsLost
    BY <1>9 DEF SessionIsLost, TokenIsUsed, TypeOK
  <2>2. answer(makeErrorEvent("AUTH_FAILED"))
    BY <1>3, <1>6, <1>9 DEF handleAuth
  <2>3. UnservedIsLost'
    BY <1>1, <2>1, <2>2 DEF UnservedIsLost, SessionIsLost, answer
  <2>4. QED
    BY <1>1, <2>1, <2>2, <2>3, SafeError, CodesOfTheRouter, AnswerStep
<1>10. QED
  BY <1>7, <1>8, <1>9


\* A refusal, which closes the connection or not.
LEMMA ErrorStep ==
  ASSUME LinkInv, up # <<>>, up' = Tail(up), record.open,
         NEW code \in (Passing \ {"INTERNAL_ERROR", "AUTH_FAILED"}) \cup (Closing \ Passing),
         code = "NOT_AUTHENTICATED" => SessionIsLost,
         sendError(code), UNCHANGED <<token, other, socket, faults>>,
         record'.open => UnservedIsLost'
  PROVE  LinkOrder'
<1>1. code \in DOMAIN ERROR_META /\ (ERROR_META[code].closesConnection <=> code \in Closing)
  BY CodesOfTheRouter
<1>2. CASE code \in Closing
  <2>1. closeWith(<<event(makeErrorEvent(code))>>, 4001) /\ UNCHANGED session
    BY <1>1, <1>2 DEF sendError
  <2>2. code \notin {"INTERNAL_ERROR", "AUTH_FAILED", "NOT_AUTHENTICATED"}
    BY <1>2 DEF Closing
  <2>3. faults' \in Nat /\ faults' >= faults
    BY DEF LinkInv, TypeOK
  <2>4. QED
    BY <1>1, <2>1, <2>2, <2>3, ClosingStep
<1>3. CASE code \notin Closing
  <2>1. answer(makeErrorEvent(code)) /\ record' = record
    BY <1>1, <1>3 DEF sendError, answer
  <2>2. code \in Passing \ {"INTERNAL_ERROR", "AUTH_FAILED"}
    BY <1>3
  <2>3. QED
    BY <2>1, <2>2, SafeError, AnswerStep
<1>4. QED
  BY <1>2, <1>3

\* Any other frame, on a connection that is authenticated or has been refused.
LEMMA CommandReadStep ==
  ASSUME LinkInv, handleFrame, record.open, ~IsAuth(1)
  PROVE  LinkOrder'
<1> USE DEF LinkInv, LinkOrder
<1> DEFINE m == Head(up).message
           refused == Refused([shape |-> "object", message |-> m], Standing)
<1>1. /\ up # <<>> /\ up' = Tail(up)
      /\ UNCHANGED <<wsState, token, retryCount, socket, other, faults>>
  BY DEF handleFrame
<1>2. up \in Seq(UpFrames) /\ m = up[1].message /\ m \in PageMessages /\ m.type # "AUTH"
  <2>1. up \in Seq(UpFrames)
    BY DEF InTransit
  <2>2. Head(up) = up[1] /\ up[1] \in UpFrames
    BY <1>1, <2>1, TailFacts
  <2>3. up[1].message \in PageMessages
    BY <2>2 DEF UpFrames
  <2>4. QED
    BY <2>1, <2>2, <2>3 DEF IsAuth
<1>3. m \in Builders
  BY <1>2, AuthIsAccepted DEF PageMessages
<1>4. \/ sendError("RATE_LIMITED")
      \/ refused # "OK" /\ sendError(refused)
      \/ refused = "OK" /\ \E e \in Handled(m) : answer(e)
      \/ UNCHANGED <<record, session, down>>
  BY <1>2 DEF handleFrame
<1>5. \A i \in 1 .. Len(up) : ~IsAuth(i)
  BY <1>2 DEF AuthFirst, IsAuth
<1>6. record.token = NoToken => SessionIsLost
  BY <1>5 DEF UnservedIsLost
<1>7. UNCHANGED session /\ (record' = record \/ ~record'.open) => UnservedIsLost'
  BY <1>1, <1>6 DEF UnservedIsLost, SessionIsLost
<1>8. refused \in {"OK", "MESSAGE_TOO_LARGE", "MALFORMED_MESSAGE", "PROTOCOL_VERSION_MISMATCH",
                   "UNKNOWN_MESSAGE_TYPE", "NOT_AUTHENTICATED", "SESSION_EXPIRED"}
      /\ (refused = "OK" => isAnyCommand(m))
      /\ (refused = "NOT_AUTHENTICATED" => Standing = "new")
  BY RefusedCodes
<1> HIDE DEF m, refused
<1>9. \A code : sendError(code) => UNCHANGED session /\ (record' = record \/ ~record'.open)
  BY DEF sendError, closeWith, answer, NoRecord
<1>10. CASE sendError("RATE_LIMITED")
  <2>1. "RATE_LIMITED" \in Passing \ {"INTERNAL_ERROR", "AUTH_FAILED"}
    BY CodesOfTheRouter
  <2>2. QED
    BY <1>1, <1>7, <1>9, <1>10, <2>1, ErrorStep
<1>11. CASE refused # "OK" /\ sendError(refused)
  <2>1. refused \in (Passing \ {"INTERNAL_ERROR", "AUTH_FAILED"}) \cup (Closing \ Passing)
    BY <1>8, <1>11, CodesOfTheRouter
  <2>2. refused = "NOT_AUTHENTICATED" => SessionIsLost
    BY <1>6, <1>8 DEF Standing
  <2>3. QED
    BY <1>1, <1>7, <1>9, <1>11, <2>1, <2>2, ErrorStep
<1>12. CASE refused = "OK" /\ \E e \in Handled(m) : answer(e)
  <2>1. PICK e \in Handled(m) : answer(e)
    BY <1>12
  <2>2. e \in ServerMessages
    BY <1>3, <1>8, <1>12 DEF ServerMessages
  <2>3. /\ e.type # "AUTH_ACK" /\ field(e, "recoverable") # "false"
        /\ field(e, "code") \notin {"AUTH_FAILED", "NOT_AUTHENTICATED"}
    BY <1>8, <1>12, HandledAnswers, AnswerFacts
  <2>4. UnservedIsLost'
    BY <1>7, <2>1 DEF answer
  <2>5. QED
    BY <1>1, <2>1, <2>2, <2>3, <2>4, AnswerStep
<1>13. CASE UNCHANGED <<record, session, down>>
  BY <1>1, <1>7, <1>13, DroppingStep
<1>14. QED
  BY <1>4, <1>10, <1>11, <1>12, <1>13

\* A frame is read, whatever it is, or dropped on a connection given up.
LEMMA FrameReadStep ==
  ASSUME LinkInv, handleFrame
  PROVE  LinkOrder'
<1>1. CASE ~record.open
  <2>1. /\ up # <<>> /\ up' = Tail(up)
        /\ UNCHANGED <<down, record, session, token, other, socket, faults>>
    BY <1>1 DEF handleFrame
  <2>2. UnservedIsLost'
    BY <1>1, <2>1 DEF UnservedIsLost
  <2>3. QED
    BY <2>1, <2>2, DroppingStep
<1>2. QED
  BY <1>1, AuthReadStep, CommandReadStep

-----------------------------------------------------------------------------
\* The other steps of the server.

LEMMA NotifyStep ==
  ASSUME LinkInv, notify
  PROVE  LinkOrder'
<1> USE DEF LinkInv, LinkOrder
<1>1. PICK e \in Notices : answer(e)
  BY DEF notify
<1>2. UNCHANGED <<wsState, token, retryCount, socket, up, other, faults, record, session>>
  BY <1>1 DEF notify, serverUnchanged, answer
<1>3. e \in ServerMessages /\ Answer(e)
  BY NoticesRead DEF ServerMessages, Answer
<1>4. UnservedIsLost'
  BY <1>2 DEF UnservedIsLost, SessionIsLost, IsAuth
<1>5. record.open
  BY DEF notify
<1>6. QED
  BY <1>1, <1>2, <1>3, <1>4, <1>5, AnswerFacts, AnswerStep

\* A fault is one of those there can be.
LEMMA FaultTaken ==
  ASSUME TypeOK, fault
  PROVE  /\ faults' \in Nat /\ faults' > faults /\ faults' >= faults
         /\ faults' \in 0 .. MaxFaults
BY LinkAssumption DEF TypeOK, fault

\* The server's timers close the connection.
LEMMA TimeoutStep ==
  ASSUME LinkInv, authTimeout \/ idleTimeout
  PROVE  LinkOrder'
<1>1. faults' \in Nat /\ faults' >= faults
  BY FaultTaken DEF LinkInv, TypeOK, authTimeout, idleTimeout
<1>2. record.open /\ UNCHANGED <<session, token, other, socket, up>>
  BY DEF authTimeout, idleTimeout, serverUnchanged
<1>3. /\ "AUTH_TIMEOUT" \in DOMAIN ERROR_META
      /\ "AUTH_TIMEOUT" \notin {"INTERNAL_ERROR", "AUTH_FAILED", "NOT_AUTHENTICATED"}
  BY CodesOfTheRouter
<1>4. \/ closeWith(<<event(makeErrorEvent("AUTH_TIMEOUT"))>>, 4008)
      \/ closeWith(<<>>, 4006)
  BY DEF authTimeout, idleTimeout
<1>5. 4008 \in Nat \ {0} /\ 4006 \in Nat \ {0}
  OBVIOUS
<1>6. QED
  BY <1>1, <1>2, <1>3, <1>4, <1>5, ClosingStep

\* Sessions when one expires or all are lost.
LEMMA SessionsLost ==
  ASSUME TypeOK,
         \/ session' = session
         \/ \E t \in Tokens : session[t] = "live" /\ session' = [session EXCEPT ![t] = "lost"]
         \/ session' = [t \in Tokens |-> IF session[t] = "live" THEN "lost" ELSE session[t]]
  PROVE  SessionsGoOn /\ Used' = Used /\ session' \in [Tokens -> {"free", "live", "lost"}]
BY DEF SessionsGoOn, Used, TypeOK

\* The connection is cut, with the network or with the server.
LEMMA CutStep ==
  ASSUME LinkInv, NEW sessions, cut(sessions), SessionsGoOn, Used' = Used
  PROVE  LinkOrder'
<1> USE DEF LinkInv, LinkOrder
<1>1. faults' \in Nat /\ faults' > faults /\ faults' >= faults
  BY FaultTaken DEF cut
<1>2. up' = <<>> /\ record' = NoRecord /\ UNCHANGED <<wsState, token, retryCount, socket, other>>
  BY DEF cut
<1>3. CASE socket # "open"
  <2>1. down' = <<>> /\ ~record'.open
    BY <1>2, <1>3 DEF cut, NoRecord
  <2>2. UNCHANGED <<token, other>>
    BY <1>2
  <2>3. QED
    BY <1>1, <1>2, <2>1, <2>2, ClearedStep
<1>4. CASE socket = "open"
  <2>1. down' = <<close(1006)>> /\ close(1006) \in DownFrames /\ close(1006).code # 0
        /\ close(1006).message = CloseMessage
    BY <1>4 DEF cut, close, DownFrames, CloseMessage
  <2>2. Len(down') = 1 /\ down'[1].message = CloseMessage /\ down'[1].code # 0
    BY <2>1
  <2>3. InTransit' /\ AuthFirst' /\ ~Acked'
    BY <1>2, <1>4, <2>1, <2>2, CloseFacts DEF InTransit, AuthFirst, Acked, IsAck
  <2>4. AckIsNews' /\ CloseIsLast' /\ RefusedIsLost' /\ FinalErrorsClose'
    BY <1>2, <2>2, CloseFacts
    DEF AckIsNews, CloseIsLast, RefusedIsLost, FinalErrorsClose, IsAck, NoRecord
  <2>5. TokenIsUsed' /\ UnservedIsLost' /\ OtherIsUnderstood'
    BY <1>2 DEF TokenIsUsed, UnservedIsLost, OtherIsUnderstood, SessionsGoOn, TypeOK, NoRecord
  <2>6. TokensLast'
    BY <1>1, <1>2, <2>3, UsedFinite DEF TokensLast, TypeOK
  <2>7. QED
    BY <2>3, <2>4, <2>5, <2>6
<1>5. QED
  BY <1>3, <1>4

\* The page's end of the connection is gone.
LEMMA GoneStep ==
  ASSUME LinkInv, gone, faults' \in Nat, faults' >= faults, Acked => faults' > faults
  PROVE  LinkOrder'
<1> USE DEF LinkInv
<1>1. /\ up' = <<>> /\ down' = <<>> /\ ~record'.open
      /\ UNCHANGED <<token, other>> /\ session' = session
  BY DEF gone, NoRecord
<1>2. SessionsGoOn /\ Used' = Used
  BY <1>1, SessionsLost
<1>3. QED
  BY <1>1, <1>2, ClearedStep

\* When a close is what comes next it is all that comes.
LEMMA ClosedStep ==
  ASSUME LinkInv, closed
  PROVE  LinkOrder'
<1> USE DEF LinkInv, LinkOrder
<1>1. down \in Seq(DownFrames) /\ down # <<>> /\ Head(down).code # 0
  BY DEF InTransit, closed
<1>2. Len(down) \in Nat \ {0} /\ Head(down) = down[1]
  BY <1>1, TailFacts
<1>3. down[1].message.type = "CLOSE" /\ Len(down) = 1
  <2>1. 1 \in 1 .. Len(down) /\ down[1].code # 0
    BY <1>1, <1>2
  <2>2. QED
    BY <2>1 DEF CloseIsLast
<1>4. ~Acked
  BY <1>2, <1>3 DEF Acked, IsAck
<1>5. gone /\ faults' \in Nat /\ faults' >= faults
  BY DEF closed, onclose, TypeOK
<1>6. QED
  BY <1>4, <1>5, GoneStep

\* What another connection is answered or sent.
LEMMA OtherStep ==
  ASSUME LinkInv, NEW frame, NEW standing, otherFrame(frame, standing)
  PROVE  LinkOrder'
<1> DEFINE refused == Refused(frame, standing)
<1>1. UNCHANGED <<wsState, token, retryCount, socket, record, session, up, down, faults>>
  BY DEF otherFrame
<1>2. PICK e \in IF refused = "OK" THEN Handled(frame.message) ELSE {makeErrorEvent(refused)} :
        other' = e
  BY DEF otherFrame
<1>3. parseEvent(e) /\ field(e, "code") # "INTERNAL_ERROR"
  <2>1. CASE refused = "OK"
    BY <1>2, <2>1, RefusedCodes, HandledAnswers, AnswerFacts
  <2>2. CASE refused # "OK"
    <3>1. refused \in DOMAIN ERROR_META /\ refused # "INTERNAL_ERROR"
      BY <2>2, RefusedCodes, CodesOfTheRouter
    <3>2. QED
      BY <1>2, <2>2, <3>1, ErrorFields
  <2>3. QED
    BY <2>1, <2>2
<1>4. OtherIsUnderstood'
  BY <1>2, <1>3 DEF OtherIsUnderstood
<1>5. SessionsGoOn /\ Used' = Used
  BY <1>1, SessionsLost DEF LinkInv
<1>6. faults' \in Nat /\ faults' >= faults
  BY <1>1 DEF LinkInv, TypeOK
<1>7. QED
  BY <1>1, <1>4, <1>5, <1>6, QuietStep

-----------------------------------------------------------------------------
\* Every step keeps the order of what is on its way.
LEMMA OrderStep ==
  ASSUME LinkInv, [Next]_vars
  PROVE  LinkOrder'
<1> USE DEF LinkInv
<1>1. TypeOK /\ faults \in Nat /\ faults >= faults /\ OtherIsUnderstood
  BY DEF TypeOK, LinkOrder
<1>2. CASE connect \/ retry
  <2>1. /\ UNCHANGED <<token, record, session, up, down, faults>>
        /\ socket = "none" /\ socket' = "connecting"
        /\ other' = NoEvent \/ other' = other
    BY <1>2 DEF connect, retry, openSocket
  <2>2. OtherIsUnderstood'
    BY <1>1, <2>1 DEF OtherIsUnderstood, NoEvent
  <2>3. SessionsGoOn /\ Used' = Used
    BY <2>1, SessionsLost
  <2>4. QED
    BY <1>1, <2>1, <2>2, <2>3, QuietStep
<1>3. CASE connectFails \/ pongTimeout \/ reload
  <2>1. gone /\ fault
    BY <1>3 DEF connectFails, pongTimeout, reload, onclose
  <2>2. QED
    BY <1>1, <2>1, FaultTaken, GoneStep
<1>4. CASE lose \/ restart
  <2>1. PICK sessions : /\ cut(sessions)
                        /\ \/ sessions = session
                           \/ sessions = [t \in Tokens |-> IF session[t] = "live" THEN "lost"
                                                           ELSE session[t]]
    BY <1>4 DEF lose, restart
  <2>2. SessionsGoOn /\ Used' = Used
    BY <1>1, <2>1, SessionsLost DEF cut
  <2>3. QED
    BY <2>1, <2>2, CutStep
<1>5. CASE \E t \in Tokens : expire(t)
  <2>1. /\ UNCHANGED <<token, record, socket, up, down, faults, other>>
        /\ \E t \in Tokens : session[t] = "live" /\ session' = [session EXCEPT ![t] = "lost"]
    BY <1>5 DEF expire
  <2>2. SessionsGoOn /\ Used' = Used
    BY <1>1, <2>1, SessionsLost
  <2>3. OtherIsUnderstood'
    BY <1>1, <2>1 DEF OtherIsUnderstood
  <2>4. QED
    BY <1>1, <2>1, <2>2, <2>3, QuietStep
<1>6. CASE UNCHANGED vars
  <2>1. UNCHANGED <<token, record, session, socket, up, down, faults, other>>
    BY <1>6 DEF vars
  <2>2. SessionsGoOn /\ Used' = Used
    BY <1>1, <2>1, SessionsLost
  <2>3. OtherIsUnderstood'
    BY <1>1, <2>1 DEF OtherIsUnderstood
  <2>4. QED
    BY <1>1, <2>1, <2>2, <2>3, QuietStep
<1>7. CASE onopen \/ closed \/ onmessage \/ handleFrame \/ authTimeout \/ notify \/ idleTimeout
  BY <1>7, OpeningStep, ClosedStep, ReadingStep, FrameReadStep, TimeoutStep, NotifyStep
<1>8. CASE \E m \in Builders : send(m)
  BY <1>8, SendingStep
<1>9. CASE \E frame \in Strays, standing \in {"new", "known", "expired"} :
             otherFrame(frame, standing)
  BY <1>9, OtherStep
<1>10. QED
  BY <1>2, <1>3, <1>4, <1>5, <1>6, <1>7, <1>8, <1>9 DEF Next, Progress

-----------------------------------------------------------------------------
\* Types.

\* The page gives its connection up, and tries again or not.
LEMMA ClosedType ==
  ASSUME TypeOK, NEW code, onclose(code), faults' \in 0 .. MaxFaults
  PROVE  TypeOK'
<1>1. /\ wsState' \in {"CLOSED", "RECONNECTING"} /\ retryCount' \in 0 .. MaxRetries
  BY LinkAssumption DEF onclose, scheduleRetry, TypeOK
<1>2. QED
  BY <1>1 DEF onclose, gone, NoRecord, TypeOK

\* What a frame does to the record and to the sessions.
LEMMA FrameReadType ==
  ASSUME LinkInv, handleFrame
  PROVE  TypeOK'
<1> USE DEF LinkInv
<1>1. /\ up # <<>>
      /\ UNCHANGED <<wsState, token, retryCount, socket, other, faults>>
  BY DEF handleFrame
<1>t. TypeOK
  OBVIOUS
<1> DEFINE RecordAndSession ==
      /\ record' \in [open : BOOLEAN, token : Tokens \cup {NoToken}]
      /\ record'.open => record.open
      /\ session' \in [Tokens -> {"free", "live", "lost"}]
<1>2. \A m : answer(m) => RecordAndSession
  BY <1>t DEF answer, TypeOK
<1>3. \A code : sendError(code) => RecordAndSession
  <2>1. NoRecord \in [open : BOOLEAN, token : Tokens \cup {NoToken}] /\ ~NoRecord.open
    BY DEF NoRecord
  <2>2. TAKE code
  <2>3. sendError(code) => record' \in {record, NoRecord} /\ session' = session
    BY DEF sendError, closeWith, answer
  <2>4. QED
    BY <1>t, <2>1, <2>3 DEF TypeOK
<1>4. CASE record.open /\ handleAuth(Head(up).token) /\ Head(up).message.type = "AUTH"
  <2>1. up \in Seq(UpFrames) /\ Head(up) = up[1] /\ up[1] \in UpFrames /\ Len(up) \in Nat \ {0}
    BY <1>1, TailFacts DEF LinkOrder, InTransit
  <2>2. Head(up).token = token /\ ~Acked
    BY <1>4, <2>1 DEF LinkOrder, AuthFirst, IsAuth
  <2>3. token = NoToken => newToken \in Tokens
    BY <2>2, NewTokenIsFree
  <2>4. token \in Tokens \cup {NoToken}
    BY DEF TypeOK
  <2>5. \A t \in Tokens : authenticate(t) =>
          /\ record' \in [open : BOOLEAN, token : Tokens \cup {NoToken}]
          /\ record'.open => record.open
    BY <1>t DEF authenticate, TypeOK
  <2>6. CASE token = NoToken
    <3>1. session' = [session EXCEPT ![newToken] = "live"] /\ authenticate(newToken)
      BY <1>4, <2>2, <2>6 DEF handleAuth
    <3>2. QED
      BY <1>t, <1>1, <2>3, <2>5, <2>6, <3>1 DEF TypeOK
  <2>7. CASE token # NoToken
    <3>1. \/ session' = session /\ authenticate(token)
          \/ answer(makeErrorEvent("AUTH_FAILED"))
      BY <1>4, <2>2, <2>7 DEF handleAuth
    <3>2. QED
      BY <1>t, <1>1, <2>4, <2>5, <2>7, <3>1 DEF TypeOK, answer
  <2>8. QED
    BY <2>6, <2>7
<1>5. CASE UNCHANGED <<record, session>>
  BY <1>t, <1>1, <1>5 DEF TypeOK
<1>6. CASE RecordAndSession
  BY <1>t, <1>1, <1>6 DEF TypeOK
<1> HIDE DEF RecordAndSession
<1>7. QED
  BY <1>2, <1>3, <1>4, <1>5, <1>6 DEF handleFrame

\* No step leaves the types; a new token needs that there is a free one.
LEMMA TypeStep ==
  ASSUME LinkInv, [Next]_vars
  PROVE  TypeOK'
<1> USE DEF LinkInv
<1>1. TypeOK /\ faults \in 0 .. MaxFaults
  BY DEF TypeOK
<1>2. CASE connect \/ retry
  BY <1>2 DEF connect, retry, openSocket, TypeOK
<1>3. CASE onopen
  BY <1>3, LinkAssumption DEF onopen, TypeOK
<1>4. CASE closed
  BY <1>1, <1>4, ClosedType DEF closed
<1>5. CASE onmessage
  <2>1. down \in Seq(DownFrames) /\ down # <<>>
    BY <1>5 DEF LinkOrder, InTransit, onmessage
  <2>2. Head(down) = down[1] /\ Len(down) \in Nat \ {0}
    BY <2>1, TailFacts
  <2>3. Head(down).message.type = "AUTH_ACK" => Head(down).token \in Tokens
    BY <2>2 DEF LinkOrder, AckIsNews, IsAck
  <2>4. \/ UNCHANGED <<token, wsState>>
        \/ token' \in Tokens /\ wsState' = "AUTHENTICATED"
    BY <1>5, <2>3 DEF onmessage
  <2>5. UNCHANGED <<retryCount, socket, record, session, faults>> /\ socket = "open"
    BY <1>5 DEF onmessage
  <2>6. QED
    BY <2>4, <2>5, LinkAssumption DEF TypeOK
<1>6. CASE handleFrame
  BY <1>6, FrameReadType
<1>7. CASE authTimeout \/ idleTimeout
  <2>1. faults' \in 0 .. MaxFaults
    BY <1>1, <1>7, FaultTaken DEF authTimeout, idleTimeout
  <2>2. UNCHANGED <<wsState, token, retryCount, socket, session>> /\ record' = NoRecord
    BY <1>7 DEF authTimeout, idleTimeout, closeWith, serverUnchanged
  <2>3. QED
    BY <2>1, <2>2 DEF TypeOK, NoRecord
<1>8. CASE connectFails \/ pongTimeout
  BY <1>1, <1>8, FaultTaken, ClosedType DEF connectFails, pongTimeout
<1>9. CASE reload
  <2>1. faults' \in 0 .. MaxFaults
    BY <1>1, <1>9, FaultTaken DEF reload
  <2>2. QED
    BY <1>9, <2>1, LinkAssumption DEF reload, gone, NoRecord, TypeOK
<1>10. CASE \E m \in Builders : send(m)
  BY <1>10 DEF send, TypeOK
<1>11. CASE notify
  BY <1>11 DEF notify, answer, serverUnchanged, TypeOK
<1>12. CASE lose \/ restart
  <2>1. faults' \in 0 .. MaxFaults
    BY <1>1, <1>12, FaultTaken DEF lose, restart, cut
  <2>2. /\ UNCHANGED <<wsState, token, retryCount, socket>> /\ record' = NoRecord
        /\ session' \in [Tokens -> {"free", "live", "lost"}]
    BY <1>1, <1>12, SessionsLost DEF lose, restart, cut
  <2>3. QED
    BY <2>1, <2>2 DEF TypeOK, NoRecord
<1>13. CASE \E t \in Tokens : expire(t)
  BY <1>13 DEF expire, TypeOK
<1>14. CASE \E frame \in Strays, standing \in {"new", "known", "expired"} :
              otherFrame(frame, standing)
  BY <1>14 DEF otherFrame, TypeOK
<1>15. CASE UNCHANGED vars
  BY <1>15 DEF vars, TypeOK
<1>16. QED
  BY <1>2, <1>3, <1>4, <1>5, <1>6, <1>7, <1>8, <1>9, <1>10, <1>11, <1>12, <1>13, <1>14, <1>15
  DEF Next, Progress

\* A page that was just opened.
LEMMA LinkStarts ==
  ASSUME Init
  PROVE  LinkInv
<1> USE DEF Init
<1>1. TypeOK
  BY LinkAssumption DEF TypeOK, NoRecord
<1>2. InTransit /\ AuthFirst /\ AckIsNews /\ CloseIsLast
  BY DEF InTransit, AuthFirst, AckIsNews, CloseIsLast
<1>3. TokenIsUsed /\ UnservedIsLost /\ RefusedIsLost /\ FinalErrorsClose /\ OtherIsUnderstood
  BY DEF TokenIsUsed, UnservedIsLost, RefusedIsLost, FinalErrorsClose, OtherIsUnderstood, NoRecord
<1>4. TokensLast
  <2>1. Used = {} /\ ~Acked
    BY DEF Used, Acked
  <2>2. Cardinality(Used) = 0
    BY <2>1, FS_EmptySet
  <2>3. QED
    BY <2>1, <2>2 DEF TokensLast
<1>5. QED
  BY <1>1, <1>2, <1>3, <1>4 DEF LinkInv, LinkOrder

-----------------------------------------------------------------------------
(***************************************************************************)
(* The theorems.                                                           *)
(***************************************************************************)

\* Whatever frames other connections send and however connections end, frames come
\* in the order LinkOrder says, and a token is there whenever one has to be made.
THEOREM LinkInvariant == LinkSpec => []LinkInv
<1>1. Init => LinkInv
  BY LinkStarts
<1>2. LinkInv /\ [Next]_vars => LinkInv'
  BY TypeStep, OrderStep DEF LinkInv
<1>3. QED
  BY <1>1, <1>2, PTL DEF LinkSpec

\* The states of the page's connection, its token and the server's record of it are
\* what wsClient.ts and connectionManager.ts declare; an authenticated page has a
\* socket and a token.
THEOREM LinkTypeCorrect == LinkSpec => []TypeOK
<1>1. LinkInv => TypeOK
  BY DEF LinkInv
<1>2. QED
  BY <1>1, LinkInvariant, PTL

\* The invariant says where every message comes from, and so what it says.
LEMMA InvariantReads ==
  ASSUME LinkInv
  PROVE  MessagesAreRead
<1> USE DEF LinkInv, LinkOrder
<1>1. OwnCommandsAreAccepted
  <2> SUFFICES ASSUME NEW i \in 1 .. Len(up)
               PROVE  isAnyCommand(up[i].message) \/ field(up[i].message, "roomId") = "text"
    BY DEF OwnCommandsAreAccepted
  <2>1. up \in Seq(UpFrames)
    BY DEF InTransit
  <2>2. up[i] \in UpFrames
    BY <2>1
  <2>3. up[i].message \in PageMessages
    BY <2>2 DEF UpFrames
  <2>4. QED
    BY <2>3, BuiltIsAccepted, AuthIsAccepted DEF PageMessages
<1>2. \A m \in Incoming : m \in ServerMessages \/ m = CloseMessage
  <2>1. down \in Seq(DownFrames)
    BY DEF InTransit
  <2>2. \A i \in 1 .. Len(down) : down[i] \in DownFrames
    BY <2>1
  <2>3. \A f \in DownFrames : f.message \in ServerMessages \cup {CloseMessage}
    BY DEF DownFrames
  <2>4. QED
    BY <2>2, <2>3 DEF Incoming
<1>3. EventsAreUnderstood
  <2> SUFFICES ASSUME NEW m \in Incoming \cup {other}, m.type \notin {"none", "CLOSE"}
               PROVE  parseEvent(m) /\ field(m, "code") # "INTERNAL_ERROR"
    BY DEF EventsAreUnderstood
  <2>1. CASE m \in Incoming
    BY <1>2, <2>1, ServerMessageFacts, CloseFacts
  <2>2. CASE m = other
    BY <2>2 DEF OtherIsUnderstood, NoEvent
  <2>3. QED
    BY <2>1, <2>2
<1>4. RefusedOnlyWithoutSession
  BY DEF RefusedOnlyWithoutSession, Incoming, RefusedIsLost, SessionIsLost
<1>5. FinalErrorsClose
  OBVIOUS
<1>6. QED
  BY <1>1, <1>3, <1>4, <1>5 DEF MessagesAreRead

\* guards.ts, commandBuilder.ts and eventFactory.ts agree: whatever a page builds is
\* accepted, whatever the server sends because of any frame at all is understood and
\* is never INTERNAL_ERROR, a page is refused only when its session is lost, and an
\* error that is final is followed by the end of the connection.
THEOREM MessagesAreAlwaysRead == LinkSpec => []MessagesAreRead
<1>1. LinkInv => MessagesAreRead
  BY InvariantReads
<1>2. QED
  BY <1>1, LinkInvariant, PTL
================================================================================
