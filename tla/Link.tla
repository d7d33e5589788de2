--------------------------------- MODULE Link ---------------------------------
(***************************************************************************)
(* The link of one page with the server: WsClient opens a socket, sends    *)
(* AUTH with the token it has stored, and makes the connection again when  *)
(* it is lost; MessageRouter reads the frames of that connection and of    *)
(* any other, and answers with the messages of module Wire.                *)
(*                                                                         *)
(* Abstracted: a handler sends one of its events or none, which the page   *)
(* does nothing with but AUTH_ACK (modules Client and Pages have the rest);*)
(* sequence numbers; the record of a connection ends when either of its    *)
(* ends gives the connection up (module Connections has them apart); one   *)
(* tab.  Faults are losses of the connection, failed attempts, late AUTHs  *)
(* and PONGs, reloads and restarts of the server.                          *)
(***************************************************************************)
EXTENDS Wire, Naturals, Sequences, FiniteSets

CONSTANTS Tokens, NoToken, MaxRetries, MaxFaults, MaxInFlight, Strays

ASSUME LinkAssumption ==
  NoToken \notin Tokens /\ MaxRetries \in Nat /\ MaxFaults \in Nat /\ MaxInFlight \in Nat

\* A UUID is always new: a token is used up by a fault at most.
ASSUME TokensAssumption == IsFiniteSet(Tokens) /\ Cardinality(Tokens) > MaxFaults

VARIABLES
  wsState,     \* WsClient.state
  token,       \* WsClient.sessionToken, kept in sessionStorage
  retryCount,  \* WsClient.retryCount
  socket,      \* WsClient.ws: "none", "connecting" or "open"
  record,      \* the ConnectionRecord: is there one, and its sessionToken
  session,     \* SessionStore.sessions: "free" until created, then "live" or "lost"
  up, down,    \* the frames on their way
  other,       \* an event sent for the last frame of another connection
  faults

vars == <<wsState, token, retryCount, socket, record, session, up, down, other, faults>>

NoRecord == [open |-> FALSE, token |-> NoToken]
NoEvent == [type |-> "none"]

\* What is on its way down: events, AUTH_ACK with its token, and closes.
event(m) == [message |-> m, token |-> NoToken, code |-> 0]
authAck(t) == [message |-> makeAuthAck("null"), token |-> t, code |-> 0]
close(code) == [message |-> [type |-> "CLOSE"], token |-> NoToken, code |-> code]

Init ==
  /\ wsState = "IDLE"
  /\ token = NoToken
  /\ retryCount = 0
  /\ socket = "none"
  /\ record = NoRecord
  /\ session = [t \in Tokens |-> "free"]
  /\ up = <<>>
  /\ down = <<>>
  /\ other = NoEvent
  /\ faults = 0

fault == faults < MaxFaults /\ faults' = faults + 1

-----------------------------------------------------------------------------
\* WsClient.

openSocket ==
  /\ socket = "none"
  /\ socket' = "connecting"
  /\ wsState' = IF retryCount = 0 THEN "CONNECTING" ELSE "RECONNECTING"
  /\ UNCHANGED <<token, retryCount, record, session, up, down, faults>>

connect == wsState = "IDLE" /\ openSocket /\ other' = NoEvent
retry == wsState = "RECONNECTING" /\ openSocket /\ UNCHANGED other

\* Mistaken variant: AUTH is sent once, on the first connection of the page.
onopenAgain ==
  /\ socket = "connecting"
  /\ socket' = "open"
  /\ retryCount' = 0
  /\ wsState' = "CONNECTED"
  /\ record' = [open |-> TRUE, token |-> NoToken]
  /\ up' = IF retryCount > 0 THEN <<>>
           ELSE <<[message |-> buildAuth(IF token = NoToken THEN "null" ELSE "uuid"), token |-> token]>>
  /\ down' = <<>>
  /\ UNCHANGED <<token, session, other, faults>>

onopen ==
  /\ socket = "connecting"
  /\ socket' = "open"
  /\ retryCount' = 0
  /\ wsState' = "CONNECTED"
  /\ record' = [open |-> TRUE, token |-> NoToken]
  /\ up' = <<[message |-> buildAuth(IF token = NoToken THEN "null" ELSE "uuid"), token |-> token]>>
  /\ down' = <<>>
  /\ UNCHANGED <<token, session, other, faults>>

\* Mistaken variant: attempts are not limited.
scheduleRetryForever == wsState' = "RECONNECTING" /\ retryCount' = retryCount + 1

scheduleRetry ==
  IF retryCount >= MaxRetries THEN wsState' = "CLOSED" /\ UNCHANGED retryCount
  ELSE wsState' = "RECONNECTING" /\ retryCount' = retryCount + 1

\* The page's end of the connection is gone, with what was on its way.
gone ==
  /\ socket' = "none"
  /\ record' = NoRecord
  /\ up' = <<>>
  /\ down' = <<>>
  /\ UNCHANGED <<token, session, other>>

onclose(code) ==
  /\ gone
  /\ IF code \in {4001, 4006, 1008} THEN wsState' = "CLOSED" /\ UNCHANGED retryCount
     ELSE scheduleRetry

connectFails == socket = "connecting" /\ fault /\ onclose(1006)

closed ==
  /\ socket = "open"
  /\ down # <<>> /\ Head(down).code # 0
  /\ onclose(Head(down).code)
  /\ UNCHANGED faults

\* A PONG that is late: the code is the page's own if the server answers the
\* close.
pongTimeout == wsState = "AUTHENTICATED" /\ fault /\ \E code \in {4006, 1006} : onclose(code)

\* handleFrame: what is no event is ignored.
onmessage ==
  /\ socket = "open"
  /\ down # <<>> /\ Head(down).code = 0
  /\ down' = Tail(down)
  /\ LET m == Head(down).message IN
     IF parseEvent(m) /\ m.type = "AUTH_ACK"
     THEN token' = Head(down).token /\ wsState' = "AUTHENTICATED"
     ELSE UNCHANGED <<token, wsState>>
  /\ UNCHANGED <<retryCount, socket, record, session, up, other, faults>>

\* A control of the page, its heartbeat, or what it sends by itself.
send(m) ==
  /\ socket = "open"
  /\ token # NoToken
  /\ m.type \in {"PING", "RECONNECT", "JOIN_ROOM"} => wsState = "AUTHENTICATED"
  /\ Len(up) + Len(down) < MaxInFlight
  /\ up' = Append(up, [message |-> m, token |-> token])
  /\ UNCHANGED <<wsState, token, retryCount, socket, record, session, down, other, faults>>

\* A reload keeps sessionStorage and nothing else.
reload ==
  /\ wsState # "IDLE"
  /\ fault
  /\ gone
  /\ wsState' = "IDLE"
  /\ retryCount' = 0

-----------------------------------------------------------------------------
\* The server.

\* ConnectionManager.close, with the final event.
closeWith(events, code) ==
  /\ record' = NoRecord
  /\ down' = down \o events \o <<close(code)>>

answer(m) == down' = Append(down, event(m)) /\ UNCHANGED <<record, session>>

\* Mistaken variant: the error is all that is sent.
sendErrorOnly(code) == answer(makeErrorEvent(code))

sendError(code) ==
  IF ERROR_META[code].closesConnection
  THEN closeWith(<<event(makeErrorEvent(code))>>, 4001) /\ UNCHANGED session
  ELSE answer(makeErrorEvent(code))

authenticate(t) ==
  /\ record' = [record EXCEPT !.token = t]
  /\ down' = Append(down, authAck(t))

\* A new token is one no session has had; which one makes no difference.
newToken == CHOOSE t \in Tokens : session[t] = "free"

handleAuth(guestToken) ==
  IF guestToken = NoToken
  THEN /\ session' = [session EXCEPT ![newToken] = "live"]
       /\ authenticate(newToken)
  ELSE IF session[guestToken] = "live" THEN authenticate(guestToken) /\ UNCHANGED session
  ELSE answer(makeErrorEvent("AUTH_FAILED"))

Standing ==
  IF record.token = NoToken THEN "new"
  ELSE IF session[record.token] = "live" THEN "known" ELSE "expired"

\* A frame on a connection that has no record any more is dropped.  AUTH is the
\* first frame of a connection and in its budget.
handleFrame ==
  /\ up # <<>>
  /\ up' = Tail(up)
  /\ LET m == Head(up).message
         refused == Refused([shape |-> "object", message |-> m], Standing)
     IN IF ~record.open THEN UNCHANGED <<record, session, down>>
        ELSE \/ m.type # "AUTH" /\ sendError("RATE_LIMITED")
             \/ refused # "OK" /\ sendError(refused)
             \/ /\ refused = "OK"
                /\ IF m.type = "AUTH" THEN handleAuth(Head(up).token)
                   ELSE \/ \E e \in Handled(m) : answer(e)
                        \/ UNCHANGED <<record, session, down>>
  /\ UNCHANGED <<wsState, token, retryCount, socket, other, faults>>

\* A frame on another connection, built by another page or by a client that
\* gets one field wrong: which event it is answered with, or causes.  It touches
\* nothing of this page, so that it is enough to take it before the page connects.
otherFrame(frame, standing) ==
  /\ wsState = "IDLE" /\ faults = 0 /\ other = NoEvent
  /\ LET refused == Refused(frame, standing)
     IN \E e \in IF refused = "OK" THEN Handled(frame.message) ELSE {makeErrorEvent(refused)} :
          other' = e
  /\ UNCHANGED <<wsState, token, retryCount, socket, record, session, up, down, faults>>

serverUnchanged == UNCHANGED <<wsState, token, retryCount, socket, up, other>>

\* A timer of the room, or the end of the opponent's connection.
notify ==
  /\ Standing = "known" /\ record.open
  /\ Len(up) + Len(down) < MaxInFlight
  /\ \E e \in Notices : answer(e)
  /\ serverUnchanged /\ UNCHANGED faults

\* AUTH has not come in time, or has been refused.
authTimeout ==
  /\ record.open /\ record.token = NoToken
  /\ IF up # <<>> /\ Head(up).message.type = "AUTH" THEN fault ELSE UNCHANGED faults
  /\ closeWith(<<event(makeErrorEvent("AUTH_TIMEOUT"))>>, 4008)
  /\ serverUnchanged /\ UNCHANGED session

\* No frame for CONNECTION_IDLE_TIMEOUT_MS, and the network gone, for which the
\* server stands when it restarts.
idleTimeout ==
  /\ record.open /\ fault
  /\ closeWith(<<>>, 4006)
  /\ serverUnchanged /\ UNCHANGED session

cut(sessions) ==
  /\ fault
  /\ record' = NoRecord
  /\ down' = IF socket = "open" THEN <<close(1006)>> ELSE <<>>
  /\ up' = <<>>
  /\ session' = sessions
  /\ UNCHANGED <<wsState, token, retryCount, socket, other>>

lose == record.open /\ cut(session)
restart == cut([t \in Tokens |-> IF session[t] = "live" THEN "lost" ELSE session[t]])

\* A session is SESSION_TTL_MS old.
expire(t) ==
  /\ session[t] = "live"
  /\ session' = [session EXCEPT ![t] = "lost"]
  /\ UNCHANGED <<wsState, token, retryCount, socket, record, up, down, other, faults>>

-----------------------------------------------------------------------------
Progress == connect \/ retry \/ onopen \/ closed \/ onmessage \/ handleFrame \/ authTimeout

Next ==
  \/ Progress
  \/ connectFails \/ pongTimeout \/ reload
  \/ \E m \in Builders : send(m)
  \/ notify \/ idleTimeout \/ lose \/ restart
  \/ \E t \in Tokens : expire(t)
  \/ \E frame \in Strays, standing \in {"new", "known", "expired"} : otherFrame(frame, standing)

\* A page tries again when its timer fires, sockets open or fail, and both ends
\* read what reaches them.  Nothing else need happen.
LinkSpec ==
  /\ Init /\ [][Next]_vars
  /\ WF_vars(connect) /\ WF_vars(retry) /\ WF_vars(onopen) /\ WF_vars(closed)
  /\ WF_vars(onmessage) /\ WF_vars(handleFrame) /\ WF_vars(authTimeout)

-----------------------------------------------------------------------------
TypeOK ==
  /\ wsState \in {"IDLE", "CONNECTING", "CONNECTED", "AUTHENTICATED", "RECONNECTING", "CLOSED"}
  /\ token \in Tokens \cup {NoToken}
  /\ retryCount \in 0 .. MaxRetries
  /\ socket \in {"none", "connecting", "open"}
  /\ record \in [open : BOOLEAN, token : Tokens \cup {NoToken}]
  /\ session \in [Tokens -> {"free", "live", "lost"}]
  /\ faults \in 0 .. MaxFaults
  /\ wsState = "AUTHENTICATED" => socket = "open" /\ token # NoToken
  /\ record.open => socket = "open"

Incoming == {down[i].message : i \in 1 .. Len(down)}

\* What a page builds is accepted, whatever it knows, except a JOIN_ROOM with a
\* code taken unchecked from the address of the page.
OwnCommandsAreAccepted ==
  \A i \in 1 .. Len(up) :
    LET m == up[i].message IN isAnyCommand(m) \/ field(m, "roomId") = "text"

\* What the server sends, to this page or because of any frame it has accepted
\* from another, is understood by the page it reaches, and never INTERNAL_ERROR:
\* no handler throws on what the guards let pass (a save that fails is in module
\* CommandRetry).
EventsAreUnderstood ==
  \A m \in Incoming \cup {other} :
    m.type \notin {"none", "CLOSE"} =>
      parseEvent(m) /\ field(m, "code") # "INTERNAL_ERROR"

\* A page is told that it is not authenticated only when its session is gone.
RefusedOnlyWithoutSession ==
  \A m \in Incoming :
    field(m, "code") \in {"AUTH_FAILED", "NOT_AUTHENTICATED"} => session[token] = "lost"

\* An error that is not recoverable is followed by the end of the connection.
FinalErrorsClose ==
  \A i \in 1 .. Len(down) :
    field(down[i].message, "recoverable") = "false" =>
      \E j \in i + 1 .. Len(down) : down[j].code # 0

\* guards.ts, commandBuilder.ts and eventFactory.ts agree on the messages in
\* both directions, through reconnections, restarts and frames with a wrong field,
\* and every refusal has the reason and the consequence it states.
MessagesAreRead ==
  OwnCommandsAreAccepted /\ EventsAreUnderstood /\ RefusedOnlyWithoutSession /\ FinalErrorsClose

\* However connections are lost, a page ends authenticated or gives up; the
\* exception is a page whose session the server has lost: it never sends AUTH
\* with guestToken null, and is refused for as long as it tries.
PageGetsIn ==
  <>[](\/ wsState \in {"AUTHENTICATED", "CLOSED"}
       \/ token # NoToken /\ session[token] = "lost")
===============================================================================
