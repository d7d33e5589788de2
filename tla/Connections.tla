----------------------------- MODULE Connections -----------------------------
(***************************************************************************)
(* The transport of the server: the sockets, the records and timers of     *)
(* ConnectionManager, the routing of frames and close events by            *)
(* MessageRouter, and the registry of commandHandler.ts that says which    *)
(* connections events for a player are sent on.  A player may have several *)
(* connections, one per browser tab.                                       *)
(*                                                                         *)
(* Abstracted: one room, of which only the presence of the players is kept *)
(* (module RoomSession has the rest); a session to its player; the rate    *)
(* limit, the size limit and malformed frames, which are answered and      *)
(* change nothing here.  Connection ids are never used twice.              *)
(***************************************************************************)
EXTENDS Naturals

CONSTANTS Conns, Players, NoPlayer

ASSUME NoPlayerAssumption == NoPlayer \notin Players

VARIABLES
  socket,      \* the WebSocket of each connection, as the server sees it
  registered,  \* the keys of ConnectionManager.connections
  playerOf,    \* ConnectionRecord.playerId, NoPlayer before AUTH
  authTimer,   \* the connections with an armed ConnectionRecord.authTimer
  registry,    \* playerConnectionRegistry
  expired,     \* the players whose session is older than SESSION_TTL_MS
  seated,      \* the players whose session points at the room
  present      \* the players whose slot there has connected = true

vars == <<socket, registered, playerOf, authTimer, registry, expired, seated, present>>

-----------------------------------------------------------------------------
\* ConnectionManager and the registry.

\* Mistaken variant of unregister: the timer is not cleared.
unregisterKeepsTimer(c) ==
  /\ registered' = registered \ {c}
  /\ playerOf' = [playerOf EXCEPT ![c] = NoPlayer]
  /\ UNCHANGED authTimer

unregister(c) ==
  /\ registered' = registered \ {c}
  /\ authTimer' = authTimer \ {c}
  /\ playerOf' = [playerOf EXCEPT ![c] = NoPlayer]

\* The server closes the connection: its record is gone at once, the close
\* event of the socket comes later.
close(c) ==
  /\ socket' = [socket EXCEPT ![c] = "closing"]
  /\ unregister(c)
  /\ UNCHANGED <<registry, expired, seated, present>>

registerPlayerConnection(p, c) == registry' = [registry EXCEPT ![p] = @ \cup {c}]

\* Mistaken variant: the player is forgotten with the first of the connections.
unregisterPlayer(p, c) == registry' = [registry EXCEPT ![p] = {}]

unregisterPlayerConnection(p, c) == registry' = [registry EXCEPT ![p] = @ \ {c}]

\* handleDisconnect: nothing to do without a session that points at the room.
handleDisconnect(p) ==
  present' = IF p \in expired \/ p \notin seated THEN present ELSE present \ {p}

\* Mistaken variant of handleClose: other connections of the player do not count.
handleCloseOfAnyTab(c) ==
  LET p == playerOf[c] IN
  /\ unregister(c)
  /\ IF c \notin registered \/ p = NoPlayer THEN UNCHANGED <<registry, present>>
     ELSE unregisterPlayerConnection(p, c) /\ handleDisconnect(p)

\* MessageRouter.handleClose.
handleClose(c) ==
  LET p == playerOf[c] IN
  /\ unregister(c)
  /\ IF c \notin registered \/ p = NoPlayer THEN UNCHANGED <<registry, present>>
     ELSE /\ unregisterPlayerConnection(p, c)
          /\ IF registry[p] \ {c} # {} THEN UNCHANGED present ELSE handleDisconnect(p)

\* A frame on c reaches the handler of a command of player p.
Serves(c, p) == c \in registered /\ playerOf[c] = p /\ p \in Players \ expired

-----------------------------------------------------------------------------
Init ==
  /\ socket = [c \in Conns |-> "new"]
  /\ registered = {}
  /\ playerOf = [c \in Conns |-> NoPlayer]
  /\ authTimer = {}
  /\ registry = [p \in Players |-> {}]
  /\ expired = {}
  /\ seated = {}
  /\ present = {}

\* Mistaken variant of register: the AUTH timeout is not armed.
registerWithoutTimer(c) ==
  /\ socket[c] = "new"
  /\ socket' = [socket EXCEPT ![c] = "open"]
  /\ registered' = registered \cup {c}
  /\ UNCHANGED <<playerOf, authTimer, registry, expired, seated, present>>

register(c) ==
  /\ socket[c] = "new"
  /\ socket' = [socket EXCEPT ![c] = "open"]
  /\ registered' = registered \cup {c}
  /\ authTimer' = authTimer \cup {c}
  /\ UNCHANGED <<playerOf, registry, expired, seated, present>>

\* Mistaken variants of handleAuth: the timer keeps running; the connection is
\* not added to the registry.
handleAuthKeepsTimer(c, p) ==
  /\ c \in registered
  /\ playerOf[c] \notin expired
  /\ p \in Players \ expired
  /\ playerOf' = [playerOf EXCEPT ![c] = p]
  /\ registerPlayerConnection(p, c)
  /\ UNCHANGED <<socket, registered, authTimer, expired, seated, present>>

handleAuthUnregistered(c, p) ==
  /\ c \in registered
  /\ playerOf[c] \notin expired
  /\ p \in Players \ expired
  /\ playerOf' = [playerOf EXCEPT ![c] = p]
  /\ authTimer' = authTimer \ {c}
  /\ UNCHANGED <<socket, registered, registry, expired, seated, present>>

\* An AUTH that is acknowledged.  Nothing stops a connection that is already
\* authenticated from becoming another player's.
handleAuth(c, p) ==
  /\ c \in registered
  /\ playerOf[c] \notin expired
  /\ p \in Players \ expired
  /\ playerOf' = [playerOf EXCEPT ![c] = p]
  /\ authTimer' = authTimer \ {c}
  /\ registerPlayerConnection(p, c)
  /\ UNCHANGED <<socket, registered, expired, seated, present>>

handleJoinRoom(c, p) ==
  /\ Serves(c, p)
  /\ p \notin seated
  /\ seated' = seated \cup {p}
  /\ present' = present \cup {p}
  /\ UNCHANGED <<socket, registered, playerOf, authTimer, registry, expired>>

handleLeaveRoom(c, p) ==
  /\ Serves(c, p)
  /\ p \in seated
  /\ seated' = seated \ {p}
  /\ present' = present \ {p}
  /\ UNCHANGED <<socket, registered, playerOf, authTimer, registry, expired>>

handleReconnect(c, p) ==
  /\ Serves(c, p)
  /\ p \in seated
  /\ present' = present \cup {p}
  /\ registerPlayerConnection(p, c)
  /\ UNCHANGED <<socket, registered, playerOf, authTimer, expired, seated>>

\* A frame is answered by an error that closes the connection:
\* PROTOCOL_VERSION_MISMATCH, or SESSION_EXPIRED.
closeOnError(c) == c \in registered /\ close(c)

authTimeout(c) == c \in authTimer /\ close(c)

idleTimeout(c) == c \in registered /\ close(c)

socketClosed(c) ==
  /\ socket[c] \in {"open", "closing"}
  /\ socket' = [socket EXCEPT ![c] = "closed"]
  /\ handleClose(c)
  /\ UNCHANGED <<expired, seated>>

\* The error event of a socket is always followed by its close event.
socketError(c) ==
  /\ socket[c] \in {"open", "closing"}
  /\ socket' = [socket EXCEPT ![c] = "closing"]
  /\ handleClose(c)
  /\ UNCHANGED <<expired, seated>>

expireSession(p) ==
  /\ expired' = expired \cup {p}
  /\ UNCHANGED <<socket, registered, playerOf, authTimer, registry, seated, present>>

\* The reconnect window of a player of the room runs out (RoomSession).
freeSlot(p) ==
  /\ p \in seated
  /\ seated' = seated \ {p}
  /\ present' = present \ {p}
  /\ UNCHANGED <<socket, registered, playerOf, authTimer, registry, expired>>

Next ==
  \/ \E c \in Conns : register(c)
  \/ \E c \in Conns, p \in Players : handleAuth(c, p)
  \/ \E c \in Conns, p \in Players : handleJoinRoom(c, p)
  \/ \E c \in Conns, p \in Players : handleLeaveRoom(c, p)
  \/ \E c \in Conns, p \in Players : handleReconnect(c, p)
  \/ \E c \in Conns : closeOnError(c)
  \/ \E c \in Conns : authTimeout(c)
  \/ \E c \in Conns : idleTimeout(c)
  \/ \E c \in Conns : socketClosed(c)
  \/ \E c \in Conns : socketError(c)
  \/ \E p \in Players : expireSession(p)
  \/ \E p \in Players : freeSlot(p)

\* Timers fire, and a socket that the server closes does get its close event
\* (ws destroys it after a while if the peer does not answer).
Fairness ==
  \A c \in Conns :
    /\ WF_vars(authTimeout(c))
    /\ WF_vars(socket[c] = "closing" /\ socketClosed(c))

Spec == Init /\ [][Next]_vars /\ Fairness

-----------------------------------------------------------------------------
\* Properties that hold.

\* Every variable has its type, and no timer outlives its connection record.
TypeOK ==
  /\ socket \in [Conns -> {"new", "open", "closing", "closed"}]
  /\ registered \subseteq Conns
  /\ playerOf \in [Conns -> Players \cup {NoPlayer}]
  /\ authTimer \subseteq registered
  /\ registry \in [Players -> SUBSET Conns]
  /\ expired \subseteq Players
  /\ seated \subseteq Players
  /\ present \subseteq Players

\* The AUTH timeout is armed on exactly the connections that still have to
\* authenticate: it never hits a player, and never an id that is gone.
TimerMatchesAuth ==
  authTimer = {c \in registered : playerOf[c] = NoPlayer}

\* Events for a player go out on every open connection of the player, whatever
\* tabs were opened, closed or taken over: each is in the player's registry.
RegistryKnowsEveryTab ==
  \A c \in registered :
    /\ socket[c] = "open"
    /\ playerOf[c] # NoPlayer => c \in registry[playerOf[c]]

\* A player is only marked present while some connection is registered for
\* them, so the last registered connection to go finds somebody to mark away.
PresentIsRegistered ==
  \A p \in present : p \in expired \/ registry[p] # {}

\* Closing one tab does not disconnect a player who has another one: presence
\* is lost with the slot or with the last registered connection.
OneTabKeepsPresence ==
  [][\A p \in present \ present' : p \notin seated' \/ registry'[p] = {}]_vars

\* A connection that does not authenticate does not stay: it is authenticated
\* or its socket ends.
SilentConnectionEnds ==
  \A c \in Conns :
    (socket[c] = "open" /\ playerOf[c] = NoPlayer)
    ~> (playerOf[c] # NoPlayer \/ socket[c] = "closed")

-----------------------------------------------------------------------------
\* What a comment of the code says and the code does not do.

\* roomStore.ts, PlayerSlot.connected: true when the player has an active
\* WebSocket connection.
PresenceIsTruthful ==
  \A p \in present \ expired :
    \E c \in Conns : socket[c] = "open" /\ playerOf[c] = p
=============================================================================
