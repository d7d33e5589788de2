--------------------------- MODULE ConnectionsProofs ---------------------------
(***************************************************************************)
(* Theorems about Connections for any connections and players.             *)
(***************************************************************************)
EXTENDS Connections, TLAPS

USE NoPlayerAssumption

-----------------------------------------------------------------------------
\* A connection without a record belongs to nobody.
GoneHasNoPlayer == \A c \in Conns \ registered : playerOf[c] = NoPlayer

\* Only who is in the room is marked present there.
PresentIsSeated == present \subseteq seated

IInv ==
  /\ TypeOK
  /\ TimerMatchesAuth
  /\ GoneHasNoPlayer
  /\ RegistryKnowsEveryTab
  /\ PresentIsSeated
  /\ PresentIsRegistered

-----------------------------------------------------------------------------
\* The actions by what they do to the transport: three ways a record goes, and
\* four ways a record or a presence comes.

\* The server closes c: its record goes, the registry is left alone.
Closes(c) == c \in registered /\ close(c)

\* An event of the socket of c arrives, and it is not open afterwards.
SocketGone(c) ==
  /\ \E s \in {"closing", "closed"} : socket' = [socket EXCEPT ![c] = s]
  /\ handleClose(c)
  /\ UNCHANGED <<expired, seated>>

\* p takes or gives up its place in the room; the connections stay as they are.
Enters(p) ==
  /\ \E c \in Conns : c \in registered /\ playerOf[c] = p
  /\ seated' = seated \cup {p} /\ present' = present \cup {p}
  /\ UNCHANGED <<socket, registered, playerOf, authTimer, registry, expired>>
Exits(p) ==
  /\ seated' = seated \ {p} /\ present' = present \ {p}
  /\ UNCHANGED <<socket, registered, playerOf, authTimer, registry, expired>>

\* Every step is one of these.
LEMMA StepCases ==
  ASSUME IInv, [Next]_vars
  PROVE  \/ \E c \in Conns : register(c) \/ Closes(c) \/ SocketGone(c)
         \/ \E c \in Conns, p \in Players : handleAuth(c, p) \/ handleReconnect(c, p)
         \/ \E p \in Players : Enters(p) \/ Exits(p) \/ expireSession(p)
         \/ UNCHANGED vars
<1>1. ASSUME NEW c \in Conns, authTimeout(c)
      PROVE  Closes(c)
  BY <1>1 DEF authTimeout, Closes, IInv, TypeOK
<1>2. ASSUME NEW c \in Conns, closeOnError(c) \/ idleTimeout(c)
      PROVE  Closes(c)
  BY <1>2 DEF closeOnError, idleTimeout, Closes
<1>3. ASSUME NEW c \in Conns, socketClosed(c) \/ socketError(c)
      PROVE  SocketGone(c)
  BY <1>3 DEF socketClosed, socketError, SocketGone
<1>4. ASSUME NEW c \in Conns, NEW p \in Players, handleJoinRoom(c, p)
      PROVE  Enters(p)
  BY <1>4 DEF handleJoinRoom, Serves, Enters
<1>5. ASSUME NEW c \in Conns, NEW p \in Players, handleLeaveRoom(c, p)
      PROVE  Exits(p)
  BY <1>5 DEF handleLeaveRoom, Exits
<1>6. ASSUME NEW p \in Players, freeSlot(p)
      PROVE  Exits(p)
  BY <1>6 DEF freeSlot, Exits
<1>7. QED
  BY <1>1, <1>2, <1>3, <1>4, <1>5, <1>6 DEF Next

LEMMA InitEstablishes == Init => IInv
BY DEF Init, IInv, TypeOK, TimerMatchesAuth, GoneHasNoPlayer, RegistryKnowsEveryTab,
       PresentIsSeated, PresentIsRegistered

\* A record that goes takes its timer and its player along.
LEMMA Unregistered ==
  ASSUME IInv, NEW c \in Conns, unregister(c)
  PROVE  /\ registered' = registered \ {c} /\ authTimer' = authTimer \ {c}
         /\ playerOf' \in [Conns -> Players \cup {NoPlayer}]
         /\ playerOf'[c] = NoPlayer
         /\ \A d \in Conns \ {c} : playerOf'[d] = playerOf[d]
         /\ TimerMatchesAuth' /\ GoneHasNoPlayer'
<1>1. /\ registered' = registered \ {c} /\ authTimer' = authTimer \ {c}
      /\ playerOf' \in [Conns -> Players \cup {NoPlayer}]
      /\ playerOf'[c] = NoPlayer
      /\ \A d \in Conns \ {c} : playerOf'[d] = playerOf[d]
  BY DEF IInv, TypeOK, unregister
<1>2. TimerMatchesAuth' /\ GoneHasNoPlayer'
  BY <1>1 DEF IInv, TypeOK, TimerMatchesAuth, GoneHasNoPlayer
<1>3. QED
  BY <1>1, <1>2

\* handleClose forgets c for its player alone, and marks the player away when
\* that was the last of the player's connections.
LEMMA HandleCloseFacts ==
  ASSUME IInv, NEW c \in Conns, handleClose(c), UNCHANGED seated
  PROVE  /\ unregister(c)
         /\ registry' \in [Players -> SUBSET Conns]
         /\ \A p \in Players : registry[p] \ {c} \subseteq registry'[p]
         /\ present' \subseteq present
         /\ \A p \in present' : p \in expired \/ registry'[p] # {}
         /\ \A p \in present \ present' : registry'[p] = {}
<1> DEFINE p == playerOf[c]
<1>1. CASE c \notin registered \/ p = NoPlayer
  BY <1>1 DEF IInv, TypeOK, PresentIsRegistered, handleClose
<1>2. CASE c \in registered /\ p # NoPlayer
  <2>1. /\ p \in Players /\ unregister(c)
        /\ registry' = [registry EXCEPT ![p] = @ \ {c}]
    BY <1>2 DEF IInv, TypeOK, handleClose, unregisterPlayerConnection
  <2>2. CASE registry[p] \ {c} # {}
    BY <1>2, <2>1, <2>2 DEF IInv, TypeOK, PresentIsRegistered, handleClose
  <2>3. CASE registry[p] \ {c} = {}
    <3>1. present' = IF p \in expired \/ p \notin seated THEN present ELSE present \ {p}
      BY <1>2, <2>3 DEF handleClose, handleDisconnect
    <3>2. QED
      BY <2>1, <2>3, <3>1 DEF IInv, TypeOK, PresentIsSeated, PresentIsRegistered
  <2>4. QED
    BY <2>2, <2>3
<1>3. QED
  BY <1>1, <1>2

-----------------------------------------------------------------------------
\* One step for each kind of action.
LEMMA StepPreserves == IInv /\ [Next]_vars => IInv'
<1> SUFFICES ASSUME IInv, [Next]_vars PROVE IInv'
  OBVIOUS
<1>1. ASSUME NEW c \in Conns, register(c)
      PROVE  IInv'
  <2>1. c \notin registered /\ playerOf[c] = NoPlayer
    BY <1>1 DEF IInv, RegistryKnowsEveryTab, GoneHasNoPlayer, register
  <2>2. TypeOK' /\ RegistryKnowsEveryTab'
    BY <1>1, <2>1 DEF IInv, TypeOK, RegistryKnowsEveryTab, register
  <2>3. TimerMatchesAuth' /\ GoneHasNoPlayer'
    BY <1>1, <2>1 DEF IInv, TypeOK, TimerMatchesAuth, GoneHasNoPlayer, register
  <2>4. PresentIsSeated' /\ PresentIsRegistered'
    BY <1>1 DEF IInv, PresentIsSeated, PresentIsRegistered, register
  <2>5. QED
    BY <2>2, <2>3, <2>4 DEF IInv
<1>2. ASSUME NEW c \in Conns, Closes(c)
      PROVE  IInv'
  <2>1. unregister(c) /\ UNCHANGED <<registry, expired, seated, present>>
        /\ socket' = [socket EXCEPT ![c] = "closing"]
    BY <1>2 DEF Closes, close
  <2>2. TypeOK' /\ RegistryKnowsEveryTab'
    BY <2>1, Unregistered DEF IInv, TypeOK, RegistryKnowsEveryTab
  <2>3. PresentIsSeated' /\ PresentIsRegistered'
    BY <2>1 DEF IInv, PresentIsSeated, PresentIsRegistered
  <2>4. QED
    BY <2>1, <2>2, <2>3, Unregistered DEF IInv
<1>3. ASSUME NEW c \in Conns, SocketGone(c)
      PROVE  IInv'
  <2>1. unregister(c) /\ UNCHANGED <<expired, seated>>
    BY <1>3, HandleCloseFacts DEF SocketGone
  <2>2. TypeOK'
    BY <1>3, <2>1, Unregistered, HandleCloseFacts DEF IInv, TypeOK, SocketGone
  <2>3. RegistryKnowsEveryTab'
    <3> SUFFICES ASSUME NEW d \in registered'
                 PROVE  /\ socket'[d] = "open"
                        /\ playerOf'[d] # NoPlayer => d \in registry'[playerOf'[d]]
      BY DEF RegistryKnowsEveryTab
    <3>1. d \in registered \ {c} /\ d \in Conns /\ playerOf'[d] = playerOf[d]
      BY <2>1, Unregistered DEF IInv, TypeOK
    <3>2. socket'[d] = "open"
      BY <1>3, <3>1 DEF SocketGone, IInv, TypeOK, RegistryKnowsEveryTab
    <3>3. ASSUME playerOf[d] # NoPlayer
          PROVE  d \in registry'[playerOf[d]]
      <4>1. playerOf[d] \in Players /\ d \in registry[playerOf[d]] \ {c}
        BY <3>1, <3>3 DEF IInv, TypeOK, RegistryKnowsEveryTab
      <4>2. QED
        BY <1>3, <4>1, HandleCloseFacts DEF SocketGone
    <3>4. QED
      BY <3>1, <3>2, <3>3
  <2>4. PresentIsSeated' /\ PresentIsRegistered'
    BY <1>3, <2>1, HandleCloseFacts DEF IInv, PresentIsSeated, PresentIsRegistered, SocketGone
  <2>5. QED
    BY <2>1, <2>2, <2>3, <2>4, Unregistered DEF IInv
<1>4. ASSUME NEW c \in Conns, NEW p \in Players, handleAuth(c, p)
      PROVE  IInv'
  <2>1. /\ p # NoPlayer /\ c \in registered
        /\ playerOf' = [playerOf EXCEPT ![c] = p] /\ authTimer' = authTimer \ {c}
        /\ registry' = [registry EXCEPT ![p] = @ \cup {c}]
        /\ UNCHANGED <<socket, registered, expired, seated, present>>
    BY <1>4 DEF handleAuth, registerPlayerConnection
  <2>2. TypeOK' /\ RegistryKnowsEveryTab'
    BY <2>1 DEF IInv, TypeOK, RegistryKnowsEveryTab
  <2>3. TimerMatchesAuth' /\ GoneHasNoPlayer'
    BY <2>1 DEF IInv, TypeOK, TimerMatchesAuth, GoneHasNoPlayer
  <2>4. PresentIsSeated' /\ PresentIsRegistered'
    BY <2>1 DEF IInv, TypeOK, PresentIsSeated, PresentIsRegistered
  <2>5. QED
    BY <2>2, <2>3, <2>4 DEF IInv
<1>5. ASSUME NEW c \in Conns, NEW p \in Players, handleReconnect(c, p)
      PROVE  IInv'
  <2>1. /\ p \in seated /\ present' = present \cup {p}
        /\ registry' = [registry EXCEPT ![p] = @ \cup {c}]
        /\ UNCHANGED <<socket, registered, playerOf, authTimer, expired, seated>>
    BY <1>5 DEF handleReconnect, registerPlayerConnection
  <2>2. TypeOK' /\ RegistryKnowsEveryTab'
    BY <2>1 DEF IInv, TypeOK, RegistryKnowsEveryTab
  <2>3. TimerMatchesAuth' /\ GoneHasNoPlayer'
    BY <2>1 DEF IInv, TimerMatchesAuth, GoneHasNoPlayer
  <2>4. PresentIsSeated' /\ PresentIsRegistered'
    BY <2>1 DEF IInv, TypeOK, PresentIsSeated, PresentIsRegistered
  <2>5. QED
    BY <2>2, <2>3, <2>4 DEF IInv
<1>6. ASSUME NEW p \in Players, Enters(p)
      PROVE  IInv'
  <2>1. registry[p] # {}
    BY <1>6 DEF IInv, RegistryKnowsEveryTab, Enters
  <2>2. QED
    BY <1>6, <2>1 DEF Enters, IInv, TypeOK, TimerMatchesAuth, GoneHasNoPlayer,
                      RegistryKnowsEveryTab, PresentIsSeated, PresentIsRegistered
<1>7. ASSUME NEW p \in Players, Exits(p) \/ expireSession(p)
      PROVE  IInv'
  BY <1>7 DEF Exits, expireSession, IInv, TypeOK, TimerMatchesAuth, GoneHasNoPlayer,
              RegistryKnowsEveryTab, PresentIsSeated, PresentIsRegistered
<1>8. CASE UNCHANGED vars
  BY <1>8 DEF vars, IInv, TypeOK, TimerMatchesAuth, GoneHasNoPlayer,
              RegistryKnowsEveryTab, PresentIsSeated, PresentIsRegistered
<1>9. QED
  BY <1>1, <1>2, <1>3, <1>4, <1>5, <1>6, <1>7, <1>8, StepCases

-----------------------------------------------------------------------------
\* The inductive invariant holds throughout.
THEOREM Invariant == Spec => []IInv
<1>1. QED
  BY InitEstablishes, StepPreserves, PTL DEF Spec

\* Every variable keeps its type, and no timer outlives its connection record
\* (ConnectionManager.unregister).
THEOREM TypeCorrect == Spec => []TypeOK
<1>1. IInv => TypeOK
  BY DEF IInv
<1>2. QED
  BY Invariant, <1>1, PTL

\* The AUTH timeout is armed on exactly the connections that have not yet
\* authenticated (ConnectionManager.register, setPlayer and unregister).
THEOREM TimersMatch == Spec => []TimerMatchesAuth
<1>1. IInv => TimerMatchesAuth
  BY DEF IInv
<1>2. QED
  BY Invariant, <1>1, PTL

\* No tab of a player is missing from the registry, however many tabs are
\* opened, closed or taken over by another player (playerConnectionRegistry).
THEOREM EveryTabIsKnown == Spec => []RegistryKnowsEveryTab
<1>1. IInv => RegistryKnowsEveryTab
  BY DEF IInv
<1>2. QED
  BY Invariant, <1>1, PTL

\* Whoever is marked present has a connection in the registry, or a session that
\* has expired (MessageRouter.handleClose).
THEOREM PresenceIsRegistered == Spec => []PresentIsRegistered
<1>1. IInv => PresentIsRegistered
  BY DEF IInv
<1>2. QED
  BY Invariant, <1>1, PTL

\* A player stays present until the slot or the last registered tab is gone.
THEOREM OneTabIsEnough == Spec => OneTabKeepsPresence
<1>1. IInv /\ [Next]_vars =>
        [\A p \in present \ present' : p \notin seated' \/ registry'[p] = {}]_vars
  <2> SUFFICES ASSUME IInv, [Next]_vars, NEW p \in present \ present'
               PROVE  p \notin seated' \/ registry'[p] = {}
    OBVIOUS
  <2>1. ASSUME NEW c \in Conns, SocketGone(c)
        PROVE  registry'[p] = {}
    BY <2>1, HandleCloseFacts DEF SocketGone
  <2>2. ASSUME NEW q \in Players, Exits(q)
        PROVE  p \notin seated'
    BY <2>2 DEF Exits
  <2>3. ASSUME NEW c \in Conns, register(c) \/ Closes(c)
        PROVE  FALSE
    BY <2>3 DEF register, Closes, close
  <2>4. ASSUME NEW c \in Conns, NEW q \in Players, handleAuth(c, q) \/ handleReconnect(c, q)
        PROVE  FALSE
    BY <2>4 DEF handleAuth, handleReconnect
  <2>5. ASSUME NEW q \in Players, Enters(q) \/ expireSession(q)
        PROVE  FALSE
    BY <2>5 DEF Enters, expireSession
  <2>6. CASE UNCHANGED vars
    BY <2>6 DEF vars
  <2>7. QED
    BY <2>1, <2>2, <2>3, <2>4, <2>5, <2>6, StepCases
<1>2. QED
  BY Invariant, <1>1, PTL DEF Spec, OneTabKeepsPresence
================================================================================
