-------------------------------- MODULE Pages ---------------------------------
(***************************************************************************)
(* The browser page of every player, composed with the rooms of module     *)
(* RoomSession: what the page shows and which controls it offers           *)
(* (gameStore.ts, App.tsx, Lobby.tsx), what it sends when it is            *)
(* authenticated (useWebSocket.ts), and how its connection is lost, given  *)
(* up, made again or replaced by a reload (wsClient.ts).  Every step of    *)
(* the server here is a step of RoomSession, which keeps its variables.    *)
(*                                                                         *)
(* Abstracted: an event reaches a page that is connected at once, and the  *)
(* page's own commands are handled at once, except RECONNECT and           *)
(* SYNC_REQUEST, which clicks do not overtake; module EventStream has what *)
(* is in transit.  A connection is dead in both directions when the first  *)
(* of its ends gives it up.  Of the game a page shows, the id, status and  *)
(* turn are kept; the rematch controls and the opponent's presence are in  *)
(* module Client.  A player has one page; sessions and rooms do not        *)
(* expire.  The pages of the players in Watched are modelled; the others   *)
(* send whatever the server accepts.                                       *)
(***************************************************************************)
EXTENDS RoomSession

CONSTANT Watched

ASSUME WatchedAssumption == Watched \subseteq Players

VARIABLES
  page,    \* the ClientState and WsClient of the pages of Watched
  armedIn  \* the game in which the window of each of them was last armed; it
           \* belongs to the specification

pageVars == <<linked, sessionRoom, seat, connected, ready, game, completed,
              rematch, window, purged, page, armedIn>>

\* gameId, gameStatus and confirmedTurn of a game.
view(g) == [id |-> g.id, status |-> g.status, turn |-> g.turn]

\* A page that was just loaded: INITIAL_STATE.  In sent are the commands on
\* their way; astray belongs to the specification: the page was authenticated
\* without knowing the room its player has a slot in.
INITIAL_STATE ==
  [wsState |-> "OFFLINE", roomId |-> NoRoom, mySymbol |-> NoSymbol,
   phase |-> "LOBBY", view |-> view(NoGame), both |-> FALSE,
   pendingMove |-> FALSE, sent |-> {}, astray |-> FALSE]

PageInit ==
  /\ Init
  /\ page = [p \in Watched |-> INITIAL_STATE]
  /\ armedIn = [p \in Watched |-> 0]

-----------------------------------------------------------------------------
\* The reducer of gameStore.ts: what an event makes of a page c.

derivePhase(c) ==
  IF c.roomId = NoRoom THEN "LOBBY"
  ELSE IF c.view.status # "WAITING" THEN c.view.status
  ELSE IF c.both THEN "READY_CHECK" ELSE "WAITING_FOR_PLAYER"

\* WS_STATE_CHANGED.
wsStateChanged(c, state) ==
  [c EXCEPT !.wsState = state,
            !.phase = IF state = "OFFLINE" THEN "RECONNECTING"
                      ELSE IF @ = "RECONNECTING" THEN derivePhase(c) ELSE @]

roomJoined(c, r, s, both, g) ==
  [c EXCEPT !.roomId = r, !.mySymbol = s, !.both = both, !.view = view(g),
            !.pendingMove = FALSE,
            !.phase = IF both THEN "READY_CHECK" ELSE "WAITING_FOR_PLAYER"]

\* Mistaken variant of snapshot: a room without a game has no phase of its own.
snapshotTakesStatus(c, s, both, g) ==
  [c EXCEPT !.mySymbol = s, !.both = both, !.view = view(g), !.pendingMove = FALSE,
            !.phase = g.status]

\* RECONNECT_ACK, and STATE_SYNC with a snapshot.
snapshot(c, s, both, g) ==
  [c EXCEPT !.mySymbol = s, !.both = both, !.view = view(g), !.pendingMove = FALSE,
            !.phase = IF g.status # "WAITING" THEN g.status
                      ELSE IF both THEN "READY_CHECK" ELSE "WAITING_FOR_PLAYER"]

playerJoined(c) == [c EXCEPT !.both = TRUE, !.phase = "READY_CHECK"]
playerLeft(c) == [c EXCEPT !.both = FALSE, !.phase = "WAITING_FOR_PLAYER"]

gameStarted(c, g) ==
  [c EXCEPT !.view = view(g), !.both = TRUE, !.pendingMove = FALSE, !.phase = "ACTIVE"]

\* Mistaken variant of gameFinished: the status of the game stays ACTIVE.
gameFinishedInPhase(c) == [c EXCEPT !.pendingMove = FALSE, !.phase = "FINISHED"]

gameFinished(c) ==
  [c EXCEPT !.view.status = "FINISHED", !.pendingMove = FALSE, !.phase = "FINISHED"]

leftRoom(c) == [INITIAL_STATE EXCEPT !.wsState = c.wsState]

\* A page that is closed for good is under an overlay; of what it showed nothing
\* is kept.
closedPage == [INITIAL_STATE EXCEPT !.wsState = "CLOSED"]

\* A STATE_SYNC does not say which symbol the player has; without one, X.
ownSymbol(c) == IF c.mySymbol = NoSymbol THEN "X" ELSE c.mySymbol

\* canMove, but for the notice that the opponent is away.
canMove(c) ==
  /\ c.view.status = "ACTIVE"
  /\ c.view.turn = c.mySymbol
  /\ ~c.pendingMove
  /\ c.wsState = "AUTHENTICATED"

-----------------------------------------------------------------------------
\* Delivery.

\* Both ends hold the connection of p.
Online(p) == p \in linked /\ page[p].wsState = "AUTHENTICATED"

\* Who gets what is sent to the whole room: the slots marked connected.
Listed(r, q) == Online(q) /\ getSymbolForPlayer(r, q) \in connected[r]

\* The pages become new; a page in a room that sees a gap in the numbering of
\* its events asks for what it did not get.
deliver(r, new) ==
  \E gaps \in SUBSET {q \in Watched : Online(q) /\ page[q].roomId = r} :
    page' = [q \in Watched |->
      IF q \in gaps THEN [new[q] EXCEPT !.sent = @ \cup {"SYNC_REQUEST"}] ELSE new[q]]

\* The next game, if the step started one, shows on the pages listed before.
deliverStart(r) ==
  deliver(r, [q \in Watched |->
    IF Listed(r, q) /\ game'[r].id # game[r].id THEN gameStarted(page[q], game'[r])
    ELSE page[q]])

\* MOVE_ACK to the player, MOVE_BROADCAST and GAME_FINISHED to those listed.
deliverMove(p, r) ==
  deliver(r, [q \in Watched |->
    LET moved == [page[q] EXCEPT !.view.turn = game'[r].turn] IN
    IF Listed(r, q) /\ Finished(r)' THEN gameFinished(moved)
    ELSE IF Listed(r, q) \/ (q = p /\ Online(p))
    THEN [moved EXCEPT !.pendingMove = @ /\ q # p]
    ELSE page[q]])

\* The page of q when the other player leaves r.
opponentLeft(r, q) ==
  IF ~Online(q) \/ ~Seated(q, r) THEN page[q]
  ELSE playerLeft(IF Listed(r, q) /\ Active(r) THEN gameFinished(page[q]) ELSE page[q])

\* p clicks in a room, with no RECONNECT on its way.
Clicks(p, r) ==
  /\ Online(p)
  /\ page[p].roomId = r
  /\ "RECONNECT" \notin page[p].sent

-----------------------------------------------------------------------------
\* The player's clicks.

\* LobbyForm, or the auto-join of a page opened with ?room=.
joinRoom(p, r) ==
  /\ Online(p)
  /\ page[p].phase = "LOBBY"
  /\ handleJoinRoom(p, r)
  /\ deliver(r, [q \in Watched |->
       IF q = p
       THEN roomJoined(page[p], r, getSymbolForPlayer(r, p)', BothSeated(r)', game[r])
       ELSE IF Online(q) /\ Seated(q, r) THEN playerJoined(page[q])
       ELSE page[q]])

\* JOIN_ROOM of a player who has a slot: a snapshot, and nothing changes.
rejoinRoom(p, r) ==
  /\ Online(p)
  /\ page[p].phase = "LOBBY"
  /\ sessionRoom[p] \in {NoRoom, r}
  /\ Seated(p, r)
  /\ deliver(r, [page EXCEPT ![p] =
       roomJoined(@, r, getSymbolForPlayer(r, p), BothSeated(r), game[r])])
  /\ UNCHANGED vars

\* The page leaves at once, whatever becomes of its LEAVE_ROOM: one that is
\* answered may be overtaken by a snapshot asked for before.
leaveRoom(p, r) ==
  /\ page[p].wsState = "AUTHENTICATED"
  /\ page[p].roomId = r
  /\ "RECONNECT" \notin page[p].sent
  /\ page[p].phase \in {"WAITING_FOR_PLAYER", "READY_CHECK", "FINISHED"}
  /\ IF Online(p) /\ Seated(p, r)
     THEN /\ handleLeaveRoom(p, r)
          /\ \E mine \in {leftRoom(page[p])}
                 \cup (IF "SYNC_REQUEST" \in page[p].sent
                       THEN {snapshot(leftRoom(page[p]), ownSymbol(leftRoom(page[p])),
                                      BothSeated(r), game[r])}
                       ELSE {}) :
             deliver(r, [q \in Watched |->
               IF q = p THEN IF Listed(r, p) /\ Active(r) THEN gameFinished(mine) ELSE mine
               ELSE opponentLeft(r, q)])
     ELSE /\ page' = [page EXCEPT ![p] = leftRoom(@)]
          /\ UNCHANGED vars

playerReady(p, r) ==
  /\ Clicks(p, r)
  /\ page[p].phase = "READY_CHECK"
  /\ handlePlayerReady(p, r)
  /\ deliverStart(r)

\* MAKE_MOVE is acknowledged or rejected.
makeMove(p, r) ==
  /\ Clicks(p, r)
  /\ canMove(page[p])
  /\ page[p].view.id = game[r].id
  /\ \/ /\ handleMakeMove(p, r)
        /\ deliverMove(p, r)
     \/ /\ Active(r)
        /\ view(game[r]) # page[p].view
        /\ deliver(r, [page EXCEPT ![p].view.turn = game[r].turn])
        /\ UNCHANGED vars

\* MAKE_MOVE is lost, or answered with an ERROR, which the page ignores: the
\* rate limit, a failure inside the server, a game that is over.
makeMoveInVain(p, r) ==
  /\ page[p].roomId = r
  /\ "RECONNECT" \notin page[p].sent
  /\ canMove(page[p])
  /\ page' = [page EXCEPT ![p].pendingMove = TRUE]
  /\ UNCHANGED vars

\* Bound: no rematch of the last game is asked for.
requestRematch(p, r) == game[r].id < MaxGames /\ handleRequestRematch(p, r)

\* The rematch controls; a command names the game the page shows.
rematchControl(p, r) ==
  /\ Clicks(p, r)
  /\ page[p].phase = "FINISHED"
  /\ page[p].view.id = game[r].id
  /\ \/ requestRematch(p, r) \/ handleAcceptRematch(p, r) \/ handleDeclineRematch(p, r)
  /\ deliverStart(r)

-----------------------------------------------------------------------------
\* The server answers what a page sends by itself.

serveReconnect(p, r) ==
  /\ Online(p)
  /\ page[p].roomId = r
  /\ "RECONNECT" \in page[p].sent
  /\ LET c == [page[p] EXCEPT !.sent = @ \ {"RECONNECT"}] IN
     IF Seated(p, r)
     THEN /\ handleReconnect(p, r)
          /\ deliver(r, [page EXCEPT ![p] =
               [snapshot(c, getSymbolForPlayer(r, p), BothSeated(r), game[r])
                  EXCEPT !.astray = FALSE]])
     ELSE /\ page' = [page EXCEPT ![p] = c]
          /\ UNCHANGED vars

\* STATE_SYNC: a snapshot, or a replay of events the page has seen.
serveSync(p, r) ==
  /\ Clicks(p, r)
  /\ "SYNC_REQUEST" \in page[p].sent
  /\ LET c == [page[p] EXCEPT !.sent = {}] IN
     page' = [page EXCEPT ![p] =
       IF Seated(p, r) THEN snapshot(c, ownSymbol(c), BothSeated(r), game[r]) ELSE c]
  /\ UNCHANGED vars

-----------------------------------------------------------------------------
\* Timers of the rooms.

\* PLAYER_LEFT goes to everyone listed, the player included.
windowExpires(p, r) ==
  /\ expireReconnectWindow(p, r)
  /\ deliver(r, [q \in Watched |->
       IF ~Listed(r, q) THEN page[q]
       ELSE playerLeft(IF Active(r) THEN gameFinished(page[q]) ELSE page[q])])
  /\ UNCHANGED armedIn

rematchExpires(r) == expireRematch(r) /\ deliver(r, page) /\ UNCHANGED armedIn

-----------------------------------------------------------------------------
\* Connections.

\* Mistaken variant of authenticate: RECONNECT is left out when AUTH_ACK has
\* named the room.
authenticateInRoom(p) ==
  LET c == wsStateChanged(page[p], "AUTHENTICATED") IN
  /\ page[p].wsState = "OFFLINE"
  /\ IF p \in linked THEN UNCHANGED vars ELSE handleAuth(p)
  /\ page' = [page EXCEPT ![p] =
       IF sessionRoom'[p] = NoRoom
       THEN [c EXCEPT !.sent = IF c.roomId = NoRoom THEN {} ELSE {"RECONNECT"}]
       ELSE [c EXCEPT !.roomId = sessionRoom'[p],
                      !.mySymbol = getSymbolForPlayer(sessionRoom'[p], p)]]

\* AUTH_ACK names the room of the session, after onStateChange has looked for
\* the one that the page knows.
authenticate(p) ==
  LET c == wsStateChanged(page[p], "AUTHENTICATED") IN
  /\ page[p].wsState = "OFFLINE"
  /\ IF p \in linked THEN UNCHANGED vars ELSE handleAuth(p)
  /\ page' = [page EXCEPT ![p] =
       IF sessionRoom'[p] = NoRoom
       THEN [c EXCEPT !.sent = IF c.roomId = NoRoom THEN {} ELSE {"RECONNECT"}]
       ELSE [c EXCEPT !.roomId = sessionRoom'[p],
                      !.mySymbol = getSymbolForPlayer(sessionRoom'[p], p),
                      !.sent = IF c.roomId = NoRoom THEN {} ELSE {"RECONNECT"},
                      !.astray = (c.roomId = NoRoom)]]

\* The server hears that the connection of p is closed, or closes it itself.
serverLoses(p) ==
  LET r == sessionRoom[p] IN
  \/ /\ handleDisconnect(p)
     /\ IF r = NoRoom THEN UNCHANGED <<page, armedIn>>
        ELSE /\ deliver(r, page)
             /\ armedIn' = IF p \in Watched /\ Active(r)
                           THEN [armedIn EXCEPT ![p] = game[r].id] ELSE armedIn
  \/ closeUnnoticed(p) /\ UNCHANGED <<page, armedIn>>

\* The page hears it: with one of the codes it takes for final, or not.
pageLoses(p) ==
  /\ page[p].wsState = "AUTHENTICATED"
  /\ \/ page' = [page EXCEPT ![p] = wsStateChanged([@ EXCEPT !.sent = {}], "OFFLINE")]
     \/ page' = [page EXCEPT ![p] = closedPage]
  /\ UNCHANGED vars

\* maxRetries attempts have failed.
giveUp(p) ==
  /\ page[p].wsState = "OFFLINE"
  /\ page' = [page EXCEPT ![p] = closedPage]
  /\ UNCHANGED vars

\* The page is loaded again; the token is kept in the tab's sessionStorage.
reload(p) ==
  /\ page' = [page EXCEPT ![p] = INITIAL_STATE]
  /\ UNCHANGED vars

-----------------------------------------------------------------------------
\* What a player does whose page is not modelled.
others(p, r) ==
  \/ /\ handleJoinRoom(p, r)
     /\ deliver(r, [q \in Watched |->
          IF Online(q) /\ Seated(q, r) THEN playerJoined(page[q]) ELSE page[q]])
  \/ /\ handleLeaveRoom(p, r)
     /\ deliver(r, [q \in Watched |-> opponentLeft(r, q)])
  \/ (handlePlayerReady(p, r) \/ handleAcceptRematch(p, r)) /\ deliverStart(r)
  \/ /\ requestRematch(p, r) \/ handleDeclineRematch(p, r) \/ handleReconnect(p, r)
     /\ deliver(r, page)
  \/ handleMakeMove(p, r) /\ deliverMove(p, r)

PageNext ==
  \/ /\ \/ \E p \in Watched, r \in Rooms :
             \/ joinRoom(p, r) \/ rejoinRoom(p, r) \/ leaveRoom(p, r)
             \/ playerReady(p, r) \/ makeMove(p, r) \/ makeMoveInVain(p, r)
             \/ rematchControl(p, r)
             \/ serveReconnect(p, r) \/ serveSync(p, r)
        \/ \E p \in Watched : authenticate(p) \/ pageLoses(p) \/ giveUp(p) \/ reload(p)
        \/ \E p \in Players \ Watched, r \in Rooms : others(p, r)
        \/ \E p \in Players \ Watched : handleAuth(p) /\ UNCHANGED page
     /\ UNCHANGED armedIn
  \/ \E p \in Players : serverLoses(p)
  \/ \E p \in Players, r \in Rooms : windowExpires(p, r)
  \/ \E r \in Rooms : rematchExpires(r)

\* The timers fire; no player acts, and no browser comes back.
PageFairness ==
  /\ \A r \in Rooms : WF_pageVars(rematchExpires(r))
  /\ \A p \in Players, r \in Rooms : WF_pageVars(windowExpires(p, r))

PageSpec == PageInit /\ [][PageNext]_pageVars /\ PageFairness

-----------------------------------------------------------------------------
\* Properties that hold.

Views ==
  [id : 0..MaxGames, status : {"WAITING", "ACTIVE", "FINISHED"},
   turn : Symbols \cup {NoSymbol}]

ClientStates ==
  [wsState : {"OFFLINE", "AUTHENTICATED", "CLOSED"}, roomId : Rooms \cup {NoRoom},
   mySymbol : Symbols \cup {NoSymbol},
   phase : {"LOBBY", "WAITING_FOR_PLAYER", "READY_CHECK", "ACTIVE", "FINISHED",
            "RECONNECTING"},
   view : Views, both : BOOLEAN, pendingMove : BOOLEAN,
   sent : SUBSET {"RECONNECT", "SYNC_REQUEST"}, astray : BOOLEAN]

\* Every page has its type.
PageTypeOK ==
  /\ armedIn \in [Watched -> 0..MaxGames]
  /\ page \in [Watched -> ClientStates]

\* The page of p is connected, in the room of its slot, and has no command on
\* its way.
Settled(p, r) ==
  /\ Online(p)
  /\ page[p].roomId = r /\ Seated(p, r)
  /\ ~page[p].astray /\ page[p].sent = {}

\* A settled page shows the room's game, whatever was lost, left, replaced or
\* snapshotted: its id, its status, whose turn it is and which side is its own;
\* it is on the board exactly while the game runs, and hears what is sent to the
\* room.
SettledPageIsRight ==
  \A p \in Watched, r \in Rooms : Settled(p, r) =>
    LET c == page[p] IN
    /\ c.view = view(game[r])
    /\ c.mySymbol = getSymbolForPlayer(r, p)
    /\ c.phase = "ACTIVE" <=> Active(r)
    /\ Listed(r, p)

\* Who is back in time keeps the game: no window that was armed during a running
\* game abandons it once the player's page is settled again.  One that was armed
\* during an earlier game may.
BackInTimeKeepsGame ==
  [][\A p \in Watched, r \in Rooms :
       Active(r) /\ Settled(p, r) /\ ~Seated(p, r)' /\ game'[r].outcome = "ABANDONED" =>
         armedIn[p] < game[r].id]_pageVars

-----------------------------------------------------------------------------
\* What documents say and the code does not do.

\* PROTOCOL.md 12.2: the game resumes.  When the player whose turn it is is back
\* in a running game, has nothing on its way and is listed together with the
\* opponent, a cell can be clicked, unless a move is still unanswered.
GameResumes ==
  \A p \in Watched, r \in Rooms :
    /\ Active(r) /\ game[r].player[game[r].turn] = p
    /\ Online(p) /\ page[p].sent = {}
    /\ \A s \in Symbols : game[r].player[s] \in linked
    => canMove(page[p]) \/ page[p].pendingMove
===============================================================================
