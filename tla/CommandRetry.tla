----------------------------- MODULE CommandRetry -----------------------------
(***************************************************************************)
(* Retried, duplicated and delayed commands: the dedup cache of            *)
(* SessionStore and the handlers that consult it, for the commands that    *)
(* drive a game.  A command is issued once under its commandId and may     *)
(* then reach its handler any number of times, in any order with the       *)
(* others: a retry after a lost answer, on another connection, or long     *)
(* after its entry of the cache has expired.                               *)
(*                                                                         *)
(* Both players stay seated (joining and leaving is in RoomSession) and    *)
(* the board is abstracted to the cells that are taken; an accepted move   *)
(* may end the game and one that takes the last cell does.  Recording a    *)
(* finished game can fail, which throws through handleMakeMove.            *)
(***************************************************************************)
EXTENDS Naturals

CONSTANTS
  PlayerX, PlayerO,    \* the seated players
  Cells,               \* positions of the board
  ReadyIds, MoveIds, RematchIds, \* the commandIds drawn for each sort of command
  NoCommand,           \* a commandId that is not in use
  MaxGames,            \* bound: games started
  MaxFaults            \* bound: failures to save a finished game

ASSUME PlayersAssumption == PlayerX # PlayerO
ASSUME BoundsAssumption == {MaxGames, MaxFaults} \subseteq Nat

VARIABLES
  issued,      \* the command each commandId was drawn for
  cache,       \* SessionStore.dedupCache: the cached answer, if any
  ready,       \* RoomRecord.readySymbols
  game,        \* GameSession.gameState
  rematch,     \* acceptedBy of GameSession.rematch, {} when null
  faults,      \* failed saves so far
  answers,     \* what the last delivery was answered, while its entry lives:
               \* "other" is an ERROR, an event to the whole room, or nothing
  effects,     \* deliveries that changed the room, while its entry lives
  placed       \* moves a command has made on any board, ever

vars == <<issued, cache, ready, game, rematch, faults, answers, effects, placed>>

Players == {PlayerX, PlayerO}
Other(p) == IF p = PlayerX THEN PlayerO ELSE PlayerX

NoGame == [id |-> 0, status |-> "WAITING", first |-> PlayerO, turn |-> PlayerX,
           taken |-> {}]
None == "none"

Commands ==
  [kind : {"PLAYER_READY"}, player : Players] \cup
  [kind : {"MAKE_MOVE"}, player : Players, gameId : 1..MaxGames, cell : Cells] \cup
  [kind : {"REQUEST_REMATCH", "ACCEPT_REMATCH", "DECLINE_REMATCH"},
   player : Players, gameId : 1..MaxGames]

ASSUME NoCommandAssumption == NoCommand \notin Commands

Ids == ReadyIds \cup MoveIds \cup RematchIds
IdsFor(kind) == CASE kind = "PLAYER_READY" -> ReadyIds
                  [] kind = "MAKE_MOVE" -> MoveIds
                  [] OTHER -> RematchIds

Init ==
  /\ issued = [i \in Ids |-> NoCommand]
  /\ cache = [i \in Ids |-> None]
  /\ ready = {}
  /\ game = NoGame
  /\ rematch = {}
  /\ faults = 0
  /\ answers = [i \in Ids |-> None]
  /\ effects = [i \in Ids |-> 0]
  /\ placed = [i \in Ids |-> 0]

\* A client makes a command with a fresh commandId; it names the current game.
issue(i, cmd) ==
  /\ i \in IdsFor(cmd.kind)
  /\ issued[i] = NoCommand
  /\ cmd.kind # "PLAYER_READY" => cmd.gameId = game.id
  /\ issued' = [issued EXCEPT ![i] = cmd]
  /\ UNCHANGED <<cache, ready, game, rematch, faults, answers, effects, placed>>

-----------------------------------------------------------------------------
\* The dedup cache.  Each handler looks its command up before anything else.

getCachedResult(i) == cache[i]

recordCommand(i, result) == cache' = [cache EXCEPT ![i] = result]

\* An entry is COMMAND_DEDUP_TTL_MS old: dropped on access or by purgeExpired.
expire(i) ==
  /\ cache[i] # None
  /\ cache' = [cache EXCEPT ![i] = None]
  /\ answers' = [answers EXCEPT ![i] = None]
  /\ effects' = [effects EXCEPT ![i] = 0]
  /\ UNCHANGED <<issued, ready, game, rematch, faults, placed>>

answer(i, a) == answers' = [answers EXCEPT ![i] = a]
tookEffect(i) == effects' = [effects EXCEPT ![i] = @ + 1]
roomUnchanged == UNCHANGED <<ready, game, rematch, faults, effects, placed>>

Is(i, kind) == issued[i] # NoCommand /\ issued[i].kind = kind

\* A duplicate of a command that is in the cache; repeat says whether the
\* handler sends the cached event again or nothing at all.
duplicate(i, repeat) ==
  /\ getCachedResult(i) # None
  /\ answer(i, IF repeat THEN getCachedResult(i) ELSE "other")
  /\ UNCHANGED <<issued, cache>>
  /\ roomUnchanged

\* Answered with an ERROR event, or not at all; neither is cached.
refused(i) == answer(i, "other") /\ UNCHANGED <<issued, cache>> /\ roomUnchanged

-----------------------------------------------------------------------------
\* Handlers, for a commandId that is not in the cache.

NewGame(first) ==
  [id |-> game.id + 1, status |-> "ACTIVE", first |-> first, turn |-> first,
   taken |-> {}]

\* Mistaken variant of becomeReady: the marks outlive the start of the game.
becomeReadyForGood(p) ==
  /\ p \notin ready
  /\ ready' = ready \cup {p}
  /\ \/ ready' # Players /\ UNCHANGED game
     \/ ready' = Players /\ game.id < MaxGames /\ game' = NewGame(Other(game.first))

\* The second player to become ready starts the next game, whatever the state
\* of the one before.
becomeReady(p) ==
  /\ p \notin ready
  /\ \/ ready \cup {p} # Players /\ ready' = ready \cup {p} /\ UNCHANGED game
     \/ /\ ready \cup {p} = Players
        /\ game.id < MaxGames
        /\ ready' = {}
        /\ game' = NewGame(Other(game.first))

\* Mistaken variant of handlePlayerReady: the answer is not recorded.
readyUnrecorded(i) ==
  LET p == issued[i].player IN
  /\ answer(i, "ack") /\ UNCHANGED <<issued, cache>>
  /\ \/ p \in ready /\ roomUnchanged
     \/ becomeReady(p) /\ tookEffect(i) /\ UNCHANGED <<rematch, faults, placed>>

\* A player who is ready already is acknowledged again.
handlePlayerReady(i) ==
  LET p == issued[i].player IN
  /\ answer(i, "ack") /\ recordCommand(i, "ack") /\ UNCHANGED issued
  /\ \/ p \in ready /\ roomUnchanged
     \/ becomeReady(p) /\ tookEffect(i) /\ UNCHANGED <<rematch, faults, placed>>

\* Mistaken variant of NamesCurrentGame: any game will do.
NamesAnyGame(i) == game.id > 0

NamesCurrentGame(i) == issued[i].gameId = game.id

rejectMove(i) ==
  /\ game.turn # issued[i].player \/ issued[i].cell \in game.taken
  /\ answer(i, "rejected") /\ recordCommand(i, "rejected")
  /\ UNCHANGED issued /\ roomUnchanged

\* The move is made and acknowledged.  If it ends the game and the game cannot
\* be saved, the exception skips recordCommand: the acknowledgement is out, but
\* not in the cache.
acceptMove(i) ==
  LET taken == game.taken \cup {issued[i].cell} IN
  /\ game.turn = issued[i].player /\ issued[i].cell \notin game.taken
  /\ \E ends \in IF taken = Cells THEN {TRUE} ELSE BOOLEAN :
       \E saved \in IF ends /\ faults < MaxFaults THEN BOOLEAN ELSE {TRUE} :
         /\ game' = [game EXCEPT !.taken = taken, !.turn = Other(@),
                       !.status = IF ends THEN "FINISHED" ELSE "ACTIVE"]
         /\ IF saved THEN recordCommand(i, "ack") /\ UNCHANGED faults
            ELSE faults' = faults + 1 /\ UNCHANGED cache
  /\ answer(i, "ack")
  /\ tookEffect(i)
  /\ placed' = [placed EXCEPT ![i] = @ + 1]
  /\ UNCHANGED <<issued, ready, rematch>>

handleMove(i) ==
  \/ ~(NamesCurrentGame(i) /\ game.status = "ACTIVE") /\ refused(i)
  \/ /\ NamesCurrentGame(i) /\ game.status = "ACTIVE"
     /\ rejectMove(i) \/ acceptMove(i)

\* What handleRematchRequest and handleRematchAccept demand of the game.
OverAndNamed(i) == game.status = "FINISHED" /\ NamesCurrentGame(i)

handleRequestRematch(i) ==
  \/ (rematch # {} \/ ~OverAndNamed(i)) /\ refused(i)
  \/ /\ rematch = {} /\ OverAndNamed(i)
     /\ rematch' = {issued[i].player}
     /\ answer(i, "other") /\ recordCommand(i, "processed")
     /\ tookEffect(i)
     /\ UNCHANGED <<issued, ready, game, faults, placed>>

handleAcceptRematch(i) ==
  LET accepted == rematch \cup {issued[i].player} IN
  \/ (rematch = {} \/ ~OverAndNamed(i)) /\ refused(i)
  \/ /\ rematch # {} /\ OverAndNamed(i)
     /\ \/ /\ accepted # Players
           /\ rematch' = accepted
           /\ UNCHANGED <<ready, game>>
        \/ /\ accepted = Players
           /\ game.id < MaxGames
           /\ rematch' = {}
           /\ ready' = {}
           /\ game' = NewGame(Other(game.first))
     /\ answer(i, "other") /\ recordCommand(i, "processed")
     /\ effects' = [effects EXCEPT ![i] = IF rematch' = rematch THEN @ ELSE @ + 1]
     /\ UNCHANGED <<issued, faults, placed>>

\* Neither the game the command names nor its status matters to a decline.
handleDeclineRematch(i) ==
  \/ rematch = {} /\ refused(i)
  \/ /\ rematch # {}
     /\ rematch' = {}
     /\ answer(i, "other") /\ recordCommand(i, "processed")
     /\ tookEffect(i)
     /\ UNCHANGED <<issued, ready, game, faults, placed>>

\* The timer of the proposal.
expireRematch ==
  /\ rematch # {}
  /\ rematch' = {}
  /\ UNCHANGED <<issued, cache, ready, game, faults, answers, effects, placed>>

-----------------------------------------------------------------------------
\* A delivery to MessageRouter.handleFrame.

\* Mistaken variant of MakeMove: the cache is not consulted.
MakeMoveAnew(i) == Is(i, "MAKE_MOVE") /\ handleMove(i)

PlayerReady(i) ==
  /\ Is(i, "PLAYER_READY")
  /\ duplicate(i, TRUE) \/ (getCachedResult(i) = None /\ handlePlayerReady(i))

MakeMove(i) ==
  /\ Is(i, "MAKE_MOVE")
  /\ duplicate(i, TRUE) \/ (getCachedResult(i) = None /\ handleMove(i))

RequestRematch(i) ==
  /\ Is(i, "REQUEST_REMATCH")
  /\ duplicate(i, FALSE) \/ (getCachedResult(i) = None /\ handleRequestRematch(i))

AcceptRematch(i) ==
  /\ Is(i, "ACCEPT_REMATCH")
  /\ duplicate(i, FALSE) \/ (getCachedResult(i) = None /\ handleAcceptRematch(i))

DeclineRematch(i) ==
  /\ Is(i, "DECLINE_REMATCH")
  /\ duplicate(i, FALSE) \/ (getCachedResult(i) = None /\ handleDeclineRematch(i))

Next ==
  \/ \E i \in Ids, cmd \in Commands : issue(i, cmd)
  \/ \E i \in Ids : PlayerReady(i)
  \/ \E i \in Ids : MakeMove(i)
  \/ \E i \in Ids : RequestRematch(i)
  \/ \E i \in Ids : AcceptRematch(i)
  \/ \E i \in Ids : DeclineRematch(i)
  \/ \E i \in Ids : expire(i)
  \/ expireRematch

Spec == Init /\ [][Next]_vars

-----------------------------------------------------------------------------
\* Properties.

TypeOK ==
  /\ issued \in [Ids -> Commands \cup {NoCommand}]
  /\ cache \in [Ids -> {None, "ack", "rejected", "processed"}]
  /\ ready \subseteq Players /\ ready # Players
  /\ game \in [id : 0..MaxGames, status : {"WAITING", "ACTIVE", "FINISHED"},
               first : Players, turn : Players, taken : SUBSET Cells]
  /\ rematch \subseteq Players /\ rematch # Players
  /\ faults \in 0..MaxFaults
  /\ answers \in [Ids -> {None, "ack", "rejected", "other"}]
  /\ effects \in [Ids -> Nat]
  /\ placed \in [Ids -> Nat]

\* No command is applied twice within the deduplication window, however often
\* and however late it is delivered (PROTOCOL 7, SessionStore.dedupCache).
AppliedOncePerWindow == \A i \in Ids : effects[i] <= 1

\* A move is made once, ever: a duplicate that arrives after its entry expired,
\* in the same game or in the next one, finds its cell taken, the game over or
\* another gameId (GameSession.handleMove).
MoveMadeOnce == \A i \in Ids : placed[i] <= 1

\* The answer a command was given stands while its entry lives: an acknowledged
\* move or readiness is never refused to a retry, a refused move never accepted
\* (PROTOCOL 7: "The server MUST return the same response").  That is so until a
\* save fails: then the exception leaves an acknowledged move out of the cache,
\* and its retry is answered GAME_NOT_ACTIVE.
AnswerStands ==
  [][\A i \in Ids : faults = 0 /\ answers[i] \in {"ack", "rejected"}
       => answers'[i] \in {answers[i], None}]_vars
===============================================================================
