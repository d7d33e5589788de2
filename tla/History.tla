------------------------------- MODULE History --------------------------------
(***************************************************************************)
(* The durable history of completed games: JsonHistoryRepository, the part *)
(* of GameSession that records a finished game before it announces it, and *)
(* what a start of the server makes of the file.                           *)
(*                                                                         *)
(* saveCompletedGame is synchronous, so no other handler runs between its  *)
(* steps; but the process can die between them and each file operation can *)
(* fail, so they are steps here.  A failure is thrown through              *)
(* emitGameFinished to the caller: MessageRouter.handleFrame catches it    *)
(* for a command, nothing catches it for the reconnect window's timer, and *)
(* an uncaught exception ends the process.                                 *)
(*                                                                         *)
(* Abstracted: a game record to its id, the arrays of games (newest first, *)
(* without duplicates) to sets, the JSON text to its contents or Torn when *)
(* a write stopped in the middle.  The file system is external: writing a  *)
(* file is not atomic, renaming one is.                                    *)
(***************************************************************************)
EXTENDS Naturals

CONSTANTS
  Rooms,               \* room ids
  MaxGames,            \* bound: games started; their ids are 1..MaxGames
  MaxFaults            \* bound: deaths of the process and failing operations

ASSUME MaxGamesAssumption == MaxGames \in Nat
ASSUME MaxFaultsAssumption == MaxFaults \in Nat

VARIABLES
  up,          \* the server process runs
  history,     \* JsonHistoryRepository.history: the games of each room
  rooms,       \* rooms of RoomStore that have their GameSession
  completed,   \* GameSession.completedGames of those rooms
  playing,     \* rooms whose game is ACTIVE, with the id of that game
  file,        \* the file at filePath
  tmp,         \* the file at temporaryPath
  saving,      \* where saveCompletedGame stands
  announced,   \* ids of the games whose GAME_FINISHED was sent
  started,     \* number of games started so far
  faults       \* faults so far

vars == <<up, history, rooms, completed, playing, file, tmp, saving, announced,
          started, faults>>

Games == 1..MaxGames
NoGame == 0
Empty == [r \in Rooms |-> {}]
Contents == [Rooms -> SUBSET Games]

\* What a path holds: nothing, half of a text, or a complete one.
Missing == [kind |-> "missing", games |-> Empty]
Torn == [kind |-> "torn", games |-> Empty]
Complete(c) == [kind |-> "complete", games |-> c]
Files == {Missing, Torn} \cup {Complete(c) : c \in Contents}

Callers == {"command", "timer"}
Idle == [step |-> "idle", game |-> NoGame, caller |-> "command"]

Init ==
  /\ up = TRUE
  /\ history = Empty
  /\ rooms = {}
  /\ completed = Empty
  /\ playing = [r \in Rooms |-> NoGame]
  /\ file = Missing
  /\ tmp = Missing
  /\ saving = Idle
  /\ announced = {}
  /\ started = 0
  /\ faults = 0

-----------------------------------------------------------------------------
\* The game itself.

Running == up /\ saving = Idle

\* createRoom and the first JOIN_ROOM, which creates the room's GameSession with
\* a copy of what is stored for that id.  Ids are random: after a restart an
\* earlier one may come back, and nothing but chance prevents it.
openRoom(r) ==
  /\ Running
  /\ r \notin rooms
  /\ rooms' = rooms \cup {r}
  /\ completed' = [completed EXCEPT ![r] = history[r]]
  /\ UNCHANGED <<up, history, playing, file, tmp, saving, announced, started, faults>>

\* Also replaces a game that is still ACTIVE, which then ends unrecorded
\* (handlePlayerReady, in RoomSession, does not look at the game's status).
startGame(r) ==
  /\ Running
  /\ r \in rooms
  /\ started < MaxGames
  /\ started' = started + 1
  /\ playing' = [playing EXCEPT ![r] = started + 1]
  /\ UNCHANGED <<up, history, rooms, completed, file, tmp, saving, announced, faults>>

\* Mistaken variant of emitGameFinished: the record is kept by the session
\* alone until the flush is done.
forgetUntilFlushed(r, caller) ==
  /\ Running
  /\ playing[r] # NoGame
  /\ completed' = [completed EXCEPT ![r] = @ \cup {playing[r]}]
  /\ saving' = [step |-> "write", game |-> playing[r], caller |-> caller]
  /\ playing' = [playing EXCEPT ![r] = NoGame]
  /\ UNCHANGED <<up, history, rooms, file, tmp, announced, started, faults>>

\* Mistaken variant of emitGameFinished: it does not ask for a game.
emitWithoutGame(r, caller) ==
  /\ Running
  /\ completed' = [completed EXCEPT ![r] = @ \cup {playing[r]}]
  /\ history' = [history EXCEPT ![r] = @ \cup {playing[r]}]
  /\ saving' = [step |-> "write", game |-> playing[r], caller |-> caller]
  /\ playing' = [playing EXCEPT ![r] = NoGame]
  /\ UNCHANGED <<up, rooms, file, tmp, announced, started, faults>>

\* The game of r is over: emitGameFinished records it in the session, then
\* saveCompletedGame in the repository's map, and the flush begins.
emitGameFinished(r, caller) ==
  /\ Running
  /\ playing[r] # NoGame
  /\ completed' = [completed EXCEPT ![r] = @ \cup {playing[r]}]
  /\ history' = [history EXCEPT ![r] = @ \cup {playing[r]}]
  /\ saving' = [step |-> "write", game |-> playing[r], caller |-> caller]
  /\ playing' = [playing EXCEPT ![r] = NoGame]
  /\ UNCHANGED <<up, rooms, file, tmp, announced, started, faults>>

-----------------------------------------------------------------------------
\* flushToDisk: the temporary file is written, then renamed over the file.

\* Mistaken variant of writeTemporary: the file itself is written.
writeInPlace ==
  /\ saving.step = "write"
  /\ file' = Torn
  /\ tmp' = Complete(history)
  /\ saving' = [saving EXCEPT !.step = "rename"]
  /\ UNCHANGED <<up, history, rooms, completed, playing, announced, started, faults>>

writeTemporary ==
  /\ saving.step = "write"
  /\ tmp' = Complete(history)
  /\ saving' = [saving EXCEPT !.step = "rename"]
  /\ UNCHANGED <<up, history, rooms, completed, playing, file, announced, started, faults>>

renameTemporary ==
  /\ saving.step = "rename"
  /\ file' = tmp
  /\ tmp' = Missing
  /\ saving' = [saving EXCEPT !.step = "emit"]
  /\ UNCHANGED <<up, history, rooms, completed, playing, announced, started, faults>>

\* Back in emitGameFinished: GAME_FINISHED is broadcast.
emit ==
  /\ saving.step = "emit"
  /\ announced' = announced \cup {saving.game}
  /\ saving' = Idle
  /\ UNCHANGED <<up, history, rooms, completed, playing, file, tmp, started, faults>>

\* What a write that stops leaves at temporaryPath.
Interrupted == IF saving.step = "write" THEN {tmp, Torn} ELSE {tmp}

\* The process ends: whatever it held in memory is gone.
loseMemory ==
  /\ up' = FALSE
  /\ history' = Empty
  /\ rooms' = {}
  /\ completed' = Empty
  /\ playing' = [r \in Rooms |-> NoGame]
  /\ saving' = Idle

\* A file operation of the flush throws.
flushFails ==
  /\ saving.step \in {"write", "rename"}
  /\ faults < MaxFaults
  /\ faults' = faults + 1
  /\ tmp' \in Interrupted
  /\ \/ /\ saving.caller = "command"
        /\ saving' = Idle
        /\ UNCHANGED <<up, history, rooms, completed, playing>>
     \/ /\ saving.caller = "timer"
        /\ loseMemory
  /\ UNCHANGED <<file, announced, started>>

die ==
  /\ up
  /\ faults < MaxFaults
  /\ faults' = faults + 1
  /\ tmp' \in Interrupted
  /\ loseMemory
  /\ UNCHANGED <<file, announced, started>>

-----------------------------------------------------------------------------
\* A start of the server: a file that is not there is an empty history, one
\* that cannot be parsed stops the start.

\* Mistaken variant of loadFromDisk: every error counts as "no file yet".
loadOrStartEmpty ==
  /\ ~up
  /\ up' = TRUE
  /\ history' \in {file.games, Empty}
  /\ UNCHANGED <<rooms, completed, playing, file, tmp, saving, announced, started, faults>>

loadFromDisk ==
  /\ ~up
  /\ file.kind # "torn"
  /\ up' = TRUE
  /\ history' = file.games
  /\ UNCHANGED <<rooms, completed, playing, file, tmp, saving, announced, started, faults>>

\* Reading fails for another reason than ENOENT: the start is given up.
loadFails ==
  /\ ~up
  /\ faults < MaxFaults
  /\ faults' = faults + 1
  /\ UNCHANGED <<up, history, rooms, completed, playing, file, tmp, saving, announced, started>>

-----------------------------------------------------------------------------
Next ==
  \/ \E r \in Rooms : openRoom(r)
  \/ \E r \in Rooms : startGame(r)
  \/ \E r \in Rooms, caller \in Callers : emitGameFinished(r, caller)
  \/ writeTemporary
  \/ renameTemporary
  \/ emit
  \/ flushFails
  \/ die
  \/ loadFromDisk
  \/ loadFails

Spec == Init /\ [][Next]_vars

-----------------------------------------------------------------------------
\* Properties.

TypeOK ==
  /\ up \in BOOLEAN
  /\ history \in Contents
  /\ rooms \in SUBSET Rooms
  /\ completed \in Contents
  /\ playing \in [Rooms -> Games \cup {NoGame}]
  /\ file \in Files
  /\ tmp \in Files
  /\ saving \in [step : {"idle", "write", "rename", "emit"}, game : Games \cup {NoGame},
                 caller : Callers]
  /\ announced \subseteq Games
  /\ started \in 0..MaxGames
  /\ faults \in 0..MaxFaults

Recorded == UNION {file.games[r] : r \in Rooms}

\* A result that was announced to the players is in the file, whatever dies
\* or fails afterwards (emitGameFinished saves before it
\* emits, flushToDisk writes beside the file and renames).
AnnouncedIsDurable == announced \subseteq Recorded

\* The file never forgets a game, over any number of deaths, failed flushes
\* and starts: each version holds what the one before it held.
FileOnlyGrows == [][\A r \in Rooms : file.games[r] \subseteq file'.games[r]]_vars

\* A flush repairs the failed ones before it: when the file is replaced, the
\* new one holds every game this process has recorded in any room.
FlushIsComplete ==
  [][file' # file => \A r \in rooms : completed[r] \subseteq file'.games[r]]_vars
===============================================================================
