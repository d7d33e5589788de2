----------------------------- MODULE HistoryProofs -----------------------------
(***************************************************************************)
(* Theorems about History for any rooms and any number of games, crashes   *)
(* and failed file operations.                                             *)
(***************************************************************************)
EXTENDS History, TLAPS

USE MaxGamesAssumption, MaxFaultsAssumption

-----------------------------------------------------------------------------
\* Whoever reads the file finds it whole: it is only ever replaced by renaming.
FileIsWhole == file.kind # "torn"

\* A running server knows every game of the file, and of its rooms' sessions.
MemoryHoldsFile ==
  up => \A r \in Rooms : /\ file.games[r] \subseteq history[r]
                         /\ r \in rooms => completed[r] \subseteq history[r]

\* Only a running server saves, and the game it saves is in its memory.
SavedIsInMemory ==
  saving.step # "idle" => up /\ \E r \in Rooms : saving.game \in history[r]

\* A server that is down has no rooms.
DownIsEmpty == ~up => rooms = {}

\* Between the two steps of a flush the temporary file is all of memory, and
\* after them the file is.
StepsOfFlush ==
  /\ saving.step = "rename" => tmp = Complete(history)
  /\ saving.step = "emit" => file = Complete(history)

IInv ==
  /\ TypeOK
  /\ FileIsWhole
  /\ MemoryHoldsFile
  /\ SavedIsInMemory
  /\ DownIsEmpty
  /\ StepsOfFlush
  /\ AnnouncedIsDurable

-----------------------------------------------------------------------------
\* Types, one lemma for what is not obvious.

LEMMA FilesTyped ==
  /\ Empty \in Contents
  /\ \A c \in Contents : Complete(c) \in Files /\ Complete(c).games = c
                         /\ Complete(c).kind # "torn"
  /\ Missing \in Files /\ Torn \in Files
  /\ \A f \in Files : f.games \in Contents
<1>1. Empty \in Contents
  BY DEF Empty, Contents
<1>2. \A c \in Contents : Complete(c) \in Files
  BY DEF Files
<1>3. \A c \in Contents : Complete(c).games = c /\ Complete(c).kind # "torn"
  BY DEF Complete
<1>4. Missing \in Files /\ Torn \in Files
  BY DEF Files
<1>5. \A f \in Files : f.games \in Contents
  <2> SUFFICES ASSUME NEW f \in Files PROVE f.games \in Contents
    OBVIOUS
  <2>1. CASE f = Missing \/ f = Torn
    BY <1>1, <2>1 DEF Missing, Torn
  <2>2. CASE \E c \in Contents : f = Complete(c)
    BY <1>3, <2>2
  <2>3. QED
    BY <2>1, <2>2 DEF Files
<1>6. QED
  BY <1>1, <1>2, <1>3, <1>4, <1>5

LEMMA IdleTyped ==
  /\ Idle.step = "idle"
  /\ Idle \in [step : {"idle", "write", "rename", "emit"}, game : Games \cup {NoGame},
               caller : Callers]
BY DEF Idle, Callers

\* What a dead process leaves has the right types.
LEMMA LoseMemoryType ==
  ASSUME loseMemory
  PROVE  /\ up' = FALSE /\ history' \in Contents /\ rooms' \in SUBSET Rooms
         /\ completed' \in Contents /\ playing' \in [Rooms -> Games \cup {NoGame}]
         /\ saving' = Idle
BY FilesTyped DEF loseMemory

\* A write that stops leaves what was there, or half a text.
LEMMA InterruptedType ==
  ASSUME TypeOK, NEW f \in Interrupted
  PROVE  f \in Files
BY FilesTyped DEF TypeOK, Interrupted

LEMMA InitEstablishes == Init => IInv
<1> SUFFICES ASSUME Init PROVE IInv
  OBVIOUS
<1>1. TypeOK
  BY FilesTyped, IdleTyped DEF Init, TypeOK
<1>2. FileIsWhole /\ MemoryHoldsFile
  BY DEF Init, FileIsWhole, MemoryHoldsFile, Missing, Empty
<1>3. SavedIsInMemory /\ StepsOfFlush /\ AnnouncedIsDurable
  BY DEF Init, SavedIsInMemory, StepsOfFlush, AnnouncedIsDurable, Idle
<1>4. DownIsEmpty
  BY DEF Init, DownIsEmpty
<1>5. QED
  BY <1>1, <1>2, <1>3, <1>4 DEF IInv

\* emitGameFinished adds the game to the session and to memory.
LEMMA EmitFacts ==
  ASSUME TypeOK, NEW r \in Rooms, NEW c \in Callers, emitGameFinished(r, c)
  PROVE  /\ up /\ playing[r] \in Games
         /\ completed' = [completed EXCEPT ![r] = @ \cup {playing[r]}]
         /\ history' = [history EXCEPT ![r] = @ \cup {playing[r]}]
         /\ history' \in Contents /\ completed' \in Contents
         /\ saving' = [step |-> "write", game |-> playing[r], caller |-> c]
         /\ UNCHANGED <<up, rooms, file, tmp, announced>>
         /\ \A q \in Rooms : history[q] \subseteq history'[q]
         /\ playing[r] \in history'[r]
BY DEF TypeOK, emitGameFinished, Running, Contents

\* A step keeps the types.
LEMMA TypeStep == IInv /\ [Next]_vars => TypeOK'
<1> SUFFICES ASSUME IInv, [Next]_vars PROVE TypeOK'
  OBVIOUS
<1>0. TypeOK
  BY DEF IInv
<1>1. ASSUME NEW r \in Rooms, openRoom(r)
      PROVE  TypeOK'
  BY <1>0, <1>1 DEF TypeOK, openRoom, Contents
<1>2. ASSUME NEW r \in Rooms, startGame(r)
      PROVE  TypeOK'
  <2>1. started' \in 0..MaxGames /\ started + 1 \in Games
    BY <1>0, <1>2 DEF TypeOK, startGame, Games
  <2>2. playing' \in [Rooms -> Games \cup {NoGame}]
    BY <1>0, <1>2, <2>1 DEF TypeOK, startGame
  <2>3. QED
    BY <1>0, <1>2, <2>1, <2>2 DEF TypeOK, startGame
<1>3. ASSUME NEW r \in Rooms, NEW c \in Callers, emitGameFinished(r, c)
      PROVE  TypeOK'
  <2>1. saving' \in [step : {"idle", "write", "rename", "emit"}, game : Games \cup {NoGame},
                     caller : Callers]
    BY <1>0, <1>3, EmitFacts
  <2>2. playing' \in [Rooms -> Games \cup {NoGame}]
    BY <1>0, <1>3 DEF TypeOK, emitGameFinished
  <2>3. QED
    BY <1>0, <1>3, <2>1, <2>2, EmitFacts DEF TypeOK, emitGameFinished
<1>4. CASE writeTemporary
  BY <1>0, <1>4, FilesTyped DEF TypeOK, writeTemporary
<1>5. CASE renameTemporary
  BY <1>0, <1>5, FilesTyped DEF TypeOK, renameTemporary
<1>6. CASE emit
  <2>1. saving.game \in Games
    BY <1>0, <1>6 DEF IInv, TypeOK, SavedIsInMemory, emit, Contents
  <2>2. QED
    BY <1>0, <1>6, <2>1, IdleTyped DEF TypeOK, emit
<1>7. CASE flushFails
  <2>1. tmp' \in Files /\ faults' \in 0..MaxFaults
    BY <1>0, <1>7, InterruptedType DEF TypeOK, flushFails
  <2>2. CASE loseMemory
    BY <1>0, <1>7, <2>1, <2>2, LoseMemoryType, IdleTyped DEF TypeOK, flushFails
  <2>3. CASE saving' = Idle /\ UNCHANGED <<up, history, rooms, completed, playing>>
    BY <1>0, <1>7, <2>1, <2>3, IdleTyped DEF TypeOK, flushFails
  <2>4. QED
    BY <1>7, <2>2, <2>3 DEF flushFails
<1>8. CASE die
  <2>1. tmp' \in Files /\ faults' \in 0..MaxFaults
    BY <1>0, <1>8, InterruptedType DEF TypeOK, die
  <2>2. QED
    BY <1>0, <1>8, <2>1, LoseMemoryType, IdleTyped DEF TypeOK, die
<1>9. CASE loadFromDisk
  BY <1>0, <1>9, FilesTyped DEF TypeOK, loadFromDisk
<1>10. CASE loadFails
  BY <1>0, <1>10 DEF TypeOK, loadFails
<1>11. CASE UNCHANGED vars
  BY <1>0, <1>11 DEF TypeOK, vars
<1>12. QED
  BY <1>1, <1>2, <1>3, <1>4, <1>5, <1>6, <1>7, <1>8, <1>9, <1>10, <1>11 DEF Next

-----------------------------------------------------------------------------
\* The rest of the invariant, one step for each kind of action.
LEMMA RestStep ==
  IInv /\ [Next]_vars =>
    FileIsWhole' /\ MemoryHoldsFile' /\ SavedIsInMemory' /\ DownIsEmpty'
    /\ StepsOfFlush' /\ AnnouncedIsDurable'
<1> DEFINE Rest == /\ FileIsWhole /\ MemoryHoldsFile /\ SavedIsInMemory /\ DownIsEmpty
                   /\ StepsOfFlush /\ AnnouncedIsDurable
<1> SUFFICES ASSUME IInv, [Next]_vars PROVE Rest'
  OBVIOUS
<1>0. TypeOK /\ Rest
  BY DEF IInv
<1>1. ASSUME NEW r \in Rooms, openRoom(r)
      PROVE  Rest'
  <2>1. /\ up /\ completed' = [completed EXCEPT ![r] = history[r]]
        /\ rooms' = rooms \cup {r}
        /\ UNCHANGED <<up, history, file, tmp, saving, announced>>
    BY <1>1 DEF openRoom, Running
  <2>2. FileIsWhole' /\ SavedIsInMemory' /\ StepsOfFlush' /\ AnnouncedIsDurable'
    BY <1>0, <2>1
    DEF FileIsWhole, SavedIsInMemory, StepsOfFlush, AnnouncedIsDurable, Recorded
  <2>3. \A q \in rooms' \cap Rooms : completed'[q] \subseteq history[q]
    <3> SUFFICES ASSUME NEW q \in rooms' \cap Rooms
                 PROVE  completed'[q] \subseteq history[q]
      OBVIOUS
    <3>1. CASE q = r
      BY <1>0, <2>1, <3>1 DEF TypeOK, Contents
    <3>2. CASE q # r
      BY <1>0, <2>1, <3>2 DEF TypeOK, Contents, MemoryHoldsFile
    <3>3. QED
      BY <3>1, <3>2
  <2>4. MemoryHoldsFile' /\ DownIsEmpty'
    BY <1>0, <2>1, <2>3 DEF MemoryHoldsFile, DownIsEmpty
  <2>5. QED
    BY <2>2, <2>4
<1>2. ASSUME NEW r \in Rooms, startGame(r)
      PROVE  Rest'
  BY <1>0, <1>2
  DEF startGame, FileIsWhole, MemoryHoldsFile, SavedIsInMemory, StepsOfFlush,
      AnnouncedIsDurable, Recorded, DownIsEmpty
<1>3. ASSUME NEW r \in Rooms, NEW c \in Callers, emitGameFinished(r, c)
      PROVE  Rest'
  <2>1. FileIsWhole' /\ AnnouncedIsDurable'
    BY <1>0, <1>3, EmitFacts DEF FileIsWhole, AnnouncedIsDurable, Recorded, DownIsEmpty
  <2>2. SavedIsInMemory' /\ StepsOfFlush' /\ DownIsEmpty'
    BY <1>0, <1>3, EmitFacts DEF SavedIsInMemory, StepsOfFlush, DownIsEmpty
  <2>3. \A q \in rooms \cap Rooms : completed'[q] \subseteq history'[q]
    BY <1>0, <1>3, EmitFacts DEF TypeOK, MemoryHoldsFile, Contents
  <2>4. MemoryHoldsFile'
    BY <1>0, <1>3, <2>3, EmitFacts DEF MemoryHoldsFile
  <2>5. QED
    BY <2>1, <2>2, <2>4
<1>4. CASE writeTemporary
  BY <1>0, <1>4
  DEF TypeOK, writeTemporary, FileIsWhole, MemoryHoldsFile, SavedIsInMemory, StepsOfFlush,
      AnnouncedIsDurable, Recorded, DownIsEmpty
<1>5. CASE renameTemporary
  <2>1. /\ saving.step = "rename" /\ saving'.step = "emit" /\ saving'.game = saving.game
        /\ UNCHANGED <<up, history, rooms, completed, announced>>
    BY <1>0, <1>5 DEF TypeOK, renameTemporary
  <2>2. up /\ file' = Complete(history)
    BY <1>0, <1>5, <2>1 DEF renameTemporary, StepsOfFlush, SavedIsInMemory
  <2>3. file'.games = history /\ file'.kind # "torn"
    BY <1>0, <2>2, FilesTyped DEF TypeOK
  <2>4. FileIsWhole' /\ MemoryHoldsFile' /\ SavedIsInMemory' /\ StepsOfFlush' /\ DownIsEmpty'
    BY <1>0, <2>1, <2>2, <2>3
    DEF FileIsWhole, MemoryHoldsFile, SavedIsInMemory, StepsOfFlush, DownIsEmpty
  <2>5. \A r \in Rooms : file.games[r] \subseteq file'.games[r]
    BY <1>0, <2>2, <2>3 DEF MemoryHoldsFile
  <2>6. AnnouncedIsDurable'
    BY <1>0, <2>1, <2>5 DEF AnnouncedIsDurable, Recorded, DownIsEmpty
  <2>7. QED
    BY <2>4, <2>6
<1>6. CASE emit
  <2>1. file.games = history /\ \E r \in Rooms : saving.game \in history[r]
    BY <1>0, <1>6, FilesTyped DEF TypeOK, emit, StepsOfFlush, SavedIsInMemory
  <2>2. AnnouncedIsDurable'
    BY <1>0, <1>6, <2>1 DEF emit, AnnouncedIsDurable, Recorded, DownIsEmpty
  <2>3. saving'.step = "idle" /\ UNCHANGED <<up, history, rooms, completed, file>>
    BY <1>6, IdleTyped DEF emit
  <2>4. FileIsWhole' /\ MemoryHoldsFile' /\ SavedIsInMemory' /\ DownIsEmpty' /\ StepsOfFlush'
    BY <1>0, <2>3 DEF FileIsWhole, MemoryHoldsFile, SavedIsInMemory, DownIsEmpty, StepsOfFlush
  <2>5. QED
    BY <2>2, <2>4
<1>7. ASSUME saving' = Idle, UNCHANGED <<file, announced>>,
             loseMemory \/ UNCHANGED <<up, history, rooms, completed>>
      PROVE  Rest'
  <2>1. saving'.step = "idle"
    BY <1>7, IdleTyped
  <2>2. FileIsWhole' /\ SavedIsInMemory' /\ StepsOfFlush' /\ AnnouncedIsDurable'
    BY <1>0, <1>7, <2>1
    DEF FileIsWhole, SavedIsInMemory, StepsOfFlush, AnnouncedIsDurable, Recorded
  <2>3. CASE loseMemory
    <3>1. up' = FALSE /\ rooms' = {}
      BY <2>3 DEF loseMemory
    <3>2. QED
      BY <2>2, <3>1 DEF MemoryHoldsFile, DownIsEmpty
  <2>4. CASE UNCHANGED <<up, history, rooms, completed>>
    BY <1>0, <1>7, <2>2, <2>4 DEF MemoryHoldsFile, DownIsEmpty
  <2>5. QED
    BY <1>7, <2>3, <2>4
<1>8. CASE flushFails \/ die
  BY <1>7, <1>8, LoseMemoryType DEF flushFails, die
<1>9. CASE loadFromDisk
  <2>1. rooms = {} /\ saving.step = "idle"
    BY <1>0, <1>9 DEF loadFromDisk, SavedIsInMemory, DownIsEmpty
  <2>2. QED
    BY <1>0, <1>9, <2>1
    DEF loadFromDisk, FileIsWhole, MemoryHoldsFile, SavedIsInMemory, StepsOfFlush,
        AnnouncedIsDurable, Recorded, DownIsEmpty
<1>10. CASE loadFails \/ UNCHANGED vars
  BY <1>0, <1>10
  DEF loadFails, vars, FileIsWhole, MemoryHoldsFile, SavedIsInMemory, StepsOfFlush,
      AnnouncedIsDurable, Recorded, DownIsEmpty
<1>11. QED
  BY <1>1, <1>2, <1>3, <1>4, <1>5, <1>6, <1>8, <1>9, <1>10 DEF Next

LEMMA StepPreserves == IInv /\ [Next]_vars => IInv'
BY TypeStep, RestStep DEF IInv

-----------------------------------------------------------------------------
\* The inductive invariant holds throughout.
THEOREM Invariant == Spec => []IInv
<1>1. QED
  BY InitEstablishes, StepPreserves, PTL DEF Spec

\* Every variable keeps its type, for any rooms and bounds.
THEOREM TypeCorrect == Spec => []TypeOK
<1>1. IInv => TypeOK
  BY DEF IInv
<1>2. QED
  BY Invariant, <1>1, PTL

\* What the players were told is in the file, through any number of crashes and
\* failures at any step of a save.
THEOREM AnnouncedIsOnDisk == Spec => []AnnouncedIsDurable
<1>1. IInv => AnnouncedIsDurable
  BY DEF IInv
<1>2. QED
  BY Invariant, <1>1, PTL

\* Only a rename replaces the file, by all that memory holds.
LEMMA FileSteps ==
  ASSUME IInv, [Next]_vars
  PROVE  UNCHANGED file \/ (up /\ file'.games = history)
<1>1. CASE renameTemporary
  <2>1. up /\ file' = Complete(history)
    BY <1>1 DEF IInv, renameTemporary, StepsOfFlush, SavedIsInMemory
  <2>2. QED
    BY <2>1, FilesTyped DEF IInv, TypeOK
<1>2. CASE ~renameTemporary
  BY <1>2 DEF Next, openRoom, startGame, emitGameFinished, writeTemporary, emit, flushFails,
              die, loadFromDisk, loadFails, vars
<1>3. QED
  BY <1>1, <1>2

\* The file never loses a game, whatever crashes or fails.
THEOREM FileGrows == Spec => FileOnlyGrows
<1>1. IInv /\ [Next]_vars => [\A r \in Rooms : file.games[r] \subseteq file'.games[r]]_vars
  BY FileSteps DEF IInv, MemoryHoldsFile
<1>2. QED
  BY Invariant, <1>1, PTL DEF Spec, FileOnlyGrows

\* A successful flush writes everything this process has recorded, what earlier
\* flushes failed to write included.
THEOREM FlushesAreComplete == Spec => FlushIsComplete
<1>1. IInv /\ [Next]_vars =>
        [file' # file => \A r \in rooms : completed[r] \subseteq file'.games[r]]_vars
  BY FileSteps DEF IInv, MemoryHoldsFile, TypeOK
<1>2. QED
  BY Invariant, <1>1, PTL DEF Spec, FlushIsComplete
================================================================================
