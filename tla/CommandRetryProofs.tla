-------------------------- MODULE CommandRetryProofs --------------------------
(***************************************************************************)
(* Theorems about CommandRetry for any cells, any commandIds and any bound *)
(* on games and failed saves.                                              *)
(***************************************************************************)
EXTENDS CommandRetry, TLAPS

USE PlayersAssumption, BoundsAssumption, NoCommandAssumption

RematchKinds == {"REQUEST_REMATCH", "ACCEPT_REMATCH", "DECLINE_REMATCH"}
Games == [id : 0..MaxGames, status : {"WAITING", "ACTIVE", "FINISHED"},
          first : Players, turn : Players, taken : SUBSET Cells]

\* What the cache holds depends on the sort of command: only the answers of
\* PLAYER_READY and MAKE_MOVE are sent again to a duplicate.
CacheFitsKind ==
  \A i \in Ids :
    /\ cache[i] # None => issued[i] # NoCommand
    /\ Is(i, "PLAYER_READY") => cache[i] \in {None, "ack"}
    /\ Is(i, "MAKE_MOVE") => cache[i] \in {None, "ack", "rejected"}
    /\ issued[i] # NoCommand /\ issued[i].kind \in RematchKinds
         => cache[i] \in {None, "processed"}

\* A move that was made shows on the board of its game, or that game is past.
PlacedShows ==
  \A i \in Ids : placed[i] > 0 =>
    /\ Is(i, "MAKE_MOVE")
    /\ \/ issued[i].gameId < game.id
       \/ issued[i].gameId = game.id /\ issued[i].cell \in game.taken

\* A command that took effect is in the cache, or it is a move that was made
\* (and whose game could not be saved).
EffectIsRemembered ==
  \A i \in Ids : effects[i] > 0 => cache[i] # None \/ placed[i] > 0

\* Until a save fails, what was answered is what is cached.
AnswerIsCached ==
  faults = 0 => \A i \in Ids : answers[i] \in {"ack", "rejected"} => cache[i] = answers[i]

IInv ==
  /\ TypeOK
  /\ CacheFitsKind
  /\ PlacedShows
  /\ MoveMadeOnce
  /\ EffectIsRemembered
  /\ AppliedOncePerWindow
  /\ AnswerIsCached

-----------------------------------------------------------------------------
\* A delivery is a duplicate, or it reaches the handler of its kind with
\* nothing in the cache; what remains are new commands and timers.

Repeats(i) == (Is(i, "PLAYER_READY") \/ Is(i, "MAKE_MOVE")) /\ duplicate(i, TRUE)
Ignores(i) == issued[i] # NoCommand /\ issued[i].kind \in RematchKinds /\ duplicate(i, FALSE)
Uncached(i) == issued[i] # NoCommand /\ cache[i] = None
Refuses(i) == Uncached(i) /\ refused(i)
Readies(i) == Uncached(i) /\ Is(i, "PLAYER_READY") /\ handlePlayerReady(i)
Rejects(i) == Uncached(i) /\ Is(i, "MAKE_MOVE") /\ rejectMove(i)
Accepts(i) == Uncached(i) /\ Is(i, "MAKE_MOVE") /\ NamesCurrentGame(i) /\ acceptMove(i)

\* A rematch command that is not refused: what it does to all but the room.
Rematches(i) ==
  /\ Uncached(i) /\ issued[i].kind \in RematchKinds
  /\ answer(i, "other") /\ recordCommand(i, "processed")
  /\ \E n \in {0, 1} : effects' = [effects EXCEPT ![i] = @ + n]
  /\ UNCHANGED <<issued, faults, placed>>

\* What the rematch handlers leave behind, when they are not refused.
LEMMA RematchCommands ==
  ASSUME TypeOK, NEW i \in Ids, Uncached(i), issued[i].kind \in RematchKinds,
         handleRequestRematch(i) \/ handleAcceptRematch(i) \/ handleDeclineRematch(i)
  PROVE  Refuses(i) \/ Rematches(i)
<1>1. effects[i] \in Nat /\ effects \in [Ids -> Nat]
  BY DEF TypeOK
<1>2. effects[i] + 0 = effects[i]
  BY <1>1
<1>3. effects = [effects EXCEPT ![i] = @ + 0]
  BY <1>1, <1>2
<1>4. CASE refused(i)
  BY <1>4 DEF Refuses
<1>5. CASE handleRequestRematch(i) /\ ~refused(i)
  BY <1>5 DEF handleRequestRematch, Rematches, tookEffect
<1>6. CASE handleDeclineRematch(i) /\ ~refused(i)
  BY <1>6 DEF handleDeclineRematch, Rematches, tookEffect
<1>7. CASE handleAcceptRematch(i) /\ ~refused(i)
  <2>1. /\ answer(i, "other") /\ recordCommand(i, "processed")
        /\ effects' = [effects EXCEPT ![i] = IF rematch' = rematch THEN @ ELSE @ + 1]
        /\ UNCHANGED <<issued, faults, placed>>
    BY <1>7 DEF handleAcceptRematch
  <2>2. CASE rematch' = rematch
    BY <2>1, <2>2, <1>1, <1>3 DEF Rematches
  <2>3. CASE rematch' # rematch
    BY <2>1, <2>3 DEF Rematches
  <2>4. QED
    BY <2>2, <2>3
<1>8. QED
  BY <1>4, <1>5, <1>6, <1>7

\* Every step is one of these.
LEMMA StepCases ==
  ASSUME TypeOK, [Next]_vars
  PROVE  \/ \E i \in Ids, cmd \in Commands : issue(i, cmd)
         \/ \E i \in Ids : \/ Repeats(i) \/ Ignores(i) \/ Refuses(i)
                           \/ Readies(i) \/ Rejects(i) \/ Accepts(i)
                           \/ Rematches(i) \/ expire(i)
         \/ UNCHANGED <<issued, cache, faults, answers, effects, placed>>
<1>1. CASE \E i \in Ids, cmd \in Commands : issue(i, cmd)
  BY <1>1
<1>2. ASSUME NEW i \in Ids, PlayerReady(i)
      PROVE  Repeats(i) \/ Readies(i)
  BY <1>2 DEF PlayerReady, Repeats, Readies, Uncached, Is, getCachedResult
<1>3. ASSUME NEW i \in Ids, MakeMove(i)
      PROVE  Repeats(i) \/ Refuses(i) \/ Rejects(i) \/ Accepts(i)
  BY <1>3 DEF MakeMove, handleMove, Repeats, Refuses, Rejects, Accepts, Uncached, Is,
              getCachedResult
<1>4. ASSUME NEW i \in Ids, RequestRematch(i) \/ AcceptRematch(i) \/ DeclineRematch(i)
      PROVE  Ignores(i) \/ Refuses(i) \/ Rematches(i)
  <2>1. issued[i] # NoCommand /\ issued[i].kind \in RematchKinds
    BY <1>4 DEF RequestRematch, AcceptRematch, DeclineRematch, Is, RematchKinds
  <2>2. CASE duplicate(i, FALSE)
    BY <2>1, <2>2 DEF Ignores
  <2>3. CASE ~duplicate(i, FALSE)
    <3>1. Uncached(i)
      BY <1>4, <2>1, <2>3 DEF RequestRematch, AcceptRematch, DeclineRematch, Uncached,
                              getCachedResult
    <3>2. handleRequestRematch(i) \/ handleAcceptRematch(i) \/ handleDeclineRematch(i)
      BY <1>4, <2>3 DEF RequestRematch, AcceptRematch, DeclineRematch
    <3>3. QED
      BY <2>1, <3>1, <3>2, RematchCommands
  <2>4. QED
    BY <2>2, <2>3
<1>5. CASE \E i \in Ids : expire(i)
  BY <1>5
<1>6. CASE expireRematch \/ UNCHANGED vars
  BY <1>6 DEF expireRematch, vars
<1>7. QED
  BY <1>1, <1>2, <1>3, <1>4, <1>5, <1>6 DEF Next

\* A step keeps the room's types, and a game never loses a mark or goes back.
LEMMA RoomSteps ==
  ASSUME TypeOK, [Next]_vars
  PROVE  /\ ready' \subseteq Players /\ ready' # Players
         /\ game' \in Games
         /\ rematch' \subseteq Players /\ rematch' # Players
         /\ \/ game'.id > game.id
            \/ game'.id = game.id /\ game.taken \subseteq game'.taken
<1> DEFINE Room == /\ ready' \subseteq Players /\ ready' # Players
                   /\ game' \in Games
                   /\ rematch' \subseteq Players /\ rematch' # Players
                   /\ \/ game'.id > game.id
                      \/ game'.id = game.id /\ game.taken \subseteq game'.taken
<1>1. /\ ready \subseteq Players /\ ready # Players
      /\ game \in Games
      /\ rematch \subseteq Players /\ rematch # Players
  BY DEF TypeOK, Games
<1>2. {} \subseteq Players /\ {} # Players
  BY DEF Players
<1>3. \A q \in Players : {q} # Players /\ Other(q) \in Players
  BY DEF Players, Other
<1>4. ASSUME UNCHANGED <<ready, game, rematch>>
      PROVE  Room
  BY <1>1, <1>4 DEF Games
<1>5. ASSUME game.id < MaxGames, NEW f \in Players, game' = NewGame(f)
      PROVE  game' \in Games /\ game'.id > game.id
  <2>1. game.id \in 0..MaxGames /\ game.id + 1 \in 0..MaxGames
    BY <1>1, <1>5 DEF Games
  <2>2. QED
    BY <1>5, <2>1 DEF Games, NewGame
<1>6. ASSUME NEW i \in Ids, Is(i, "PLAYER_READY"), handlePlayerReady(i)
      PROVE  Room
  <2>1. issued[i].player \in Players /\ Other(game.first) \in Players
    BY <1>1, <1>3, <1>6 DEF TypeOK, Is, Commands, Games
  <2>2. CASE roomUnchanged
    BY <1>4, <2>2 DEF roomUnchanged
  <2>3. CASE becomeReady(issued[i].player) /\ UNCHANGED rematch
    BY <1>1, <1>2, <1>5, <2>1, <2>3 DEF becomeReady, Games
  <2>4. QED
    BY <1>6, <2>2, <2>3 DEF handlePlayerReady
<1>7. ASSUME NEW i \in Ids, Is(i, "MAKE_MOVE"), acceptMove(i)
      PROVE  Room
  <2> DEFINE taken == game.taken \cup {issued[i].cell}
  <2>1. taken \in SUBSET Cells
    BY <1>1, <1>7 DEF TypeOK, Is, Commands, Games
  <2>2. PICK st \in {"FINISHED", "ACTIVE"} :
          game' = [game EXCEPT !.taken = taken, !.turn = Other(@), !.status = st]
    BY <1>7 DEF acceptMove
  <2>3. Other(game.turn) \in Players
    BY <1>1, <1>3 DEF Games
  <2>4. game' \in Games /\ game'.id = game.id /\ game'.taken = taken
    BY <1>1, <2>1, <2>2, <2>3 DEF Games
  <2>5. UNCHANGED <<ready, rematch>>
    BY <1>7 DEF acceptMove
  <2>6. QED
    BY <1>1, <2>4, <2>5
<1>8. ASSUME NEW i \in Ids, issued[i] # NoCommand, issued[i].kind \in RematchKinds,
             handleRequestRematch(i) \/ handleAcceptRematch(i) \/ handleDeclineRematch(i)
      PROVE  Room
  <2>1. issued[i].player \in Players /\ Other(game.first) \in Players
    BY <1>1, <1>3, <1>8 DEF TypeOK, Commands, Games
  <2>2. CASE refused(i)
    BY <1>4, <2>2 DEF refused, roomUnchanged
  <2>3. CASE handleRequestRematch(i) /\ ~refused(i)
    BY <1>1, <1>3, <2>1, <2>3 DEF handleRequestRematch
  <2>4. CASE handleDeclineRematch(i) /\ ~refused(i)
    BY <1>1, <1>2, <2>4 DEF handleDeclineRematch
  <2>5. CASE handleAcceptRematch(i) /\ ~refused(i)
    BY <1>1, <1>2, <1>5, <2>1, <2>5 DEF handleAcceptRematch
  <2>6. QED
    BY <1>8, <2>2, <2>3, <2>4, <2>5
<1>9. CASE expireRematch
  BY <1>1, <1>2, <1>9 DEF expireRematch
<1>10. ASSUME NEW i \in Ids,
              expire(i) \/ refused(i) \/ rejectMove(i)
              \/ (\E cmd \in Commands : issue(i, cmd))
              \/ duplicate(i, TRUE) \/ duplicate(i, FALSE)
       PROVE  Room
  BY <1>4, <1>10 DEF expire, refused, rejectMove, issue, duplicate, roomUnchanged
<1>11. CASE UNCHANGED vars
  BY <1>4, <1>11 DEF vars
<1>12. ASSUME NEW i \in Ids, PlayerReady(i) \/ MakeMove(i)
       PROVE  Room
  BY <1>6, <1>7, <1>10, <1>12 DEF PlayerReady, MakeMove, handleMove
<1>13. ASSUME NEW i \in Ids, RequestRematch(i) \/ AcceptRematch(i) \/ DeclineRematch(i)
       PROVE  Room
  <2>1. issued[i] # NoCommand /\ issued[i].kind \in RematchKinds
    BY <1>13 DEF RequestRematch, AcceptRematch, DeclineRematch, Is, RematchKinds
  <2>2. QED
    BY <1>8, <1>10, <1>13, <2>1 DEF RequestRematch, AcceptRematch, DeclineRematch
<1>14. QED
  BY <1>9, <1>10, <1>11, <1>12, <1>13 DEF Next

\* What each sort of step does to the command it is about, and to no other.
LEMMA RowSteps ==
  ASSUME TypeOK, NEW i \in Ids,
         \/ Repeats(i) \/ Ignores(i) \/ Refuses(i) \/ Readies(i) \/ Rejects(i)
         \/ Accepts(i) \/ Rematches(i) \/ expire(i)
  PROVE  /\ UNCHANGED issued
         /\ \A j \in Ids \ {i} : /\ cache'[j] = cache[j] /\ answers'[j] = answers[j]
                               /\ effects'[j] = effects[j] /\ placed'[j] = placed[j]
  BY DEF TypeOK, Repeats, Ignores, Refuses, Readies, Rejects, Accepts, Rematches, expire,
         duplicate, refused, handlePlayerReady, rejectMove, acceptMove, answer,
         recordCommand, tookEffect, roomUnchanged

-----------------------------------------------------------------------------
LEMMA InitEstablishes == Init => IInv
<1> SUFFICES ASSUME Init PROVE IInv
  OBVIOUS
<1>1. TypeOK
  BY DEF Init, TypeOK, NoGame, Players, None
<1>2. CacheFitsKind /\ PlacedShows /\ MoveMadeOnce
  BY DEF Init, CacheFitsKind, PlacedShows, MoveMadeOnce, Is, None
<1>3. EffectIsRemembered /\ AppliedOncePerWindow /\ AnswerIsCached
  BY DEF Init, EffectIsRemembered, AppliedOncePerWindow, AnswerIsCached, None
<1>4. QED
  BY <1>1, <1>2, <1>3 DEF IInv

\* The steps that are about one command.
Handles(i) ==
  \/ Repeats(i) \/ Ignores(i) \/ Refuses(i) \/ Readies(i) \/ Rejects(i)
  \/ Accepts(i) \/ Rematches(i) \/ expire(i)

\* The row of a command in the cache and in what is recorded about it.
RowFits(i) ==
  /\ issued[i] # NoCommand
  /\ cache[i] \in {None, "ack", "rejected", "processed"}
  /\ Is(i, "PLAYER_READY") => cache[i] \in {None, "ack"}
  /\ Is(i, "MAKE_MOVE") => cache[i] \in {None, "ack", "rejected"}
  /\ issued[i].kind \in RematchKinds => cache[i] \in {None, "processed"}
  /\ answers[i] \in {None, "ack", "rejected", "other"}
  /\ effects[i] \in 0..1
  /\ placed[i] \in 0..1
  /\ placed[i] > 0 => Is(i, "MAKE_MOVE")
  /\ effects[i] > 0 => cache[i] # None \/ placed[i] > 0
  /\ faults = 0 /\ answers[i] \in {"ack", "rejected"} => cache[i] = answers[i]

\* A move that was made is not made again: its cell shows it, or its game is past.
LEMMA MadeIsNotAccepted ==
  ASSUME IInv, NEW i \in Ids, Accepts(i)
  PROVE  placed[i] = 0 /\ effects[i] = 0
<1>1. game.id \in Nat /\ placed[i] \in Nat /\ effects[i] \in Nat
  BY DEF IInv, TypeOK
<1>2. placed[i] = 0
  BY <1>1 DEF IInv, PlacedShows, Accepts, NamesCurrentGame, acceptMove
<1>3. effects[i] = 0
  BY <1>1, <1>2 DEF IInv, EffectIsRemembered, Accepts, Uncached
<1>4. QED
  BY <1>2, <1>3

\* A command of another sort that is not in the cache took no effect.
LEMMA UncachedIsFresh ==
  ASSUME IInv, NEW i \in Ids, Uncached(i), ~Is(i, "MAKE_MOVE")
  PROVE  placed[i] = 0 /\ effects[i] = 0
BY DEF IInv, TypeOK, PlacedShows, EffectIsRemembered, Uncached

\* A step leaves the row of its command in order, and no failed save undone.
LEMMA OwnRow ==
  ASSUME IInv, NEW i \in Ids, Handles(i)
  PROVE  RowFits(i)' /\ faults' \in 0..MaxFaults /\ (faults' = 0 => faults = 0)
<1> DEFINE Goal == RowFits(i)' /\ faults' \in 0..MaxFaults /\ (faults' = 0 => faults = 0)
<1>1. TypeOK
  BY DEF IInv
<1>2. issued[i] # NoCommand => RowFits(i)
  BY DEF IInv, TypeOK, CacheFitsKind, PlacedShows, MoveMadeOnce, EffectIsRemembered,
         AppliedOncePerWindow, AnswerIsCached, RowFits
<1>3. faults \in 0..MaxFaults
  BY <1>1 DEF TypeOK
<1>4. CASE Repeats(i)
  BY <1>1, <1>2, <1>3, <1>4
  DEF TypeOK, RowFits, Is, Repeats, duplicate, getCachedResult, answer, roomUnchanged, None
<1>5. CASE Ignores(i)
  BY <1>1, <1>2, <1>3, <1>5
  DEF TypeOK, RowFits, Is, Ignores, duplicate, answer, roomUnchanged, None
<1>6. CASE Refuses(i)
  BY <1>1, <1>2, <1>3, <1>6
  DEF TypeOK, RowFits, Is, Refuses, Uncached, refused, answer, roomUnchanged, None
<1>7. CASE Readies(i)
  <2>1. issued[i].kind = "PLAYER_READY" /\ issued[i] # NoCommand
    BY <1>7 DEF Readies, Is
  <2>2. placed[i] = 0 /\ effects[i] = 0
    BY <1>7, <2>1, UncachedIsFresh DEF Readies, Is
  <2>3. /\ cache'[i] = "ack" /\ answers'[i] = "ack"
        /\ issued' = issued /\ faults' = faults /\ placed' = placed
        /\ effects'[i] \in 0..1
    BY <1>1, <1>7, <2>2
    DEF TypeOK, Readies, handlePlayerReady, answer, recordCommand, tookEffect, roomUnchanged
  <2>4. QED
    BY <1>3, <2>1, <2>2, <2>3 DEF RowFits, Is, None, RematchKinds
<1>8. CASE Rejects(i)
  BY <1>1, <1>2, <1>3, <1>8
  DEF TypeOK, RowFits, Is, Rejects, Uncached, rejectMove, answer, recordCommand,
      roomUnchanged, None, RematchKinds
<1>9. CASE Accepts(i)
  <2>1. issued[i].kind = "MAKE_MOVE" /\ issued[i] # NoCommand /\ cache[i] = None
    BY <1>9 DEF Accepts, Is, Uncached
  <2>2. /\ answers'[i] = "ack" /\ issued' = issued
        /\ effects'[i] = 1 /\ placed'[i] = 1
    <3>1. placed[i] = 0 /\ effects[i] = 0
      BY <1>9, MadeIsNotAccepted
    <3>2. /\ answers' = [answers EXCEPT ![i] = "ack"] /\ issued' = issued
          /\ effects' = [effects EXCEPT ![i] = @ + 1]
          /\ placed' = [placed EXCEPT ![i] = @ + 1]
      BY <1>9 DEF Accepts, acceptMove, answer, tookEffect
    <3>3. QED
      BY <1>1, <3>1, <3>2 DEF TypeOK
  <2>3. \/ cache'[i] = "ack" /\ faults' = faults
        \/ cache' = cache /\ faults' = faults + 1 /\ faults < MaxFaults
    BY <1>1, <1>9 DEF TypeOK, Accepts, acceptMove, recordCommand
  <2>4. faults' \in 0..MaxFaults /\ (faults' = 0 => faults = 0 /\ cache'[i] = "ack")
    BY <1>3, <2>3
  <2>5. cache'[i] \in {None, "ack"}
    BY <2>1, <2>3
  <2>6. QED
    BY <2>1, <2>2, <2>4, <2>5 DEF RowFits, Is, None, RematchKinds
<1>10. CASE Rematches(i)
  <2>1. issued[i].kind \in RematchKinds /\ issued[i] # NoCommand /\ ~Is(i, "MAKE_MOVE")
    BY <1>10 DEF Rematches, Uncached, Is, RematchKinds
  <2>2. placed[i] = 0 /\ effects[i] = 0
    BY <1>10, <2>1, UncachedIsFresh DEF Rematches
  <2>3. /\ cache'[i] = "processed" /\ answers'[i] = "other"
        /\ issued' = issued /\ faults' = faults /\ placed' = placed
        /\ effects'[i] \in 0..1
    BY <1>1, <1>10, <2>2 DEF TypeOK, Rematches, answer, recordCommand
  <2>4. QED
    BY <1>3, <2>1, <2>2, <2>3 DEF RowFits, Is, None, RematchKinds
<1>11. CASE expire(i)
  <2>1. issued[i] # NoCommand
    BY <1>11 DEF IInv, CacheFitsKind, expire
  <2>2. QED
    BY <1>1, <1>2, <1>3, <1>11, <2>1 DEF TypeOK, RowFits, Is, expire, None
<1>12. QED
  BY <1>4, <1>5, <1>6, <1>7, <1>8, <1>9, <1>10, <1>11 DEF Handles

\* A new command starts with an empty row.
LEMMA NewRow ==
  ASSUME IInv, NEW i \in Ids, NEW cmd \in Commands, issue(i, cmd)
  PROVE  /\ issued' \in [Ids -> Commands \cup {NoCommand}]
         /\ RowFits(i)'
         /\ \A j \in Ids \ {i} : issued'[j] = issued[j]
         /\ UNCHANGED <<cache, faults, answers, effects, placed>>
         /\ cache[i] = None /\ placed[i] = 0
<1>1. TypeOK /\ issued[i] = NoCommand /\ cmd # NoCommand
  BY DEF IInv, issue
<1>2. cache[i] = None /\ placed[i] = 0 /\ effects[i] = 0
  BY <1>1 DEF IInv, TypeOK, CacheFitsKind, PlacedShows, EffectIsRemembered, Is
<1>3. faults = 0 => answers[i] \notin {"ack", "rejected"}
  BY <1>2 DEF IInv, AnswerIsCached, None
<1>4. answers[i] \in {None, "ack", "rejected", "other"}
  BY <1>1 DEF TypeOK
<1>5. /\ issued' = [issued EXCEPT ![i] = cmd]
      /\ UNCHANGED <<cache, faults, answers, effects, placed>>
  BY DEF issue
<1>6. /\ issued' \in [Ids -> Commands \cup {NoCommand}] /\ issued'[i] = cmd
      /\ \A j \in Ids \ {i} : issued'[j] = issued[j]
  BY <1>1, <1>5 DEF TypeOK
<1>7. RowFits(i)'
  BY <1>1, <1>2, <1>3, <1>4, <1>5, <1>6 DEF RowFits, Is, None
<1>8. QED
  BY <1>2, <1>5, <1>6, <1>7

\* The invariant, row by row.
Rows ==
  \A i \in Ids : IF issued[i] # NoCommand THEN RowFits(i)
                ELSE /\ cache[i] = None /\ answers[i] \in {None, "ack", "rejected", "other"}
                     /\ effects[i] = 0 /\ placed[i] = 0
                     /\ faults = 0 => answers[i] \notin {"ack", "rejected"}

\* A step keeps every row in order: its own by the lemmas above, the others
\* because it leaves them alone.
LEMMA RowsKept ==
  ASSUME IInv, [Next]_vars
  PROVE  Rows' /\ faults' \in 0..MaxFaults /\ issued' \in [Ids -> Commands \cup {NoCommand}]
<1> DEFINE Goal ==
      Rows' /\ faults' \in 0..MaxFaults /\ issued' \in [Ids -> Commands \cup {NoCommand}]
<1>1. TypeOK
  BY DEF IInv
<1>2. Rows
  BY DEF IInv, TypeOK, CacheFitsKind, PlacedShows, MoveMadeOnce, EffectIsRemembered,
         AppliedOncePerWindow, AnswerIsCached, RowFits, Rows, Is, None
<1>3. ASSUME NEW j \in Ids, issued'[j] = issued[j], cache'[j] = cache[j],
             answers'[j] = answers[j], effects'[j] = effects[j], placed'[j] = placed[j],
             faults' = 0 => faults = 0
      PROVE  /\ issued[j] # NoCommand => RowFits(j)'
             /\ issued[j] = NoCommand =>
                  /\ cache'[j] = None /\ answers'[j] \in {None, "ack", "rejected", "other"}
                  /\ effects'[j] = 0 /\ placed'[j] = 0
                  /\ faults' = 0 => answers'[j] \notin {"ack", "rejected"}
  BY <1>2, <1>3 DEF Rows, RowFits, Is
<1>4. CASE UNCHANGED <<issued, cache, faults, answers, effects, placed>>
  BY <1>1, <1>2, <1>4 DEF Rows, RowFits, Is, TypeOK
<1>5. ASSUME NEW i \in Ids, NEW cmd \in Commands, issue(i, cmd)
      PROVE  Goal
  <2>1. /\ RowFits(i)' /\ issued' \in [Ids -> Commands \cup {NoCommand}]
        /\ \A j \in Ids \ {i} : issued'[j] = issued[j]
        /\ UNCHANGED <<cache, faults, answers, effects, placed>>
    BY <1>5, NewRow
  <2>2. issued'[i] # NoCommand
    BY <2>1 DEF RowFits
  <2>3. faults' \in 0..MaxFaults
    BY <1>1, <2>1 DEF TypeOK
  <2>4. Rows'
    BY <1>3, <2>1, <2>2 DEF Rows
  <2>5. QED
    BY <2>1, <2>3, <2>4
<1>6. ASSUME NEW i \in Ids, Handles(i)
      PROVE  Goal
  <2>1. RowFits(i)' /\ faults' \in 0..MaxFaults /\ (faults' = 0 => faults = 0)
    BY <1>6, OwnRow
  <2>2. /\ UNCHANGED issued
        /\ \A j \in Ids \ {i} : /\ cache'[j] = cache[j] /\ answers'[j] = answers[j]
                              /\ effects'[j] = effects[j] /\ placed'[j] = placed[j]
    BY <1>1, <1>6, RowSteps DEF Handles
  <2>3. issued'[i] # NoCommand
    BY <2>1 DEF RowFits
  <2>4. Rows'
    BY <1>3, <2>1, <2>2, <2>3 DEF Rows
  <2>5. QED
    BY <1>1, <2>1, <2>2, <2>4 DEF TypeOK
<1>7. QED
  BY <1>1, <1>4, <1>5, <1>6, StepCases DEF Handles

\* The four functions on commandIds keep their domain.
LEMMA StillFunctions ==
  ASSUME TypeOK, [Next]_vars
  PROVE  /\ cache' = [j \in Ids |-> cache'[j]] /\ answers' = [j \in Ids |-> answers'[j]]
         /\ effects' = [j \in Ids |-> effects'[j]] /\ placed' = [j \in Ids |-> placed'[j]]
<1> DEFINE Goal ==
      /\ cache' = [j \in Ids |-> cache'[j]] /\ answers' = [j \in Ids |-> answers'[j]]
      /\ effects' = [j \in Ids |-> effects'[j]] /\ placed' = [j \in Ids |-> placed'[j]]
<1>1. CASE UNCHANGED <<cache, answers, effects, placed>>
  BY <1>1 DEF TypeOK
<1>2. ASSUME NEW i \in Ids, Handles(i)
      PROVE  Goal
  BY <1>2 DEF TypeOK, Handles, Repeats, Ignores, Refuses, Readies, Rejects, Accepts,
              Rematches, expire, duplicate, refused, handlePlayerReady, rejectMove,
              acceptMove, answer, recordCommand, tookEffect, roomUnchanged
<1>3. QED
  BY <1>1, <1>2, StepCases DEF Handles, issue

\* A move that shows on the board goes on showing, and one that is made is shown.
LEMMA PlacedShowsKept ==
  ASSUME IInv, [Next]_vars
  PROVE  PlacedShows'
<1>1. TypeOK /\ PlacedShows
  BY DEF IInv
<1>2. \/ game'.id > game.id
      \/ game'.id = game.id /\ game.taken \subseteq game'.taken
  BY <1>1, RoomSteps
<1>3. game.id \in Nat /\ game'.id \in Nat
  BY <1>1, RoomSteps DEF TypeOK, Games
<1>4. ASSUME NEW j \in Ids, issued'[j] = issued[j], placed'[j] = placed[j], placed'[j] > 0
      PROVE  /\ Is(j, "MAKE_MOVE")'
             /\ \/ issued'[j].gameId < game'.id
                \/ issued'[j].gameId = game'.id /\ issued'[j].cell \in game'.taken
  <2>1. /\ Is(j, "MAKE_MOVE")
        /\ \/ issued[j].gameId < game.id
           \/ issued[j].gameId = game.id /\ issued[j].cell \in game.taken
    BY <1>1, <1>4 DEF PlacedShows
  <2>2. issued[j].gameId \in Nat
    BY <1>1, <2>1 DEF TypeOK, Is, Commands
  <2>3. QED
    BY <1>2, <1>3, <1>4, <2>1, <2>2 DEF Is
<1>5. CASE UNCHANGED <<issued, cache, faults, answers, effects, placed>>
  BY <1>4, <1>5 DEF PlacedShows
<1>6. ASSUME NEW i \in Ids, NEW cmd \in Commands, issue(i, cmd)
      PROVE  PlacedShows'
  BY <1>4, <1>6, NewRow DEF PlacedShows
<1>7. ASSUME NEW i \in Ids, Accepts(i)
      PROVE  PlacedShows'
  <2>1. Is(i, "MAKE_MOVE") /\ issued[i].gameId = game.id
    BY <1>7 DEF Accepts, NamesCurrentGame
  <2>2. game'.id = game.id /\ issued[i].cell \in game'.taken
    BY <1>1, <1>7 DEF Accepts, acceptMove, TypeOK
  <2>3. UNCHANGED issued /\ \A j \in Ids \ {i} : placed'[j] = placed[j]
    BY <1>1, <1>7, RowSteps
  <2>4. QED
    BY <1>4, <2>1, <2>2, <2>3 DEF PlacedShows, Is
<1>8. ASSUME NEW i \in Ids, Handles(i), ~Accepts(i)
      PROVE  PlacedShows'
  <2>1. UNCHANGED <<issued, placed>>
    BY <1>1, <1>8 DEF Handles, Repeats, Ignores, Refuses, Readies, Rejects, Rematches,
                      expire, duplicate, refused, handlePlayerReady, rejectMove, roomUnchanged
  <2>2. QED
    BY <1>4, <2>1 DEF PlacedShows
<1>9. QED
  BY <1>1, <1>5, <1>6, <1>7, <1>8, StepCases DEF Handles

LEMMA StepPreserves == IInv /\ [Next]_vars => IInv'
<1> SUFFICES ASSUME IInv, [Next]_vars PROVE IInv'
  OBVIOUS
<1>1. Rows' /\ faults' \in 0..MaxFaults /\ issued' \in [Ids -> Commands \cup {NoCommand}]
  BY RowsKept
<1>2. TypeOK
  BY DEF IInv
<1>3. TypeOK'
  <2>1. \A i \in Ids : /\ cache'[i] \in {None, "ack", "rejected", "processed"}
                      /\ answers'[i] \in {None, "ack", "rejected", "other"}
                      /\ effects'[i] \in Nat /\ placed'[i] \in Nat
    BY <1>1 DEF Rows, RowFits
  <2>2. /\ cache' \in [Ids -> {None, "ack", "rejected", "processed"}]
        /\ answers' \in [Ids -> {None, "ack", "rejected", "other"}]
        /\ effects' \in [Ids -> Nat] /\ placed' \in [Ids -> Nat]
    BY <1>2, <2>1, StillFunctions
  <2>3. QED
    BY <1>1, <1>2, <2>2, RoomSteps DEF TypeOK, Games
<1>4. CacheFitsKind'
  BY <1>1 DEF Rows, RowFits, CacheFitsKind, Is
<1>5. MoveMadeOnce' /\ EffectIsRemembered' /\ AppliedOncePerWindow' /\ AnswerIsCached'
  BY <1>1 DEF Rows, RowFits, MoveMadeOnce, EffectIsRemembered, AppliedOncePerWindow,
              AnswerIsCached
<1>6. PlacedShows'
  BY PlacedShowsKept
<1>7. QED
  BY <1>3, <1>4, <1>5, <1>6 DEF IInv

-----------------------------------------------------------------------------
\* The inductive invariant holds throughout.
THEOREM Invariant == Spec => []IInv
<1>1. QED
  BY InitEstablishes, StepPreserves, PTL DEF Spec

\* Every variable keeps its type, for any commandIds, cells and bounds.
THEOREM TypeCorrect == Spec => []TypeOK
<1>1. IInv => TypeOK
  BY DEF IInv
<1>2. QED
  BY Invariant, <1>1, PTL

\* No command is applied twice while its entry of the dedup cache lives,
\* however many duplicates of however many commands arrive in whatever order.
THEOREM OncePerWindow == Spec => []AppliedOncePerWindow
<1>1. IInv => AppliedOncePerWindow
  BY DEF IInv
<1>2. QED
  BY Invariant, <1>1, PTL

\* A move is made at most once, ever: also when the entry has expired or was
\* never made because the save failed (GameSession.handleMove).
THEOREM MovesAreMadeOnce == Spec => []MoveMadeOnce
<1>1. IInv => MoveMadeOnce
  BY DEF IInv
<1>2. QED
  BY Invariant, <1>1, PTL

\* Until a save fails, an acknowledged or rejected command is answered the same
\* to every retry while its entry lives.
THEOREM AnswersStand == Spec => AnswerStands
<1>1. IInv /\ [Next]_vars =>
        [\A i \in Ids : faults = 0 /\ answers[i] \in {"ack", "rejected"}
           => answers'[i] \in {answers[i], None}]_vars
  <2> SUFFICES ASSUME IInv, [Next]_vars, NEW i \in Ids, faults = 0,
                      answers[i] \in {"ack", "rejected"}
               PROVE  answers'[i] \in {answers[i], None}
    OBVIOUS
  <2>1. TypeOK /\ cache[i] = answers[i] /\ cache[i] # None
    BY DEF IInv, AnswerIsCached, None
  <2>2. issued[i].kind \notin RematchKinds
    BY <2>1 DEF IInv, CacheFitsKind, None
  <2>3. ASSUME Handles(i)
        PROVE  answers'[i] \in {answers[i], None}
    <3>1. Repeats(i) \/ expire(i)
      BY <2>1, <2>2, <2>3 DEF Handles, Ignores, Refuses, Readies, Rejects, Accepts, Rematches,
                              Uncached
    <3>2. QED
      BY <2>1, <3>1 DEF TypeOK, Repeats, duplicate, getCachedResult, answer, expire
  <2>4. ASSUME NEW j \in Ids, j # i, Handles(j)
        PROVE  answers'[i] = answers[i]
    BY <2>1, <2>4, RowSteps DEF Handles
  <2>5. QED
    BY <2>1, <2>3, <2>4, StepCases DEF Handles, issue
<1>2. QED
  BY Invariant, <1>1, PTL DEF Spec, AnswerStands
===============================================================================
