-------------------------- MODULE EventStreamProofs ---------------------------
(***************************************************************************)
(* Theorems about EventStream for any size of the replay buffer, any       *)
(* number of moves, games and lost connections.                            *)
(*                                                                         *)
(* The invariant looks ahead: for each player, the events in transit,      *)
(* applied one after the other to what the client shows now, never lead    *)
(* ahead of the game, and end at the game as the server has it, if the     *)
(* client is not waiting for the answer to a RECONNECT (Chain); and the    *)
(* entries of the replay buffer that are kept for the player tell of the   *)
(* latest board, of the end of the game and of the opponent's return       *)
(* whenever they tell of something older (Kept), so that any replay cut    *)
(* from it leads there too.                                                *)
(***************************************************************************)
EXTENDS EventStream, Integers, FiniteSetTheorems, TLAPS

-----------------------------------------------------------------------------
(***************************************************************************)
(* Induction on a number, stated about sets.  A least number is one whose  *)
(* interval is minimal among the intervals 0..x, which are finite.         *)
(***************************************************************************)

\* A set of numbers that is not empty has a least element.
LEMMA LeastNumber ==
  ASSUME NEW T \in SUBSET Nat, T # {}
  PROVE  \E x \in T : \A y \in T : x <= y
<1> DEFINE F == {0..x : x \in T}
           R == StrictSubsetOrdering(Nat)
<1>1. F \subseteq FiniteSubsetsOf(Nat)
  <2>1. \A x \in T : IsFiniteSet(0..x) /\ 0..x \subseteq Nat
    BY FS_Interval
  <2>2. QED
    BY <2>1 DEF FiniteSubsetsOf
<1>2. F # {}
  OBVIOUS
<1>3. IsWellFoundedOn(R, FiniteSubsetsOf(Nat))
  BY FS_StrictSubsetOrderingWellFounded
<1>4. \E S \in F : \A U \in F : ~(<<U, S>> \in R)
  <2> HIDE DEF F, R
  <2> QED BY <1>1, <1>2, <1>3, WFMin
<1>5. PICK x \in T : \A y \in T : <<0..y, 0..x>> \notin R
  BY <1>4
<1>6. ASSUME NEW y \in T PROVE x <= y
  <2>1. SUFFICES ASSUME y < x PROVE FALSE
    OBVIOUS
  <2>2. 0..y \subseteq 0..x /\ x \in 0..x /\ x \notin 0..y
    BY <2>1
  <2>3. 0..y # 0..x
    BY <2>2
  <2>4. 0..y \in SUBSET Nat /\ 0..x \in SUBSET Nat
    OBVIOUS
  <2>5. QED
    BY <1>5, <2>2, <2>3, <2>4 DEF StrictSubsetOrdering
<1>7. QED
  BY <1>6

\* What holds of 0, and of i + 1 when it holds of i, holds up to n.
LEMMA UpTo ==
  ASSUME NEW n \in Nat, NEW S, 0 \in S,
         \A i \in 0..(n - 1) : i \in S => i + 1 \in S
  PROVE  0..n \subseteq S
<1>1. SUFFICES ASSUME (0..n) \ S # {} PROVE FALSE
  OBVIOUS
<1>2. PICK x \in (0..n) \ S : \A y \in (0..n) \ S : x <= y
  <2>1. (0..n) \ S \in SUBSET Nat
    OBVIOUS
  <2>2. QED
    BY <1>1, <2>1, LeastNumber
<1>3. x # 0
  OBVIOUS
<1>4. x - 1 \in 0..(n-1) /\ x - 1 \in S
  BY <1>2, <1>3
<1>5. QED
  BY <1>4, <1>2

-----------------------------------------------------------------------------
(***************************************************************************)
(* What is sent and kept.                                                  *)
(***************************************************************************)
\* Events that carry the whole game, the moves, all that carry a board, the others,
\* and those that clear the pending move.
Full == {"GAME_STARTED", "RECONNECT_ACK", "STATE_SYNC_SNAPSHOT"}
MoveTypes == {"MOVE_ACK", "MOVE_BROADCAST"}
BoardTypes == Full \cup MoveTypes \cup {"MOVE_REJECTED", "GAME_FINISHED"}
NoticeTypes == {"REMATCH_DECLINED", "REMATCH_EXPIRED", "OPPONENT_DISCONNECTED",
                "OPPONENT_RECONNECTED", "READY"}
Clearing == {"MOVE_ACK", "MOVE_REJECTED", "GAME_FINISHED", "GAME_STARTED",
             "RECONNECT_ACK", "STATE_SYNC_SNAPSHOT"}

\* Events, entries of the buffer, clients and commands, with the types of their fields.
RoomEvents ==
  [type : BoardTypes, seq : Nat \ {0}, game : Games]
    \cup [type : NoticeTypes, seq : Nat \ {0}]
    \cup [type : {"REMATCH_REQUESTED"}, seq : Nat \ {0}, by : Symbols]
Replays == [type : {"STATE_SYNC_REPLAY"}, seq : Nat, events : Seq(RoomEvents)]
Events == RoomEvents \cup Replays
Messages == [to : SUBSET Symbols, keep : SUBSET Symbols, event : RoomEvents]

Clients ==
  [lastSeq : Nat, storeSeq : Nat, view : Games, pending : BOOLEAN,
   rematch : {"NONE", "REQUESTED_BY_ME", "REQUESTED_BY_THEM", "DECLINED", "EXPIRED"},
   opponentAway : BOOLEAN]

CommandRecords ==
  [type : {"MAKE_MOVE"}, id : 0..MaxGames, moves : 0..MaxMoves]
    \cup [type : {"SYNC_REQUEST"}, fromSeq : Nat]
    \cup [type : {"RECONNECT"}, lastReceivedSeq : Nat]
    \cup [type : {"REQUEST_REMATCH", "ACCEPT_REMATCH", "DECLINE_REMATCH"},
          id : 0..(MaxGames - 1)]

-----------------------------------------------------------------------------
(***************************************************************************)
(* The client: what one event does to what it shows.                       *)
(***************************************************************************)

\* d is a client like c after the event e.
Reduces(c, e, d) ==
  /\ e.type \in Full => d.view = e.game
  /\ e.type \in MoveTypes =>
       d.view = [c.view EXCEPT !.moves = e.game.moves,
                               !.turn = IF e.game.status = "FINISHED" THEN @
                                        ELSE e.game.turn]
  /\ e.type = "MOVE_REJECTED" =>
       d.view = [c.view EXCEPT !.moves = e.game.moves, !.turn = e.game.turn]
  /\ e.type = "GAME_FINISHED" =>
       d.view = [c.view EXCEPT !.moves = e.game.moves, !.status = "FINISHED"]
  /\ e.type \notin BoardTypes => d.view = c.view
  /\ e.type \in Clearing => d.pending = FALSE
  /\ e.type \notin Clearing => d.pending = c.pending
  /\ e.type = "OPPONENT_DISCONNECTED" => d.opponentAway = TRUE
  /\ e.type = "OPPONENT_RECONNECTED" => d.opponentAway = FALSE
  /\ e.type \notin {"OPPONENT_DISCONNECTED", "OPPONENT_RECONNECTED"} =>
       d.opponentAway = c.opponentAway

\* An event makes a client of a client, and changes what Reduces says.
LEMMA Reduced ==
  ASSUME NEW me \in Symbols, NEW c \in Clients, NEW e \in RoomEvents
  PROVE  /\ reduce(me, c, e) \in Clients
         /\ Reduces(c, e, reduce(me, c, e))
<1> USE DEF Clients, Games
<1>1. e.seq \in Nat
  BY DEF RoomEvents
<1>2. ASSUME e.type \in BoardTypes PROVE e.game \in Games
  BY <1>2 DEF RoomEvents, BoardTypes, Full, MoveTypes, NoticeTypes
<1>3. e.type \in BoardTypes \cup NoticeTypes \cup {"REMATCH_REQUESTED"}
  BY DEF RoomEvents
<1>4. CASE e.type = "GAME_STARTED"
  BY <1>1, <1>2, <1>4 DEF reduce, Reduces, BoardTypes, Full, MoveTypes, Clearing
<1>5. CASE e.type \in {"RECONNECT_ACK", "STATE_SYNC_SNAPSHOT"}
  BY <1>1, <1>2, <1>5 DEF reduce, Reduces, BoardTypes, Full, MoveTypes, Clearing
<1>6. CASE e.type = "MOVE_ACK"
  BY <1>1, <1>2, <1>6 DEF reduce, moved, Reduces, BoardTypes, Full, MoveTypes, Clearing
<1>7. CASE e.type = "MOVE_BROADCAST"
  BY <1>1, <1>2, <1>7 DEF reduce, moved, Reduces, BoardTypes, Full, MoveTypes, Clearing
<1>8. CASE e.type = "MOVE_REJECTED"
  BY <1>1, <1>2, <1>8 DEF reduce, Reduces, BoardTypes, Full, MoveTypes, Clearing
<1>9. CASE e.type = "GAME_FINISHED"
  BY <1>1, <1>2, <1>9 DEF reduce, Reduces, BoardTypes, Full, MoveTypes, Clearing
<1>10. CASE e.type \in {"REMATCH_REQUESTED", "REMATCH_DECLINED", "REMATCH_EXPIRED"}
  BY <1>1, <1>10 DEF reduce, Reduces, BoardTypes, Full, MoveTypes, Clearing
<1>11. CASE e.type \in {"OPPONENT_DISCONNECTED", "OPPONENT_RECONNECTED", "READY"}
  BY <1>1, <1>11 DEF reduce, Reduces, BoardTypes, Full, MoveTypes, Clearing
<1>12. QED
  BY <1>3, <1>4, <1>5, <1>6, <1>7, <1>8, <1>9, <1>10, <1>11
     DEF BoardTypes, Full, MoveTypes, NoticeTypes

\* The clients on the way through a replay.
Path(me, c, es, f) ==
  /\ f \in [0..Len(es) -> Clients]
  /\ f[0] = c
  /\ \A i \in 1..Len(es) : /\ f[i] = reduce(me, f[i - 1], es[i])
                           /\ Reduces(f[i - 1], es[i], f[i])

\* A replay goes through clients, one for each event: the recursive function of
\* replay has values.
LEMMA ReplayPath ==
  ASSUME NEW me \in Symbols, NEW c \in Clients, NEW es \in Seq(RoomEvents)
  PROVE  \E f : Path(me, c, es, f) /\ replay(me, c, es) = f[Len(es)]
<1> DEFINE n == Len(es)
           Step(f, i) == IF i = 0 THEN c ELSE reduce(me, f[i - 1], es[i])
           T == {m \in 0..n : \E f : f = [i \in 0..m |-> Step(f, i)]}
<1>1. n \in Nat /\ \A i \in 1..n : es[i] \in RoomEvents
  OBVIOUS
<1>2. 0 \in T
  <2>1. [i \in 0..0 |-> c] = [i \in 0..0 |-> Step([j \in 0..0 |-> c], i)]
    OBVIOUS
  <2>2. \E f : f = [i \in 0..0 |-> Step(f, i)]
    <3> DEFINE g == [i \in 0..0 |-> c]
    <3>1. g = [i \in 0..0 |-> Step(g, i)]
      BY <2>1
    <3> HIDE DEF g, Step
    <3>2. QED
      BY <3>1
  <2>3. QED
    BY <1>1, <2>2
<1>3. ASSUME NEW m \in 0..(n - 1), m \in T PROVE m + 1 \in T
  <2>1. PICK f : f = [i \in 0..m |-> Step(f, i)]
    BY <1>3
  <2> DEFINE g == [i \in 0..(m + 1) |-> IF i <= m THEN f[i] ELSE reduce(me, f[m], es[m + 1])]
  <2>2. \A i \in 0..(m + 1) : g[i] = Step(g, i)
    <3> SUFFICES ASSUME NEW i \in 0..(m + 1) PROVE g[i] = Step(g, i)
      OBVIOUS
    <3>1. CASE i = m + 1
      BY <3>1
    <3>2. CASE i \in 1..m
      <4>1. g[i] = f[i] /\ g[i - 1] = f[i - 1]
        BY <3>2
      <4>2. f[i] = Step(f, i)
        BY <2>1, <3>2
      <4>3. QED
        BY <3>2, <4>1, <4>2
    <3>3. CASE i = 0
      <4>1. g[0] = f[0] /\ f[0] = Step(f, 0)
        BY <2>1
      <4>2. QED
        BY <3>3, <4>1
    <3>4. QED
      BY <3>1, <3>2, <3>3
  <2>3. g = [i \in 0..(m + 1) |-> Step(g, i)]
    <3> HIDE DEF Step
    <3> QED BY <2>2
  <2>4. m + 1 \in 0..n
    BY <1>1
  <2> HIDE DEF g
  <2>5. QED
    BY <2>3, <2>4
<1>4. n \in T
  <2> HIDE DEF T
  <2>1. 0..n \subseteq T
    BY <1>1, <1>2, <1>3, UpTo
  <2>2. QED
    BY <1>1, <2>1
<1>5. PICK f : f = [i \in 0..n |-> Step(f, i)] /\ replay(me, c, es) = f[n]
  <2>1. \E f : f = [i \in 0..Len(es) |-> IF i = 0 THEN c ELSE reduce(me, f[i - 1], es[i])]
    BY <1>4
  <2>2. QED
    BY <2>1 DEF replay
<1>6. ASSUME NEW i \in 0..n PROVE f[i] \in Clients
  <2> DEFINE S == {j \in 0..n : f[j] \in Clients}
  <2>1. 0 \in S
    BY <1>1, <1>5
  <2>2. ASSUME NEW j \in 0..(n - 1), j \in S PROVE j + 1 \in S
    <3>1. f[j + 1] = reduce(me, f[j], es[j + 1])
      BY <1>1, <1>5
    <3>2. QED
      BY <1>1, <2>2, <3>1, Reduced
  <2>3. QED
    <3> HIDE DEF S
    <3>1. 0..n \subseteq S
      BY <1>1, <2>1, <2>2, UpTo
    <3>2. QED
      BY <3>1 DEF S
<1>7. ASSUME NEW i \in 1..n
      PROVE  f[i] = reduce(me, f[i - 1], es[i]) /\ Reduces(f[i - 1], es[i], f[i])
  <2>1. i \in 0..n /\ i - 1 \in 0..n /\ f[i] = reduce(me, f[i - 1], es[i])
    BY <1>1, <1>5
  <2>2. QED
    BY <1>1, <1>6, <2>1, Reduced
<1>8. f \in [0..n -> Clients] /\ f[0] = c
  BY <1>1, <1>5, <1>6
<1>9. QED
  BY <1>5, <1>7, <1>8 DEF Path

\* A replay that brings one event that clears the pending mark clears it.
LEMMA ReplayClears ==
  ASSUME NEW me, NEW c, NEW es \in Seq(RoomEvents), NEW f, Path(me, c, es, f),
         NEW k \in 1..Len(es), es[k].type \in Clearing
  PROVE  f[Len(es)].pending = FALSE
<1> DEFINE n == Len(es)
           S == {j \in 0..n : j >= k => f[j].pending = FALSE}
<1>1. n \in Nat /\ k \in 1..n
  OBVIOUS
<1>2. 0 \in S
  BY <1>1
<1>3. ASSUME NEW j \in 0..(n - 1), j \in S PROVE j + 1 \in S
  <2>1. Reduces(f[j], es[j + 1], f[j + 1])
    <3>1. j + 1 \in 1..Len(es) /\ (j + 1) - 1 = j
      BY <1>1
    <3>2. QED
      BY <3>1 DEF Path
  <2>2. CASE j + 1 = k
    BY <1>1, <2>1, <2>2 DEF Reduces
  <2>3. CASE j + 1 # k
    BY <1>1, <1>3, <2>1, <2>3 DEF Reduces
  <2>4. QED
    BY <2>2, <2>3
<1>4. 0..n \subseteq S
  <2> HIDE DEF S
  <2> QED BY <1>1, <1>2, <1>3, UpTo
<1>5. QED
  BY <1>1, <1>4

\* One that brings none leaves the game and its status as they are.
LEMMA ReplayKeepsGame ==
  ASSUME NEW me, NEW c, NEW es \in Seq(RoomEvents), NEW f, Path(me, c, es, f),
         \A k \in 1..Len(es) : es[k].type \notin Clearing
  PROVE  f[Len(es)].view.id = c.view.id /\ f[Len(es)].view.status = c.view.status
<1> DEFINE n == Len(es)
           S == {j \in 0..n : f[j].view.id = c.view.id /\ f[j].view.status = c.view.status}
<1>1. n \in Nat
  OBVIOUS
<1>2. 0 \in S
  BY <1>1 DEF Path
<1>3. ASSUME NEW j \in 0..(n - 1), j \in S PROVE j + 1 \in S
  <2>1. /\ j + 1 \in 1..Len(es) /\ (j + 1) - 1 = j
        /\ f[j] \in Clients
    BY <1>1 DEF Path
  <2>2. Reduces(f[j], es[j + 1], f[j + 1]) /\ es[j + 1].type \notin Clearing
    BY <2>1 DEF Path
  <2>3. es[j + 1].type \in MoveTypes \/ es[j + 1].type \notin BoardTypes
    BY <2>2 DEF Clearing, BoardTypes, Full, MoveTypes
  <2>4. f[j + 1].view.id = f[j].view.id /\ f[j + 1].view.status = f[j].view.status
    BY <2>1, <2>2, <2>3 DEF Reduces, Clients, Games
  <2>5. QED
    BY <1>1, <1>3, <2>1, <2>4
<1>4. 0..n \subseteq S
  <2> HIDE DEF S
  <2> QED BY <1>1, <1>2, <1>3, UpTo
<1>5. QED
  BY <1>1, <1>4

\* What matters of a client here: the view, and whether the opponent is away.
Alike(c, d) == c.view = d.view /\ c.opponentAway = d.opponentAway

\* An event makes like clients alike.
LEMMA ReducesAlike ==
  ASSUME NEW c, NEW c1, NEW e \in RoomEvents, NEW d, NEW d1,
         Reduces(c, e, c1), Reduces(d, e, d1), Alike(c, d)
  PROVE  Alike(c1, d1)
<1>1. e.type \in BoardTypes \/ e.type \notin BoardTypes
  OBVIOUS
<1>2. QED
  BY DEF Reduces, Alike, BoardTypes

\* Replayed events make like clients alike.
LEMMA ReplayAlike ==
  ASSUME NEW me, NEW c, NEW d, NEW es \in Seq(RoomEvents), NEW f, NEW g,
         Path(me, c, es, f), Path(me, d, es, g), Alike(c, d)
  PROVE  Alike(f[Len(es)], g[Len(es)])
<1> DEFINE n == Len(es)
           S == {j \in 0..n : Alike(f[j], g[j])}
<1>1. n \in Nat
  OBVIOUS
<1>2. 0 \in S
  BY <1>1 DEF Path
<1>3. ASSUME NEW j \in 0..(n - 1), j \in S PROVE j + 1 \in S
  <2>1. j + 1 \in 1..Len(es) /\ (j + 1) - 1 = j
    BY <1>1
  <2>2. /\ Reduces(f[j], es[j + 1], f[j + 1])
        /\ Reduces(g[j], es[j + 1], g[j + 1])
        /\ es[j + 1] \in RoomEvents
    BY <2>1 DEF Path
  <2>3. Alike(f[j + 1], g[j + 1])
    BY <1>3, <2>2, ReducesAlike
  <2>4. QED
    BY <1>1, <2>1, <2>3
<1>4. 0..n \subseteq S
  <2> HIDE DEF S
  <2> QED BY <1>1, <1>2, <1>3, UpTo
<1>5. QED
  BY <1>1, <1>4

\* A frame with one event.
LEMMA FrameOfEvent ==
  ASSUME NEW me \in Symbols, NEW c \in Clients, NEW e \in RoomEvents
  PROVE  /\ handleFrame(me, c, e) \in Clients
         /\ Reduces(c, e, handleFrame(me, c, e))
<1> DEFINE last == IF IsStateSync(e) \/ e.type = "GAME_STARTED" \/ e.seq = c.lastSeq + 1
                   THEN e.seq ELSE c.lastSeq
           c1 == [c EXCEPT !.lastSeq = last]
           d == reduce(me, c1, e)
<1>1. e.seq \in Nat /\ e.type # "STATE_SYNC_REPLAY"
  BY DEF RoomEvents, BoardTypes, Full, MoveTypes, NoticeTypes
<1>2. last \in Nat
  BY <1>1 DEF Clients
<1>3. /\ c1 \in Clients
      /\ c1.view = c.view /\ c1.pending = c.pending /\ c1.opponentAway = c.opponentAway
  <2> HIDE DEF last
  <2> QED BY <1>2 DEF Clients
<1>4. d \in Clients /\ Reduces(c1, e, d)
  <2> HIDE DEF c1
  <2> QED BY <1>3, Reduced
<1>5. Reduces(c, e, d)
  <2> HIDE DEF c1, d
  <2> QED BY <1>3, <1>4 DEF Reduces
<1>6. handleFrame(me, c, e) = IF IsStateSync(e) THEN [d EXCEPT !.lastSeq = e.seq] ELSE d
  BY <1>1 DEF handleFrame, dispatchEvent
<1>7. /\ [d EXCEPT !.lastSeq = e.seq] \in Clients
      /\ Reduces(c, e, [d EXCEPT !.lastSeq = e.seq])
  <2> HIDE DEF d
  <2>1. /\ [d EXCEPT !.lastSeq = e.seq] \in Clients
        /\ [d EXCEPT !.lastSeq = e.seq].view = d.view
        /\ [d EXCEPT !.lastSeq = e.seq].pending = d.pending
        /\ [d EXCEPT !.lastSeq = e.seq].opponentAway = d.opponentAway
    BY <1>1, <1>4 DEF Clients
  <2>2. QED
    BY <1>5, <2>1 DEF Reduces
<1>8. QED
  <2> HIDE DEF d
  <2> QED BY <1>4, <1>5, <1>6, <1>7

\* A frame with a replay.
Replayed(me, c, e, f, d) ==
  /\ Path(me, f[0], e.events, f)
  /\ Alike(c, f[0]) /\ f[0].pending = c.pending
  /\ Alike(f[Len(e.events)], d) /\ d.pending = f[Len(e.events)].pending

\* A frame with a replay applies its events one after the other.
LEMMA FrameOfReplay ==
  ASSUME NEW me \in Symbols, NEW c \in Clients, NEW e \in Replays
  PROVE  /\ handleFrame(me, c, e) \in Clients
         /\ \E f : Replayed(me, c, e, f, handleFrame(me, c, e))
<1> DEFINE c1 == [c EXCEPT !.lastSeq = e.seq]
           d == replay(me, c1, e.events)
           n == Len(e.events)
<1>1. e.seq \in Nat /\ e.type = "STATE_SYNC_REPLAY" /\ e.events \in Seq(RoomEvents)
  BY DEF Replays
<1>2. c1 \in Clients /\ Alike(c, c1) /\ c1.pending = c.pending
  BY <1>1 DEF Clients, Alike
<1>3. PICK f : Path(me, c1, e.events, f) /\ d = f[n]
  <2> HIDE DEF c1
  <2> QED BY <1>1, <1>2, ReplayPath
<1>4. f[0] = c1 /\ d \in Clients
  BY <1>1, <1>3 DEF Path
<1>5. handleFrame(me, c, e) = [[d EXCEPT !.storeSeq = e.seq] EXCEPT !.lastSeq = e.seq]
  BY <1>1 DEF handleFrame, dispatchEvent, IsStateSync
<1>6. /\ handleFrame(me, c, e) \in Clients
      /\ Alike(d, handleFrame(me, c, e))
      /\ handleFrame(me, c, e).pending = d.pending
  <2> HIDE DEF d
  <2> QED BY <1>1, <1>4, <1>5 DEF Clients, Alike
<1>7. Replayed(me, c, e, f, handleFrame(me, c, e))
  <2> HIDE DEF c1, d
  <2> QED BY <1>2, <1>3, <1>4, <1>6 DEF Replayed
<1>8. QED
  BY <1>6, <1>7

\* Every frame: its type, and that like clients stay alike.
LEMMA FrameType ==
  ASSUME NEW me \in Symbols, NEW c \in Clients, NEW e \in Events
  PROVE  handleFrame(me, c, e) \in Clients
BY FrameOfEvent, FrameOfReplay DEF Events

\* A frame makes like clients alike: what a client shows next does not depend on
\* its numbers, its pending move or its rematch controls.
LEMMA FrameAlike ==
  ASSUME NEW me \in Symbols, NEW c \in Clients, NEW d \in Clients, NEW e \in Events,
         Alike(c, d)
  PROVE  Alike(handleFrame(me, c, e), handleFrame(me, d, e))
<1>1. CASE e \in RoomEvents
  BY <1>1, FrameOfEvent, ReducesAlike
<1>2. CASE e \in Replays
  <2>1. PICK f : Replayed(me, c, e, f, handleFrame(me, c, e))
    BY <1>2, FrameOfReplay
  <2>2. PICK g : Replayed(me, d, e, g, handleFrame(me, d, e))
    BY <1>2, FrameOfReplay
  <2>3. Alike(f[0], g[0]) /\ e.events \in Seq(RoomEvents)
    BY <1>2, <2>1, <2>2 DEF Replayed, Alike, Replays
  <2>4. Alike(f[Len(e.events)], g[Len(e.events)])
    BY <2>1, <2>2, <2>3, ReplayAlike DEF Replayed
  <2>5. QED
    BY <2>1, <2>2, <2>4 DEF Replayed, Alike
<1>3. QED
  BY <1>1, <1>2 DEF Events

\* A frame that tells of no event that clears the mark leaves the game and its
\* status; one that does, clears it.
LEMMA FrameKeepsGame ==
  ASSUME NEW me \in Symbols, NEW c \in Clients, NEW e \in Events,
         \A x \in Told(e) : x.type \notin Clearing
  PROVE  LET d == handleFrame(me, c, e) IN
         d.view.id = c.view.id /\ d.view.status = c.view.status
<1>1. CASE e \in RoomEvents
  <2>1. e.type \notin Clearing
    BY <1>1 DEF Told, RoomEvents, BoardTypes, Full, MoveTypes, NoticeTypes
  <2>2. e.type \in MoveTypes \/ e.type \notin BoardTypes
    BY <2>1 DEF Clearing, BoardTypes, Full, MoveTypes
  <2>3. Reduces(c, e, handleFrame(me, c, e))
    BY <1>1, FrameOfEvent
  <2>4. QED
    BY <2>2, <2>3 DEF Reduces, Clients, Games
<1>2. CASE e \in Replays
  <2>1. PICK f : Replayed(me, c, e, f, handleFrame(me, c, e))
    BY <1>2, FrameOfReplay
  <2>2. e.events \in Seq(RoomEvents) /\ e.type = "STATE_SYNC_REPLAY"
    BY <1>2 DEF Replays
  <2>3. \A k \in 1..Len(e.events) : e.events[k].type \notin Clearing
    BY <2>2 DEF Told
  <2>4. /\ f[Len(e.events)].view.id = f[0].view.id
        /\ f[Len(e.events)].view.status = f[0].view.status
    BY <2>1, <2>2, <2>3, ReplayKeepsGame DEF Replayed
  <2>5. QED
    BY <2>1, <2>4 DEF Replayed, Alike
<1>3. QED
  BY <1>1, <1>2 DEF Events

\* A frame that brings an answer clears the pending move.
LEMMA FrameClears ==
  ASSUME NEW me \in Symbols, NEW c \in Clients, NEW e \in Events,
         NEW x \in Told(e), x.type \in Clearing
  PROVE  handleFrame(me, c, e).pending = FALSE
<1>1. CASE e \in RoomEvents
  <2>1. e.type \in Clearing
    BY <1>1 DEF Told, RoomEvents, BoardTypes, Full, MoveTypes, NoticeTypes
  <2>2. Reduces(c, e, handleFrame(me, c, e))
    BY <1>1, FrameOfEvent
  <2>3. QED
    BY <2>1, <2>2 DEF Reduces
<1>2. CASE e \in Replays
  <2>1. PICK f : Replayed(me, c, e, f, handleFrame(me, c, e))
    BY <1>2, FrameOfReplay
  <2>2. e.events \in Seq(RoomEvents) /\ e.type = "STATE_SYNC_REPLAY"
    BY <1>2 DEF Replays
  <2>3. PICK k \in 1..Len(e.events) : e.events[k].type \in Clearing
    BY <2>2 DEF Told
  <2>4. QED
    BY <2>1, <2>2, <2>3, ReplayClears DEF Replayed
<1>3. QED
  BY <1>1, <1>2 DEF Events

\* A pending mark is not set by a frame.
LEMMA FramePending ==
  ASSUME NEW me \in Symbols, NEW c \in Clients, NEW e \in Events,
         handleFrame(me, c, e).pending
  PROVE  c.pending
<1>1. CASE e \in RoomEvents
  BY <1>1, FrameOfEvent DEF Reduces
<1>2. CASE e \in Replays
  <2>1. PICK f : Replayed(me, c, e, f, handleFrame(me, c, e))
    BY <1>2, FrameOfReplay
  <2> DEFINE n == Len(e.events)
             S == {j \in 0..n : f[j].pending => c.pending}
  <2>2. n \in Nat
    BY <1>2 DEF Replays
  <2>3. 0 \in S
    BY <2>1, <2>2 DEF Replayed
  <2>4. ASSUME NEW j \in 0..(n - 1), j \in S PROVE j + 1 \in S
    <3>1. j + 1 \in 1..n /\ (j + 1) - 1 = j
      BY <2>2
    <3>2. Reduces(f[j], e.events[j + 1], f[j + 1])
      BY <2>1, <3>1 DEF Replayed, Path
    <3>3. f[j + 1].pending => c.pending
      BY <2>4, <3>2 DEF Reduces
    <3>4. QED
      BY <2>2, <3>1, <3>3
  <2>5. 0..n \subseteq S
    <3> HIDE DEF S
    <3> QED BY <2>2, <2>3, <2>4, UpTo
  <2>6. QED
    BY <2>1, <2>2, <2>5 DEF Replayed
<1>3. QED
  BY <1>1, <1>2 DEF Events

-----------------------------------------------------------------------------
(***************************************************************************)
(* The replay buffer.  What its entries for s tell: of the board (Tells),  *)
(* of the end of the game (TellsEnd), of the presence of the opponent      *)
(* (TellsPresence).  Each is about the events E[i] with i in I, so that it *)
(* can be said of the buffer and of what is replayed from it.              *)
(***************************************************************************)
Before(v, w) == v.id < w.id \/ (v.id = w.id /\ v.moves <= w.moves)

\* h has the board of g, and the turn while it matters; v shows g.
OnBoard(h, g) == h.moves = g.moves /\ (g.status = "ACTIVE" => h.turn = g.turn)

Current(v, g) == v.id = g.id /\ v.status = g.status /\ OnBoard(v, g)

\* An event about a board of g that is not the last one is followed by one that is.
Tells(E, I, g) ==
  \A i \in I : E[i].type \in BoardTypes =>
    /\ E[i].game.id = g.id /\ E[i].game.moves <= g.moves
    /\ E[i].game.status = "FINISHED" => g.status = "FINISHED"
    /\ \/ OnBoard(E[i].game, g)
       \/ \E j \in I : i < j /\ E[j].type \in BoardTypes /\ OnBoard(E[j].game, g)

\* The start of a game that has ended is followed by its end.
TellsEnd(E, I, status) ==
  \A i \in I :
    /\ E[i].type \notin {"RECONNECT_ACK", "STATE_SYNC_SNAPSHOT"}
    /\ E[i].type = "GAME_STARTED" =>
         /\ E[i].game.status = "ACTIVE"
         /\ status = "ACTIVE" \/ \E j \in I : i < j /\ E[j].type = "GAME_FINISHED"
    /\ E[i].type = "GAME_FINISHED" => status = "FINISHED"

\* Somebody keeps the connection.
OneUnlucky == Unlucky # Symbols

\* With one unlucky player: who is told to be gone is, or is told to be back.
TellsPresence(E, I, s, gone) ==
  \A i \in I : E[i].type = "OPPONENT_DISCONNECTED" /\ OneUnlucky =>
    /\ opponent(s) \in Unlucky
    /\ gone \/ \E j \in I : i < j /\ E[j].type = "OPPONENT_RECONNECTED"

\* The events of the buffer B, where those for s are, and their numbering up to n.
EventsOf(B) == [i \in 1..Len(B) |-> B[i].event]
KeptFor(B, s) == {i \in 1..Len(B) : s \in B[i].keep}

Ordered(B, n) ==
  /\ \A i \in 1..Len(B) : B[i].event.seq <= n
  /\ \A i, j \in 1..Len(B) : i < j => B[i].event.seq < B[j].event.seq

\* push drops at most the first entry and adds the last.
LEMMA PushShape ==
  ASSUME NEW B \in Seq(Messages), Len(B) <= BufferSize, NEW m \in Messages
  PROVE  /\ push(B, m) \in Seq(Messages)
         /\ Len(push(B, m)) \in 1..BufferSize
         /\ push(B, m)[Len(push(B, m))] = m
         /\ \E d \in {0, 1} :
              /\ Len(push(B, m)) = Len(B) + 1 - d
              /\ \A i \in 1..(Len(push(B, m)) - 1) :
                   i + d \in 1..Len(B) /\ push(B, m)[i] = B[i + d]
<1>1. BufferSize \in Nat \ {0} /\ Len(B) \in Nat
  BY BoundsAssumption
<1>2. CASE Len(B) < BufferSize
  <2>1. push(B, m) = Append(B, m)
    BY <1>2 DEF push
  <2>2. /\ Append(B, m) \in Seq(Messages) /\ Len(Append(B, m)) = Len(B) + 1
        /\ Append(B, m)[Len(B) + 1] = m
        /\ \A i \in 1..Len(B) : Append(B, m)[i] = B[i]
    OBVIOUS
  <2>3. \A i \in 1..Len(B) : i + 0 \in 1..Len(B) /\ Append(B, m)[i] = B[i + 0]
    BY <2>2
  <2>4. (Len(B) + 1) - 1 = Len(B) /\ Len(B) + 1 = Len(B) + 1 - 0
    BY <1>1
  <2> DEFINE P == push(B, m)
  <2>5. /\ P \in Seq(Messages) /\ Len(P) = Len(B) + 1 - 0 /\ P[Len(P)] = m
        /\ \A i \in 1..(Len(P) - 1) : i + 0 \in 1..Len(B) /\ P[i] = B[i + 0]
    BY <1>1, <2>1, <2>2, <2>3, <2>4
  <2>6. Len(P) \in 1..BufferSize
    BY <1>1, <1>2, <2>5
  <2> HIDE DEF P
  <2>7. \E d \in {0, 1} : /\ Len(P) = Len(B) + 1 - d
                          /\ \A i \in 1..(Len(P) - 1) :
                               i + d \in 1..Len(B) /\ P[i] = B[i + d]
    BY <2>5
  <2>8. QED
    BY <2>5, <2>6, <2>7 DEF P
<1>3. CASE Len(B) = BufferSize
  <2>1. push(B, m) = Append(Tail(B), m)
    BY <1>1, <1>3 DEF push
  <2>2. B # <<>>
    BY <1>1, <1>3
  <2>3. /\ Tail(B) \in Seq(Messages) /\ Len(Tail(B)) = Len(B) - 1
        /\ \A i \in 1..(Len(B) - 1) : Tail(B)[i] = B[i + 1]
    BY <2>2
  <2>4. /\ Append(Tail(B), m) \in Seq(Messages)
        /\ Len(Append(Tail(B), m)) = Len(B)
        /\ Append(Tail(B), m)[Len(B)] = m
        /\ \A i \in 1..(Len(B) - 1) : Append(Tail(B), m)[i] = B[i + 1]
    BY <1>1, <1>3, <2>3
  <2>5. \A i \in 1..(Len(B) - 1) : i + 1 \in 1..Len(B)
    BY <1>1
  <2>6. QED
    BY <1>1, <1>3, <2>1, <2>4, <2>5
<1>4. QED
  BY <1>1, <1>2, <1>3

\* The event of a message is one of the room.
LEMMA MessageSeq == \A m \in Messages : m.event.seq \in Nat /\ m.event \in RoomEvents
BY DEF Messages, RoomEvents

\* push keeps the entries in the order of their numbers.
LEMMA PushOrdered ==
  ASSUME NEW B \in Seq(Messages), Len(B) <= BufferSize, NEW m \in Messages,
         NEW n \in Nat, Ordered(B, n), n < m.event.seq
  PROVE  Ordered(push(B, m), m.event.seq)
<1> DEFINE P == push(B, m)
<1>1. PICK d \in {0, 1} :
        /\ Len(P) = Len(B) + 1 - d
        /\ \A i \in 1..(Len(P) - 1) : i + d \in 1..Len(B) /\ P[i] = B[i + d]
  BY PushShape
<1>2. P[Len(P)] = m /\ Len(P) \in Nat /\ P \in Seq(Messages)
  BY PushShape, BoundsAssumption
<1>3. \A i \in 1..Len(B) : B[i].event.seq \in Nat /\ B[i].event.seq <= n
  <2>1. \A i \in 1..Len(B) : B[i] \in Messages
    OBVIOUS
  <2>2. QED
    BY <2>1, MessageSeq DEF Ordered
<1>4. m.event.seq \in Nat
  BY MessageSeq
<1> HIDE DEF P
<1>5. ASSUME NEW i \in 1..Len(P), i # Len(P)
      PROVE  /\ i + d \in 1..Len(B) /\ P[i] = B[i + d]
             /\ P[i].event.seq <= n /\ P[i].event.seq \in Nat
  BY <1>1, <1>2, <1>3, <1>5
<1>6. \A i \in 1..Len(P) : P[i].event.seq <= m.event.seq
  BY <1>2, <1>4, <1>5
<1>7. ASSUME NEW i \in 1..Len(P), NEW j \in 1..Len(P), i < j
      PROVE  P[i].event.seq < P[j].event.seq
  <2>1. i # Len(P)
    BY <1>2, <1>7
  <2>2. CASE j = Len(P)
    BY <1>2, <1>4, <1>5, <2>1, <2>2
  <2>3. CASE j # Len(P)
    <3>1. i + d < j + d /\ i + d \in 1..Len(B) /\ j + d \in 1..Len(B)
      BY <1>2, <1>5, <1>7, <2>1, <2>3
    <3>2. QED
      BY <1>5, <2>1, <2>3, <3>1 DEF Ordered
  <2>4. QED
    BY <2>2, <2>3
<1>8. QED
  BY <1>6, <1>7 DEF Ordered, P

\* What of a kept entry becomes of its index, and what indices stand for.
LEMMA PushKept ==
  ASSUME NEW B \in Seq(Messages), Len(B) <= BufferSize, NEW m \in Messages, NEW s
  PROVE  LET P == push(B, m)
             n == Len(P)
         IN \E d \in {0, 1} :
              /\ n \in Nat \ {0}
              /\ EventsOf(P)[n] = m.event
              /\ n \in KeptFor(P, s) <=> s \in m.keep
              /\ KeptFor(P, s) \subseteq 1..n
              /\ \A i \in KeptFor(P, s) \ {n} :
                   i + d \in KeptFor(B, s) /\ EventsOf(P)[i] = EventsOf(B)[i + d]
              /\ \A i \in KeptFor(B, s) : i > d =>
                   i - d \in KeptFor(P, s) \ {n} /\ EventsOf(P)[i - d] = EventsOf(B)[i]
<1> DEFINE P == push(B, m)
           n == Len(P)
<1>1. PICK d \in {0, 1} :
        /\ n = Len(B) + 1 - d
        /\ \A i \in 1..(n - 1) : i + d \in 1..Len(B) /\ P[i] = B[i + d]
  BY PushShape
<1>2. P[n] = m /\ n \in Nat \ {0} /\ P \in Seq(Messages)
  BY PushShape, BoundsAssumption
<1> HIDE DEF P
<1>3. Len(B) \in Nat
  OBVIOUS
<1>4. EventsOf(P)[n] = m.event /\ (n \in KeptFor(P, s) <=> s \in m.keep)
  BY <1>2 DEF EventsOf, KeptFor
<1>5. KeptFor(P, s) \subseteq 1..n
  BY DEF KeptFor
<1>6. ASSUME NEW i \in KeptFor(P, s) \ {n}
      PROVE  i + d \in KeptFor(B, s) /\ EventsOf(P)[i] = EventsOf(B)[i + d]
  <2>1. i \in 1..(n - 1) /\ i \in 1..n /\ s \in P[i].keep
    BY <1>2 DEF KeptFor
  <2>2. i + d \in 1..Len(B) /\ P[i] = B[i + d]
    BY <1>1, <2>1
  <2>3. QED
    BY <2>1, <2>2 DEF EventsOf, KeptFor
<1>7. ASSUME NEW i \in KeptFor(B, s), i > d
      PROVE  i - d \in KeptFor(P, s) \ {n} /\ EventsOf(P)[i - d] = EventsOf(B)[i]
  <2>1. i \in 1..Len(B) /\ s \in B[i].keep
    BY DEF KeptFor
  <2>2. i - d \in 1..(n - 1) /\ (i - d) + d = i /\ i - d \in 1..n /\ i - d # n
    BY <1>1, <1>2, <1>3, <1>7, <2>1
  <2>3. P[i - d] = B[i]
    BY <1>1, <2>2
  <2>4. QED
    BY <2>1, <2>2, <2>3 DEF EventsOf, KeptFor
<1>8. QED
  BY <1>2, <1>4, <1>5, <1>6, <1>7 DEF P

\* The game moves on with an event that shows it, or does not and nothing that
\* s keeps shows another.
LEMMA PushTells ==
  ASSUME NEW B \in Seq(Messages), Len(B) <= BufferSize, NEW m \in Messages, NEW s,
         NEW g \in Games, NEW h \in Games,
         Tells(EventsOf(B), KeptFor(B, s), g),
         g.id = h.id, g.moves <= h.moves, g.status = "FINISHED" => h.status = "FINISHED",
         IF s \in m.keep /\ m.event.type \in BoardTypes
         THEN /\ m.event.game.id = h.id /\ m.event.game.moves <= h.moves
              /\ m.event.game.status = "FINISHED" => h.status = "FINISHED"
              /\ OnBoard(m.event.game, h)
         ELSE g = h
  PROVE  Tells(EventsOf(push(B, m)), KeptFor(push(B, m), s), h)
<1> DEFINE P == push(B, m)
           n == Len(P)
           E == EventsOf(P)
           I == KeptFor(P, s)
           F == EventsOf(B)
           J == KeptFor(B, s)
<1>1. PICK d \in {0, 1} :
        /\ n \in Nat \ {0} /\ E[n] = m.event /\ (n \in I <=> s \in m.keep)
        /\ I \subseteq 1..n
        /\ \A i \in I \ {n} : i + d \in J /\ E[i] = F[i + d]
        /\ \A i \in J : i > d => i - d \in I \ {n} /\ E[i - d] = F[i]
  BY PushKept
<1>2. J \subseteq 1..Len(B) /\ Len(B) \in Nat
  BY DEF KeptFor
<1>3. \A i \in J : F[i].type \in BoardTypes => F[i].game.moves \in Nat
  <2>1. \A i \in J : F[i] \in RoomEvents
    BY <1>2, MessageSeq DEF EventsOf
  <2>2. QED
    BY <2>1 DEF RoomEvents, NoticeTypes, BoardTypes, Full, MoveTypes, Games
<1> HIDE DEF P, n, E, I, F, J
<1>4. \A i \in J : F[i].type \in BoardTypes =>
        /\ F[i].game.id = g.id /\ F[i].game.moves <= g.moves
        /\ F[i].game.status = "FINISHED" => g.status = "FINISHED"
        /\ \/ OnBoard(F[i].game, g)
           \/ \E j \in J : i < j /\ F[j].type \in BoardTypes /\ OnBoard(F[j].game, g)
  BY DEF Tells, F, J
<1>5. SUFFICES ASSUME NEW i \in I, E[i].type \in BoardTypes
      PROVE  /\ E[i].game.id = h.id /\ E[i].game.moves <= h.moves
             /\ E[i].game.status = "FINISHED" => h.status = "FINISHED"
             /\ \/ OnBoard(E[i].game, h)
                \/ \E j \in I : i < j /\ E[j].type \in BoardTypes /\ OnBoard(E[j].game, h)
  BY DEF Tells, P, E, I
<1>6. CASE i = n
  <2>1. s \in m.keep /\ m.event.type \in BoardTypes
    BY <1>1, <1>5, <1>6
  <2>2. QED
    BY <1>1, <1>6, <2>1
<1>7. CASE i # n
  <2>1. i + d \in J /\ E[i] = F[i + d] /\ i \in 1..n
    BY <1>1, <1>7
  <2>2. g.moves \in Nat /\ h.moves \in Nat /\ F[i + d].game.moves \in Nat
    BY <1>3, <1>5, <2>1 DEF Games
  <2>3. /\ E[i].game.id = h.id /\ E[i].game.moves <= h.moves
        /\ E[i].game.status = "FINISHED" => h.status = "FINISHED"
    BY <1>4, <1>5, <2>1, <2>2
  <2>4. CASE s \in m.keep /\ m.event.type \in BoardTypes
    <3>1. n \in I /\ i < n /\ E[n].type \in BoardTypes /\ OnBoard(E[n].game, h)
      BY <1>1, <1>7, <2>1, <2>4
    <3>2. QED
      BY <2>3, <3>1
  <2>5. CASE ~(s \in m.keep /\ m.event.type \in BoardTypes)
    <3>1. g = h
      BY <2>5
    <3>2. CASE OnBoard(F[i + d].game, g)
      BY <2>1, <2>3, <3>1, <3>2
    <3>3. CASE ~OnBoard(F[i + d].game, g)
      <4>1. PICK j \in J : i + d < j /\ F[j].type \in BoardTypes /\ OnBoard(F[j].game, g)
        BY <1>4, <1>5, <2>1, <3>3
      <4>2. j \in Nat /\ j > d
        BY <1>2, <2>1, <4>1
      <4>3. j - d \in I /\ E[j - d] = F[j] /\ i < j - d
        BY <1>1, <1>2, <2>1, <4>1, <4>2
      <4>4. QED
        BY <2>3, <3>1, <4>1, <4>3
    <3>4. QED
      BY <3>2, <3>3
  <2>6. QED
    BY <2>4, <2>5
<1>8. QED
  BY <1>6, <1>7

\* push keeps what the buffer tells of the end of the game.
LEMMA PushTellsEnd ==
  ASSUME NEW B \in Seq(Messages), Len(B) <= BufferSize, NEW m \in Messages, NEW s,
         NEW a, NEW b,
         TellsEnd(EventsOf(B), KeptFor(B, s), a),
         \/ a = b /\ (s \in m.keep =>
                        m.event.type \notin {"GAME_STARTED", "GAME_FINISHED",
                                             "RECONNECT_ACK", "STATE_SYNC_SNAPSHOT"})
         \/ b = "FINISHED" /\ s \in m.keep /\ m.event.type = "GAME_FINISHED"
         \/ /\ KeptFor(B, s) = {} /\ b = "ACTIVE"
            /\ m.event.type = "GAME_STARTED" /\ m.event.game.status = "ACTIVE"
  PROVE  TellsEnd(EventsOf(push(B, m)), KeptFor(push(B, m), s), b)
<1> DEFINE P == push(B, m)
           n == Len(P)
           E == EventsOf(P)
           I == KeptFor(P, s)
           F == EventsOf(B)
           J == KeptFor(B, s)
<1>1. PICK d \in {0, 1} :
        /\ n \in Nat \ {0} /\ E[n] = m.event /\ (n \in I <=> s \in m.keep)
        /\ I \subseteq 1..n
        /\ \A i \in I \ {n} : i + d \in J /\ E[i] = F[i + d]
        /\ \A i \in J : i > d => i - d \in I \ {n} /\ E[i - d] = F[i]
  BY PushKept
<1>2. J \subseteq 1..Len(B) /\ Len(B) \in Nat
  BY DEF KeptFor
<1> HIDE DEF P, n, E, I, F
<1>3. \A i \in J :
        /\ F[i].type \notin {"RECONNECT_ACK", "STATE_SYNC_SNAPSHOT"}
        /\ F[i].type = "GAME_STARTED" =>
             /\ F[i].game.status = "ACTIVE"
             /\ a = "ACTIVE" \/ \E j \in J : i < j /\ F[j].type = "GAME_FINISHED"
        /\ F[i].type = "GAME_FINISHED" => a = "FINISHED"
  BY DEF TellsEnd, F
<1>4. SUFFICES ASSUME NEW i \in I
      PROVE  /\ E[i].type \notin {"RECONNECT_ACK", "STATE_SYNC_SNAPSHOT"}
             /\ E[i].type = "GAME_STARTED" =>
                  /\ E[i].game.status = "ACTIVE"
                  /\ b = "ACTIVE" \/ \E j \in I : i < j /\ E[j].type = "GAME_FINISHED"
             /\ E[i].type = "GAME_FINISHED" => b = "FINISHED"
  BY DEF TellsEnd, P, E, I
<1>5. CASE i = n
  BY <1>1, <1>5
<1>6. CASE i # n
  <2>1. i + d \in J /\ E[i] = F[i + d] /\ i \in 1..n
    BY <1>1, <1>6
  <2>2. CASE b = "FINISHED" /\ s \in m.keep /\ m.event.type = "GAME_FINISHED"
    <3>1. n \in I /\ i < n /\ E[n].type = "GAME_FINISHED"
      BY <1>1, <1>6, <2>1, <2>2
    <3>2. QED
      BY <1>3, <2>1, <2>2, <3>1
  <2>3. CASE a = b
    <3>1. ASSUME NEW j \in J, i + d < j, F[j].type = "GAME_FINISHED"
          PROVE  j - d \in I /\ i < j - d /\ E[j - d].type = "GAME_FINISHED"
      <4>1. j \in Nat /\ j > d
        BY <1>2, <2>1, <3>1
      <4>2. QED
        BY <1>1, <1>2, <2>1, <3>1, <4>1
    <3> HIDE DEF J
    <3>2. QED
      BY <1>3, <2>1, <2>3, <3>1
  <2>4. CASE J = {}
    BY <2>1, <2>4
  <2>5. QED
    BY <2>2, <2>3, <2>4
<1>7. QED
  BY <1>5, <1>6

\* push keeps what the buffer tells of the opponent's connection.
LEMMA PushTellsPresence ==
  ASSUME NEW B \in Seq(Messages), Len(B) <= BufferSize, NEW m \in Messages,
         NEW s, NEW a \in BOOLEAN, NEW b \in BOOLEAN,
         TellsPresence(EventsOf(B), KeptFor(B, s), s, a),
         \/ a => b
         \/ s \in m.keep /\ m.event.type = "OPPONENT_RECONNECTED",
         s \in m.keep /\ m.event.type = "OPPONENT_DISCONNECTED" /\ OneUnlucky =>
           opponent(s) \in Unlucky /\ b
  PROVE  TellsPresence(EventsOf(push(B, m)), KeptFor(push(B, m), s), s, b)
<1> DEFINE P == push(B, m)
           n == Len(P)
           E == EventsOf(P)
           I == KeptFor(P, s)
           F == EventsOf(B)
           J == KeptFor(B, s)
<1>1. PICK d \in {0, 1} :
        /\ n \in Nat \ {0} /\ E[n] = m.event /\ (n \in I <=> s \in m.keep)
        /\ I \subseteq 1..n
        /\ \A i \in I \ {n} : i + d \in J /\ E[i] = F[i + d]
        /\ \A i \in J : i > d => i - d \in I \ {n} /\ E[i - d] = F[i]
  BY PushKept
<1>2. J \subseteq 1..Len(B) /\ Len(B) \in Nat
  BY DEF KeptFor
<1> HIDE DEF P, n, E, I, F, J
<1>3. \A i \in J : F[i].type = "OPPONENT_DISCONNECTED" /\ OneUnlucky =>
        /\ opponent(s) \in Unlucky
        /\ a \/ \E j \in J : i < j /\ F[j].type = "OPPONENT_RECONNECTED"
  BY DEF TellsPresence, F, J
<1>4. SUFFICES ASSUME NEW i \in I, E[i].type = "OPPONENT_DISCONNECTED", OneUnlucky
      PROVE  /\ opponent(s) \in Unlucky
             /\ b \/ \E j \in I : i < j /\ E[j].type = "OPPONENT_RECONNECTED"
  BY DEF TellsPresence, P, E, I
<1>5. CASE i = n
  BY <1>1, <1>4, <1>5
<1>6. CASE i # n
  <2>1. i + d \in J /\ E[i] = F[i + d] /\ i \in 1..n
    BY <1>1, <1>6
  <2>2. opponent(s) \in Unlucky
    BY <1>3, <1>4, <2>1
  <2>3. CASE s \in m.keep /\ m.event.type = "OPPONENT_RECONNECTED"
    BY <1>1, <1>6, <2>1, <2>2, <2>3
  <2>4. CASE a => b
    <3>1. SUFFICES ASSUME ~a
          PROVE  \E j \in I : i < j /\ E[j].type = "OPPONENT_RECONNECTED"
      BY <2>2, <2>4
    <3>2. PICK j \in J : i + d < j /\ F[j].type = "OPPONENT_RECONNECTED"
      BY <1>3, <1>4, <2>1, <3>1
    <3>3. j \in Nat /\ j > d
      BY <1>2, <2>1, <3>2
    <3>4. j - d \in I /\ i < j - d /\ E[j - d].type = "OPPONENT_RECONNECTED"
      BY <1>1, <1>2, <2>1, <3>2, <3>3
    <3>5. QED
      BY <3>4
  <2>5. QED
    BY <2>3, <2>4
<1>7. QED
  BY <1>5, <1>6

\* q is what s gets of the first m entries from the number from on; h says where
\* it was kept.
Selects(B, from, s, m, q, h) ==
  /\ q \in Seq(RoomEvents)
  /\ h \in [1..Len(q) -> KeptFor(B, s) \cap (1..m)]
  /\ \A j \in 1..Len(q) : q[j] = EventsOf(B)[h[j]] /\ q[j].seq >= from
  /\ \A i, j \in 1..Len(q) : i < j => h[i] < h[j]
  /\ \A k \in KeptFor(B, s) \cap (1..m) :
       EventsOf(B)[k].seq >= from => \E j \in 1..Len(q) : h[j] = k

\* One more entry is selected, or passed over.
LEMMA SelectsMore ==
  ASSUME NEW B \in Seq(Messages), NEW from, NEW s, NEW m \in 0..(Len(B) - 1),
         NEW q, NEW h, Selects(B, from, s, m, q, h)
  PROVE  LET q1 == IF s \in B[m + 1].keep /\ B[m + 1].event.seq >= from
                   THEN Append(q, B[m + 1].event) ELSE q
         IN \E h1 : Selects(B, from, s, m + 1, q1, h1)
<1>1. /\ m \in Nat /\ m + 1 \in 1..Len(B) /\ Len(q) \in Nat /\ q \in Seq(RoomEvents)
      /\ B[m + 1] \in Messages
  BY DEF Selects
<1>2. B[m + 1].event \in RoomEvents /\ EventsOf(B)[m + 1] = B[m + 1].event
  BY <1>1, MessageSeq DEF EventsOf
<1>3. KeptFor(B, s) \cap (1..(m + 1)) =
        (KeptFor(B, s) \cap (1..m)) \cup (IF s \in B[m + 1].keep THEN {m + 1} ELSE {})
  BY <1>1 DEF KeptFor
<1>4. CASE s \in B[m + 1].keep /\ B[m + 1].event.seq >= from
  <2> DEFINE q1 == Append(q, B[m + 1].event)
             n == Len(q)
             h1 == [j \in 1..(n + 1) |-> IF j <= n THEN h[j] ELSE m + 1]
             K == KeptFor(B, s) \cap (1..m)
  <2>1. /\ q1 \in Seq(RoomEvents) /\ Len(q1) = n + 1 /\ q1[n + 1] = B[m + 1].event
        /\ \A j \in 1..n : q1[j] = q[j]
    BY <1>1, <1>2
  <2>2. \A j \in 1..n : h1[j] = h[j] /\ h[j] \in K /\ h[j] < m + 1
    BY <1>1 DEF Selects
  <2>3. h1[n + 1] = m + 1 /\ m + 1 \in K \cup {m + 1}
    BY <1>1
  <2>4. h1 \in [1..(n + 1) -> K \cup {m + 1}]
    <3>1. \A j \in 1..(n + 1) : j \in 1..n \/ j = n + 1
      BY <1>1
    <3>2. \A j \in 1..(n + 1) : h1[j] \in K \cup {m + 1}
      <4> HIDE DEF h1, K, n
      <4> QED BY <2>2, <2>3, <3>1
    <3>3. h1 = [j \in 1..(n + 1) |-> h1[j]]
      OBVIOUS
    <3>4. QED
      <4> HIDE DEF h1, K, n
      <4> QED BY <3>2, <3>3
  <2>5. \A j \in 1..(n + 1) : q1[j] = EventsOf(B)[h1[j]] /\ q1[j].seq >= from
    <3>1. \A j \in 1..(n + 1) : j \in 1..n \/ j = n + 1
      BY <1>1
    <3>2. \A j \in 1..n : q1[j] = EventsOf(B)[h1[j]] /\ q1[j].seq >= from
      <4> HIDE DEF q1, h1
      <4> QED BY <2>1, <2>2 DEF Selects
    <3>3. q1[n + 1] = EventsOf(B)[h1[n + 1]] /\ q1[n + 1].seq >= from
      <4> HIDE DEF q1, h1
      <4> QED BY <1>2, <1>4, <2>1, <2>3
    <3>4. QED
      <4> HIDE DEF q1, h1, n
      <4> QED BY <3>1, <3>2, <3>3
  <2>6. \A i, j \in 1..(n + 1) : i < j => h1[i] < h1[j]
    <3> HIDE DEF h1
    <3>1. \A i, j \in 1..n : i < j => h1[i] < h1[j]
      BY <2>2 DEF Selects
    <3>2. \A i \in 1..n : h1[i] < h1[n + 1]
      BY <2>2, <2>3
    <3>3. \A i, j \in 1..(n + 1) : i < j => i \in 1..n /\ (j \in 1..n \/ j = n + 1)
      BY <1>1
    <3>4. QED
      BY <3>1, <3>2, <3>3
  <2>7. \A k \in K \cup {m + 1} :
          EventsOf(B)[k].seq >= from => \E j \in 1..(n + 1) : h1[j] = k
    <3> HIDE DEF h1
    <3>1. \A k \in K : EventsOf(B)[k].seq >= from => \E j \in 1..n : h1[j] = k
      BY <2>2 DEF Selects
    <3>2. 1..n \subseteq 1..(n + 1) /\ n + 1 \in 1..(n + 1)
      BY <1>1
    <3>3. QED
      BY <2>3, <3>1, <3>2
  <2>8. KeptFor(B, s) \cap (1..(m + 1)) = K \cup {m + 1}
    BY <1>3, <1>4
  <2> HIDE DEF q1, h1, K
  <2>9. Selects(B, from, s, m + 1, q1, h1)
    BY <2>1, <2>4, <2>5, <2>6, <2>7, <2>8 DEF Selects
  <2>10. QED
    BY <1>4, <2>9 DEF q1
<1>5. CASE ~(s \in B[m + 1].keep /\ B[m + 1].event.seq >= from)
  <2>1. h \in [1..Len(q) -> KeptFor(B, s) \cap (1..(m + 1))]
    BY <1>3 DEF Selects
  <2>2. \A k \in KeptFor(B, s) \cap (1..(m + 1)) :
          EventsOf(B)[k].seq >= from => \E j \in 1..Len(q) : h[j] = k
    BY <1>2, <1>3, <1>5 DEF Selects
  <2>3. Selects(B, from, s, m + 1, q, h)
    BY <2>1, <2>2 DEF Selects
  <2>4. QED
    BY <1>5, <2>3
<1>6. QED
  BY <1>4, <1>5

\* relevant selects, from the whole buffer, what its recursive function says.
LEMMA RelevantSelects ==
  ASSUME NEW B \in Seq(Messages), NEW from, NEW s
  PROVE  \E h : Selects(B, from, s, Len(B), relevant(B, from, s), h)
<1> DEFINE n == Len(B)
           More(q, i) == IF s \in B[i].keep /\ B[i].event.seq >= from
                         THEN Append(q, B[i].event) ELSE q
           Step(f, i) == IF i = 0 THEN <<>> ELSE More(f[i - 1], i)
           T == {m \in 0..n : \E f : f = [i \in 0..m |-> Step(f, i)]}
<1>1. n \in Nat
  OBVIOUS
<1>2. 0 \in T
  <2>1. \E f : f = [i \in 0..0 |-> Step(f, i)]
    <3> DEFINE g == [i \in 0..0 |-> <<>>]
    <3>1. g = [i \in 0..0 |-> Step(g, i)]
      OBVIOUS
    <3> HIDE DEF g, Step
    <3>2. QED
      BY <3>1
  <2>2. QED
    BY <1>1, <2>1
<1>3. ASSUME NEW m \in 0..(n - 1), m \in T PROVE m + 1 \in T
  <2> HIDE DEF More
  <2>1. PICK f : f = [i \in 0..m |-> Step(f, i)]
    BY <1>3
  <2> DEFINE g == [i \in 0..(m + 1) |-> IF i <= m THEN f[i] ELSE More(f[m], m + 1)]
  <2>2. \A i \in 0..(m + 1) : g[i] = Step(g, i)
    <3> SUFFICES ASSUME NEW i \in 0..(m + 1) PROVE g[i] = Step(g, i)
      OBVIOUS
    <3>1. CASE i = m + 1
      BY <3>1
    <3>2. CASE i \in 1..m
      <4>1. g[i] = f[i] /\ g[i - 1] = f[i - 1]
        BY <3>2
      <4>2. f[i] = Step(f, i)
        BY <2>1, <3>2
      <4>3. QED
        BY <3>2, <4>1, <4>2
    <3>3. CASE i = 0
      <4>1. g[0] = f[0] /\ f[0] = Step(f, 0)
        BY <2>1
      <4>2. QED
        BY <3>3, <4>1
    <3>4. QED
      BY <3>1, <3>2, <3>3
  <2>3. g = [i \in 0..(m + 1) |-> Step(g, i)]
    <3> HIDE DEF Step
    <3> QED BY <2>2
  <2>4. m + 1 \in 0..n
    BY <1>1
  <2> HIDE DEF g
  <2>5. QED
    BY <2>3, <2>4
<1>4. n \in T
  <2> HIDE DEF T
  <2>1. 0..n \subseteq T
    BY <1>1, <1>2, <1>3, UpTo
  <2>2. QED
    BY <1>1, <2>1
<1>5. PICK f : f = [i \in 0..n |-> Step(f, i)] /\ relevant(B, from, s) = f[n]
  <2>1. \E f : f = [i \in 0..Len(B) |->
                     IF i = 0 THEN <<>>
                     ELSE IF s \in B[i].keep /\ B[i].event.seq >= from
                     THEN Append(f[i - 1], B[i].event)
                     ELSE f[i - 1]]
    BY <1>4
  <2>2. QED
    BY <2>1 DEF relevant
<1>6. f[0] = <<>> /\ \A i \in 0..(n - 1) : f[i + 1] = More(f[i], i + 1)
  <2> HIDE DEF More
  <2>1. \A i \in 0..n : f[i] = Step(f, i)
    <3> HIDE DEF Step
    <3> QED BY <1>5
  <2>2. 0 \in 0..n /\ f[0] = <<>>
    BY <1>1, <2>1
  <2>3. \A i \in 0..(n - 1) : i + 1 \in 0..n /\ i + 1 # 0 /\ (i + 1) - 1 = i
    BY <1>1
  <2>4. \A i \in 0..(n - 1) : f[i + 1] = More(f[i], i + 1)
    BY <2>1, <2>3
  <2>5. QED
    BY <2>2, <2>4
<1> DEFINE S == {m \in 0..n : \E h : Selects(B, from, s, m, f[m], h)}
<1>7. 0 \in S
  <2> DEFINE h == [j \in 1..0 |-> 0]
  <2>1. h \in [1..Len(<<>>) -> KeptFor(B, s) \cap (1..0)]
    OBVIOUS
  <2>2. Selects(B, from, s, 0, <<>>, h)
    BY <2>1 DEF Selects
  <2>3. QED
    BY <1>1, <1>6, <2>2
<1>8. ASSUME NEW m \in 0..(n - 1), m \in S PROVE m + 1 \in S
  <2>1. PICK h : Selects(B, from, s, m, f[m], h)
    BY <1>8
  <2>2. \E h1 : Selects(B, from, s, m + 1, f[m + 1], h1)
    BY <1>6, <2>1, SelectsMore
  <2>3. QED
    BY <1>1, <2>2
<1>9. 0..n \subseteq S
  <2> HIDE DEF S
  <2> QED BY <1>1, <1>7, <1>8, UpTo
<1>10. \E h : Selects(B, from, s, n, f[n], h)
  BY <1>1, <1>9
<1>11. QED
  <2> HIDE DEF Step
  <2> QED BY <1>5, <1>10

\* What follows an entry that is replayed is replayed after it.
LEMMA SelectsLater ==
  ASSUME NEW B \in Seq(Messages), NEW n, Ordered(B, n), NEW from \in Nat, NEW s,
         NEW q, NEW h, Selects(B, from, s, Len(B), q, h),
         NEW i \in 1..Len(q), NEW k \in KeptFor(B, s), h[i] < k
  PROVE  \E j \in 1..Len(q) : i < j /\ q[j] = EventsOf(B)[k]
<1>1. Len(B) \in Nat /\ Len(q) \in Nat
  BY DEF Selects
<1>2. k \in 1..Len(B) /\ h[i] \in 1..Len(B) /\ h[i] \in KeptFor(B, s)
  BY <1>1 DEF Selects, KeptFor
<1>3. B[k] \in Messages /\ B[h[i]] \in Messages
  BY <1>2
<1>4. EventsOf(B)[h[i]].seq >= from /\ EventsOf(B)[h[i]].seq < EventsOf(B)[k].seq
  BY <1>2 DEF Selects, Ordered, EventsOf
<1>5. EventsOf(B)[h[i]].seq \in Nat /\ EventsOf(B)[k].seq \in Nat
  BY <1>2, <1>3, MessageSeq DEF EventsOf
<1>6. PICK j \in 1..Len(q) : h[j] = k
  BY <1>2, <1>4, <1>5 DEF Selects
<1>7. i < j
  <2>1. SUFFICES ASSUME j < i \/ j = i PROVE FALSE
    BY <1>1
  <2>2. h[j] < h[i] \/ h[j] = h[i]
    BY <2>1 DEF Selects
  <2>3. QED
    BY <1>2, <1>6, <2>2
<1>8. QED
  BY <1>6, <1>7 DEF Selects

\* What the buffer tells, its replay tells.
LEMMA ReplayTells ==
  ASSUME NEW B \in Seq(Messages), NEW n, Ordered(B, n), NEW from \in Nat, NEW s,
         NEW q, NEW h, Selects(B, from, s, Len(B), q, h), NEW g,
         Tells(EventsOf(B), KeptFor(B, s), g)
  PROVE  Tells(q, 1..Len(q), g)
<1> DEFINE E == EventsOf(B)
           I == KeptFor(B, s)
<1>1. SUFFICES ASSUME NEW i \in 1..Len(q), q[i].type \in BoardTypes
      PROVE  /\ q[i].game.id = g.id /\ q[i].game.moves <= g.moves
             /\ q[i].game.status = "FINISHED" => g.status = "FINISHED"
             /\ \/ OnBoard(q[i].game, g)
                \/ \E j \in 1..Len(q) : i < j /\ q[j].type \in BoardTypes
                                                /\ OnBoard(q[j].game, g)
  BY DEF Tells
<1>2. h[i] \in I /\ q[i] = E[h[i]]
  BY DEF Selects
<1> HIDE DEF E, I
<1>3. /\ E[h[i]].game.id = g.id /\ E[h[i]].game.moves <= g.moves
      /\ E[h[i]].game.status = "FINISHED" => g.status = "FINISHED"
      /\ \/ OnBoard(E[h[i]].game, g)
         \/ \E k \in I : h[i] < k /\ E[k].type \in BoardTypes /\ OnBoard(E[k].game, g)
  BY <1>1, <1>2 DEF Tells, E, I
<1>4. ASSUME NEW k \in I, h[i] < k PROVE \E j \in 1..Len(q) : i < j /\ q[j] = E[k]
  BY <1>4, SelectsLater DEF E, I
<1>5. QED
  BY <1>2, <1>3, <1>4

\* What is replayed from a number on tells of the end of the game what the buffer does.
LEMMA ReplayTellsEnd ==
  ASSUME NEW B \in Seq(Messages), NEW n, Ordered(B, n), NEW from \in Nat, NEW s,
         NEW q, NEW h, Selects(B, from, s, Len(B), q, h), NEW a,
         TellsEnd(EventsOf(B), KeptFor(B, s), a)
  PROVE  TellsEnd(q, 1..Len(q), a)
<1> DEFINE E == EventsOf(B)
           I == KeptFor(B, s)
<1>1. SUFFICES ASSUME NEW i \in 1..Len(q)
      PROVE  /\ q[i].type \notin {"RECONNECT_ACK", "STATE_SYNC_SNAPSHOT"}
             /\ q[i].type = "GAME_STARTED" =>
                  /\ q[i].game.status = "ACTIVE"
                  /\ \/ a = "ACTIVE"
                     \/ \E j \in 1..Len(q) : i < j /\ q[j].type = "GAME_FINISHED"
             /\ q[i].type = "GAME_FINISHED" => a = "FINISHED"
  BY DEF TellsEnd
<1>2. h[i] \in I /\ q[i] = E[h[i]]
  BY DEF Selects
<1> HIDE DEF E, I
<1>3. /\ E[h[i]].type \notin {"RECONNECT_ACK", "STATE_SYNC_SNAPSHOT"}
      /\ E[h[i]].type = "GAME_STARTED" =>
           /\ E[h[i]].game.status = "ACTIVE"
           /\ a = "ACTIVE" \/ \E k \in I : h[i] < k /\ E[k].type = "GAME_FINISHED"
      /\ E[h[i]].type = "GAME_FINISHED" => a = "FINISHED"
  BY <1>2 DEF TellsEnd, E, I
<1>4. ASSUME NEW k \in I, h[i] < k PROVE \E j \in 1..Len(q) : i < j /\ q[j] = E[k]
  BY <1>4, SelectsLater DEF E, I
<1>5. QED
  BY <1>2, <1>3, <1>4

\* What is replayed tells of the opponent's connection what the buffer does.
LEMMA ReplayTellsPresence ==
  ASSUME NEW B \in Seq(Messages), NEW n, Ordered(B, n), NEW from \in Nat, NEW s,
         NEW q, NEW h, Selects(B, from, s, Len(B), q, h), NEW a,
         TellsPresence(EventsOf(B), KeptFor(B, s), s, a)
  PROVE  TellsPresence(q, 1..Len(q), s, a)
<1> DEFINE E == EventsOf(B)
           I == KeptFor(B, s)
<1>1. SUFFICES ASSUME NEW i \in 1..Len(q), q[i].type = "OPPONENT_DISCONNECTED", OneUnlucky
      PROVE  /\ opponent(s) \in Unlucky
             /\ a \/ \E j \in 1..Len(q) : i < j /\ q[j].type = "OPPONENT_RECONNECTED"
  BY DEF TellsPresence
<1>2. h[i] \in I /\ q[i] = E[h[i]]
  BY DEF Selects
<1> HIDE DEF E, I
<1>3. /\ opponent(s) \in Unlucky
      /\ a \/ \E k \in I : h[i] < k /\ E[k].type = "OPPONENT_RECONNECTED"
  BY <1>1, <1>2 DEF TellsPresence, E, I
<1>4. ASSUME NEW k \in I, h[i] < k PROVE \E j \in 1..Len(q) : i < j /\ q[j] = E[k]
  BY <1>4, SelectsLater DEF E, I
<1>5. QED
  BY <1>3, <1>4

\* A client that shows the game shows it after a replay.
LEMMA ReplayCatchesUp ==
  ASSUME NEW me, NEW c, NEW es \in Seq(RoomEvents), NEW f, Path(me, c, es, f),
         NEW g \in Games, g.status \in {"ACTIVE", "FINISHED"},
         Tells(es, 1..Len(es), g), TellsEnd(es, 1..Len(es), g.status),
         Current(c.view, g)
  PROVE  Current(f[Len(es)].view, g)
<1> DEFINE n == Len(es)
           Good(v, j) ==
             /\ v.id = g.id
             /\ \/ OnBoard(v, g)
                \/ \E k \in 1..n : j < k /\ es[k].type \in BoardTypes
                                     /\ OnBoard(es[k].game, g)
             /\ \/ v.status = g.status
                \/ /\ g.status = "FINISHED"
                   /\ \E k \in 1..n : j < k /\ es[k].type = "GAME_FINISHED"
           S == {j \in 0..n : Good(f[j].view, j)}
<1>1. n \in Nat
  OBVIOUS
<1>2. 0 \in S
  BY <1>1 DEF Path, Current
<1>3. ASSUME NEW j \in 0..(n - 1), Good(f[j].view, j) PROVE Good(f[j + 1].view, j + 1)
  <2> DEFINE e == es[j + 1]
             v == f[j].view
             w == f[j + 1].view
  <2>1. j + 1 \in 1..n /\ (j + 1) - 1 = j /\ f[j] \in Clients /\ f[j + 1] \in Clients
    BY <1>1 DEF Path
  <2>2. Reduces(f[j], e, f[j + 1]) /\ e \in RoomEvents
    BY <2>1 DEF Path
  <2>3. e.type \in BoardTypes =>
          /\ e.game.id = g.id
          /\ e.game.status = "FINISHED" => g.status = "FINISHED"
          /\ \/ OnBoard(e.game, g)
             \/ \E k \in 1..n : j + 1 < k /\ es[k].type \in BoardTypes
                                  /\ OnBoard(es[k].game, g)
    BY <2>1 DEF Tells
  <2>4. /\ e.type \notin {"RECONNECT_ACK", "STATE_SYNC_SNAPSHOT"}
        /\ e.type = "GAME_STARTED" =>
             /\ e.game.status = "ACTIVE"
             /\ \/ g.status = "ACTIVE"
                \/ \E k \in 1..n : j + 1 < k /\ es[k].type = "GAME_FINISHED"
        /\ e.type = "GAME_FINISHED" => g.status = "FINISHED"
    BY <2>1 DEF TellsEnd
  <2>5. v \in Games /\ w \in Games
    BY <2>1 DEF Clients
  <2>6. ASSUME NEW k \in 1..n, j < k, k # j + 1 PROVE j + 1 < k
    BY <1>1, <2>6
  <2>7. e.type \in BoardTypes => e.game \in Games
    BY <2>2 DEF RoomEvents, NoticeTypes, BoardTypes, Full, MoveTypes
  <2> HIDE DEF e, v, w, n
  <2>8. CASE e.type = "GAME_STARTED"
    <3>1. w = e.game
      BY <2>2, <2>8 DEF Reduces, Full, w, e
    <3>2. QED
      BY <2>3, <2>4, <2>8, <3>1 DEF BoardTypes, Full, w
  <2>9. CASE e.type \in MoveTypes
    <3>1. /\ w.id = v.id /\ w.status = v.status /\ w.moves = e.game.moves
          /\ w.turn = IF e.game.status = "FINISHED" THEN v.turn ELSE e.game.turn
      BY <2>2, <2>5, <2>9 DEF Reduces, Games, w, v, e
    <3>2. OnBoard(e.game, g) => OnBoard(w, g)
      BY <2>3, <2>9, <3>1 DEF OnBoard, BoardTypes
    <3>3. /\ e.type # "GAME_FINISHED" /\ e.type \in BoardTypes
      BY <2>9 DEF MoveTypes, BoardTypes
    <3>4. \/ w.status = g.status
          \/ /\ g.status = "FINISHED"
             /\ \E k \in 1..n : j + 1 < k /\ es[k].type = "GAME_FINISHED"
      BY <1>3, <2>6, <3>1, <3>3 DEF v, e
    <3>5. QED
      BY <1>3, <2>3, <3>1, <3>2, <3>3, <3>4 DEF v, w
  <2>10. CASE e.type = "MOVE_REJECTED"
    <3>1. /\ w.id = v.id /\ w.status = v.status /\ w.moves = e.game.moves
          /\ w.turn = e.game.turn
      BY <2>2, <2>5, <2>10 DEF Reduces, Games, w, v, e
    <3>2. OnBoard(e.game, g) => OnBoard(w, g)
      BY <3>1 DEF OnBoard
    <3>3. /\ e.type # "GAME_FINISHED" /\ e.type \in BoardTypes
      BY <2>10 DEF BoardTypes
    <3>4. \/ w.status = g.status
          \/ /\ g.status = "FINISHED"
             /\ \E k \in 1..n : j + 1 < k /\ es[k].type = "GAME_FINISHED"
      BY <1>3, <2>6, <3>1, <3>3 DEF v, e
    <3>5. QED
      BY <1>3, <2>3, <3>1, <3>2, <3>3, <3>4 DEF v, w
  <2>11. CASE e.type = "GAME_FINISHED"
    <3>1. w.id = v.id /\ w.status = "FINISHED" /\ w.moves = e.game.moves
      BY <2>2, <2>5, <2>11 DEF Reduces, Games, w, v, e
    <3>2. g.status = "FINISHED"
      BY <2>4, <2>11
    <3>3. OnBoard(e.game, g) => OnBoard(w, g)
      BY <3>1, <3>2 DEF OnBoard
    <3>4. QED
      BY <1>3, <2>3, <2>11, <3>1, <3>2, <3>3 DEF v, w, BoardTypes
  <2>12. CASE e.type \notin BoardTypes
    <3>1. w = v /\ e.type # "GAME_FINISHED"
      BY <2>2, <2>12 DEF Reduces, w, v, e, BoardTypes
    <3>2. QED
      BY <1>3, <2>6, <2>12, <3>1 DEF v, w, e
  <2>13. QED
    BY <2>4, <2>8, <2>9, <2>10, <2>11, <2>12 DEF BoardTypes, Full
<1>4. \A j \in 0..(n - 1) : j \in S => j + 1 \in S
  <2>1. \A j \in 0..(n - 1) : j + 1 \in 0..n
    BY <1>1
  <2> HIDE DEF Good, n
  <2>2. QED
    BY <1>3, <2>1
<1>5. 0..n \subseteq S
  <2> HIDE DEF S
  <2> QED BY <1>1, <1>2, <1>4, UpTo
<1>6. Good(f[n].view, n)
  BY <1>1, <1>5
<1>7. ~\E k \in 1..n : n < k
  BY <1>1
<1>8. QED
  BY <1>6, <1>7 DEF Current

\* The presence of the opponent, after a replay.
LEMMA ReplayKeepsPresence ==
  ASSUME NEW me, NEW c, NEW es \in Seq(RoomEvents), NEW f, Path(me, c, es, f),
         NEW gone, OneUnlucky,
         TellsPresence(es, 1..Len(es), me, gone),
         c.opponentAway => gone /\ opponent(me) \in Unlucky
  PROVE  f[Len(es)].opponentAway => gone /\ opponent(me) \in Unlucky
<1> DEFINE n == Len(es)
           Good(a, j) ==
             a => /\ opponent(me) \in Unlucky
                  /\ \/ gone
                     \/ \E k \in 1..n : j < k /\ es[k].type = "OPPONENT_RECONNECTED"
           S == {j \in 0..n : Good(f[j].opponentAway, j)}
<1>1. n \in Nat
  OBVIOUS
<1>2. 0 \in S
  BY <1>1 DEF Path
<1>3. ASSUME NEW j \in 0..(n - 1), Good(f[j].opponentAway, j)
      PROVE  Good(f[j + 1].opponentAway, j + 1)
  <2>1. j + 1 \in 1..n /\ (j + 1) - 1 = j
    BY <1>1
  <2>2. Reduces(f[j], es[j + 1], f[j + 1])
    BY <2>1 DEF Path
  <2>3. ASSUME NEW k \in 1..n, j < k, k # j + 1 PROVE j + 1 < k
    BY <1>1, <2>3
  <2>4. es[j + 1].type = "OPPONENT_DISCONNECTED" =>
          /\ opponent(me) \in Unlucky
          /\ \/ gone
             \/ \E k \in 1..n : j + 1 < k /\ es[k].type = "OPPONENT_RECONNECTED"
    BY <2>1 DEF TellsPresence
  <2> HIDE DEF n
  <2>5. CASE es[j + 1].type = "OPPONENT_DISCONNECTED"
    BY <2>4, <2>5
  <2>6. CASE es[j + 1].type = "OPPONENT_RECONNECTED"
    BY <2>2, <2>6 DEF Reduces
  <2>7. CASE es[j + 1].type \notin {"OPPONENT_DISCONNECTED", "OPPONENT_RECONNECTED"}
    BY <1>3, <2>2, <2>3, <2>7 DEF Reduces
  <2>8. QED
    BY <2>5, <2>6, <2>7
<1>4. \A j \in 0..(n - 1) : j \in S => j + 1 \in S
  <2>1. \A j \in 0..(n - 1) : j + 1 \in 0..n
    BY <1>1
  <2> HIDE DEF Good, n
  <2>2. QED
    BY <1>3, <2>1
<1>5. 0..n \subseteq S
  <2> HIDE DEF S
  <2> QED BY <1>1, <1>2, <1>4, UpTo
<1>6. Good(f[n].opponentAway, n)
  BY <1>1, <1>5
<1>7. ~\E k \in 1..n : n < k
  BY <1>1
<1>8. QED
  BY <1>6, <1>7

-----------------------------------------------------------------------------
(***************************************************************************)
(* What a client will show.  Shows is what holds of a client when it has   *)
(* heard everything: it is not ahead of the game, and if it is in step     *)
(* with the server (sync: not waiting for the answer to a RECONNECT) it    *)
(* shows the game.  Chain says it of the clients that the events in        *)
(* transit will make of c0, one after the other.                           *)
(***************************************************************************)
Shows(s, c, g, sync, gone) ==
  /\ Before(c.view, g)
  /\ sync => Current(c.view, g)
  /\ OneUnlucky /\ c.opponentAway => gone /\ opponent(s) \in Unlucky

ChainOf(s, c0, q, g, sync, gone, c) ==
  LET n == Len(q) IN
  /\ c \in [0..n -> Clients]
  /\ Alike(c[0], c0)
  /\ \A i \in 1..n : c[i] = handleFrame(s, c[i - 1], q[i])
  /\ \A i \in 0..n : /\ Before(c[i].view, g)
                     /\ OneUnlucky /\ c[i].opponentAway => opponent(s) \in Unlucky
  /\ sync => \A i \in 1..n :
       (\A j \in 1..n : i < j => q[j].type # "RECONNECT_ACK") =>
         Before(c[i - 1].view, c[i].view)
  /\ Shows(s, c[n], g, sync, gone)

Chain(s, c0, q, g, sync, gone) == \E c : ChainOf(s, c0, q, g, sync, gone, c)

\* The event e may be sent to s when the game goes from g to h.
Fits(s, e, g, sync, gone, h, sync1, gone1) ==
  \A c \in Clients :
    Shows(s, c, g, sync, gone) => Shows(s, handleFrame(s, c, e), h, sync1, gone1)

\* Before is an order, and what shows a game is as far as the game.
LEMMA BeforeOrder ==
  ASSUME NEW u \in Games, NEW v \in Games, NEW w \in Games
  PROVE  /\ Before(u, u)
         /\ Before(u, v) /\ Before(v, w) => Before(u, w)
         /\ Current(v, w) => Before(v, w) /\ Before(w, v)
BY DEF Before, Current, OnBoard, Games

\* Appending an event keeps what is there.
LEMMA Appended ==
  ASSUME NEW T, NEW q \in Seq(T), NEW e \in T
  PROVE  /\ Append(q, e) \in Seq(T) /\ Len(q) \in Nat /\ Len(Append(q, e)) = Len(q) + 1
         /\ Append(q, e)[Len(q) + 1] = e
         /\ \A i \in 1..Len(q) : Append(q, e)[i] = q[i] /\ q[i] \in T
         /\ 1..(Len(q) + 1) = 1..Len(q) \cup {Len(q) + 1}
         /\ 0..(Len(q) + 1) = 0..Len(q) \cup {Len(q) + 1}
OBVIOUS

\* A chain grows by an event that fits.
LEMMA ChainAppend ==
  ASSUME NEW s \in Symbols, NEW c0, NEW q \in Seq(Events), NEW e \in Events,
         NEW g \in Games, NEW h \in Games, Before(g, h),
         NEW sync \in BOOLEAN, NEW sync1 \in BOOLEAN, NEW gone, NEW gone1,
         Chain(s, c0, q, g, sync, gone),
         Fits(s, e, g, sync, gone, h, sync1, gone1),
         sync1 => sync \/ e.type = "RECONNECT_ACK"
  PROVE  Chain(s, c0, Append(q, e), h, sync1, gone1)
<1> DEFINE n == Len(q)
           r == Append(q, e)
<1>1. /\ r \in Seq(Events) /\ n \in Nat /\ Len(r) = n + 1 /\ r[n + 1] = e
      /\ \A i \in 1..n : r[i] = q[i] /\ q[i] \in Events
      /\ 1..(n + 1) = 1..n \cup {n + 1} /\ 0..(n + 1) = 0..n \cup {n + 1}
  BY Appended
<1>2. PICK c : ChainOf(s, c0, q, g, sync, gone, c)
  BY DEF Chain
<1> DEFINE d == [i \in 0..(n + 1) |-> IF i <= n THEN c[i] ELSE handleFrame(s, c[n], e)]
<1> HIDE DEF r, n
<1>3. n \in 0..n /\ \A i \in 1..n : i \in 0..n /\ i - 1 \in 0..n
  BY <1>1
<1>4. c[n] \in Clients /\ handleFrame(s, c[n], e) \in Clients
  BY <1>2, <1>3, FrameType DEF ChainOf, n
<1>5. /\ \A i \in 0..n : d[i] = c[i]
      /\ d[n + 1] = handleFrame(s, d[n], e) /\ d[n + 1] = handleFrame(s, c[n], e)
  BY <1>1
<1>6. d \in [0..(n + 1) -> Clients]
  <2>1. \A i \in 0..(n + 1) : d[i] \in Clients
    <3> HIDE DEF d
    <3> QED BY <1>1, <1>2, <1>4, <1>5 DEF ChainOf, n
  <2>2. d = [i \in 0..(n + 1) |-> d[i]]
    OBVIOUS
  <2> HIDE DEF d
  <2>3. QED
    BY <2>1, <2>2
<1> HIDE DEF d
<1>7. Shows(s, d[n + 1], h, sync1, gone1)
  BY <1>2, <1>4, <1>5 DEF ChainOf, Fits, n
<1>8. Alike(d[0], c0)
  BY <1>1, <1>2, <1>5 DEF ChainOf, n
<1>9. \A i \in 1..(n + 1) : d[i] = handleFrame(s, d[i - 1], r[i])
  <2>1. \A i \in 1..n : c[i] = handleFrame(s, c[i - 1], q[i])
    BY <1>2 DEF ChainOf, n
  <2>2. \A i \in 1..n : d[i] = handleFrame(s, d[i - 1], r[i])
    BY <1>1, <1>3, <1>5, <2>1
  <2>3. (n + 1) - 1 = n
    BY <1>1
  <2>4. QED
    BY <1>1, <1>5, <2>2, <2>3
<1>10. \A i \in 0..n : d[i].view \in Games
  BY <1>1, <1>6 DEF Clients
<1>11. d[n + 1].view \in Games
  BY <1>1, <1>6 DEF Clients
<1>12. \A i \in 0..n : Before(d[i].view, g) /\ Before(d[i].view, h)
  BY <1>2, <1>5, <1>10, BeforeOrder DEF ChainOf, n
<1>13. \A i \in 0..(n + 1) : /\ Before(d[i].view, h)
                             /\ OneUnlucky /\ d[i].opponentAway => opponent(s) \in Unlucky
  BY <1>1, <1>2, <1>5, <1>7, <1>12 DEF ChainOf, Shows, n
<1>14. ASSUME sync1, NEW i \in 1..(n + 1),
              \A j \in 1..(n + 1) : i < j => r[j].type # "RECONNECT_ACK"
       PROVE  Before(d[i - 1].view, d[i].view)
  <2>1. CASE i = n + 1
    <3>1. i - 1 = n /\ n \in 0..n
      BY <1>1, <2>1
    <3>2. Before(h, d[n + 1].view)
      BY <1>7, <1>11, <1>14, BeforeOrder DEF Shows
    <3>3. QED
      BY <1>10, <1>11, <1>12, <2>1, <3>1, <3>2, BeforeOrder
  <2>2. CASE i # n + 1
    <3>1. i \in 1..n /\ i < n + 1
      BY <1>1, <2>2
    <3>2. e.type # "RECONNECT_ACK"
      BY <1>1, <1>14, <3>1
    <3>3. \A j \in 1..n : i < j => q[j].type # "RECONNECT_ACK"
      BY <1>1, <1>14
    <3>4. Before(c[i - 1].view, c[i].view)
      BY <1>2, <1>14, <3>1, <3>2, <3>3 DEF ChainOf, n
    <3>5. QED
      BY <1>3, <1>5, <3>1, <3>4
  <2>3. QED
    BY <2>1, <2>2
<1>15. ChainOf(s, c0, r, h, sync1, gone1, d)
  BY <1>1, <1>6, <1>7, <1>8, <1>9, <1>13, <1>14 DEF ChainOf
<1>16. QED
  BY <1>15 DEF Chain, r

\* Nothing is sent to a client: one that is in step has nothing new to hear.
LEMMA ChainUnsent ==
  ASSUME NEW s \in Symbols, NEW c0, NEW q \in Seq(Events),
         NEW g \in Games, NEW h \in Games, Before(g, h),
         NEW sync \in BOOLEAN, NEW sync1 \in BOOLEAN, NEW gone, NEW gone1,
         Chain(s, c0, q, g, sync, gone),
         sync1 => sync /\ g = h,
         OneUnlucky /\ gone => gone1
  PROVE  Chain(s, c0, q, h, sync1, gone1)
<1>1. PICK c : ChainOf(s, c0, q, g, sync, gone, c)
  BY DEF Chain
<1>2. \A i \in 0..Len(q) : c[i].view \in Games
  BY <1>1 DEF ChainOf, Clients
<1>3. \A i \in 0..Len(q) : Before(c[i].view, h)
  BY <1>1, <1>2, BeforeOrder DEF ChainOf
<1>4. Len(q) \in 0..Len(q)
  OBVIOUS
<1>5. Shows(s, c[Len(q)], h, sync1, gone1)
  BY <1>1, <1>3, <1>4 DEF ChainOf, Shows
<1>6. ChainOf(s, c0, q, h, sync1, gone1, c)
  BY <1>1, <1>3, <1>5 DEF ChainOf
<1>7. QED
  BY <1>6 DEF Chain

\* The first event of a chain is read.
LEMMA ChainReceive ==
  ASSUME NEW s \in Symbols, NEW c0 \in Clients, NEW q \in Seq(Events), q # <<>>,
         NEW g \in Games, NEW sync \in BOOLEAN, NEW gone,
         Chain(s, c0, q, g, sync, gone)
  PROVE  /\ Chain(s, handleFrame(s, c0, Head(q)), Tail(q), g, sync, gone)
         /\ sync /\ (\A j \in 1..Len(Tail(q)) : Tail(q)[j].type # "RECONNECT_ACK") =>
              Before(c0.view, handleFrame(s, c0, Head(q)).view)
<1> DEFINE n == Len(q)
           r == Tail(q)
           m == n - 1
<1>1. /\ r \in Seq(Events) /\ n \in Nat \ {0} /\ m \in Nat /\ m + 1 = n /\ Len(r) = m
      /\ \A i \in 1..m : r[i] = q[i + 1]
      /\ Head(q) = q[1] /\ q[1] \in Events
  OBVIOUS
<1>2. PICK c : ChainOf(s, c0, q, g, sync, gone, c)
  BY DEF Chain
<1> DEFINE d == [i \in 0..m |-> c[i + 1]]
           d0 == handleFrame(s, c0, q[1])
<1> HIDE DEF n, r, m
<1>3. /\ \A i \in 0..m : i + 1 \in 0..n /\ i + 1 \in 1..n
      /\ \A i \in 1..m : /\ i \in 0..m /\ i - 1 \in 0..m /\ i \in 1..n
                         /\ (i - 1) + 1 = i /\ (i + 1) - 1 = i
      /\ 1 \in 1..n /\ 0 \in 0..n /\ 0 \in 0..m /\ m \in 0..m /\ 0 + 1 = 1 /\ 1 - 1 = 0
  BY <1>1
<1>4. c[0] \in Clients /\ Alike(c[0], c0) /\ c[1] = handleFrame(s, c[0], q[1])
  BY <1>2, <1>3 DEF ChainOf, n
<1>5. Alike(c[1], d0)
  BY <1>1, <1>4, FrameAlike
<1>6. \A i \in 0..m : d[i] = c[i + 1] /\ d[i] \in Clients
  BY <1>2, <1>3 DEF ChainOf, n
<1>7. d \in [0..m -> Clients]
  <2>1. d = [i \in 0..m |-> d[i]]
    OBVIOUS
  <2> HIDE DEF d
  <2>2. QED
    BY <1>6, <2>1
<1> HIDE DEF d, d0
<1>8. Alike(d[0], d0)
  BY <1>3, <1>5, <1>6
<1>9. \A i \in 1..m : d[i] = handleFrame(s, d[i - 1], r[i])
  <2>1. \A i \in 1..n : c[i] = handleFrame(s, c[i - 1], q[i])
    BY <1>2 DEF ChainOf, n
  <2>2. SUFFICES ASSUME NEW i \in 1..m PROVE d[i] = handleFrame(s, d[i - 1], r[i])
    OBVIOUS
  <2>3. c[i + 1] = handleFrame(s, c[(i + 1) - 1], q[i + 1])
    BY <1>3, <2>1
  <2>4. d[i] = c[i + 1] /\ d[i - 1] = c[i] /\ r[i] = q[i + 1]
    BY <1>1, <1>3, <1>6
  <2>5. QED
    BY <1>3, <2>3, <2>4
<1>10. \A i \in 0..m : /\ Before(d[i].view, g)
                       /\ OneUnlucky /\ d[i].opponentAway => opponent(s) \in Unlucky
  BY <1>2, <1>3, <1>6 DEF ChainOf, n
<1>11. ASSUME sync, NEW i \in 1..m,
              \A j \in 1..m : i < j => r[j].type # "RECONNECT_ACK"
       PROVE  Before(d[i - 1].view, d[i].view)
  <2>1. ASSUME NEW j \in 1..n, i + 1 < j PROVE q[j].type # "RECONNECT_ACK"
    <3>1. j - 1 \in 1..m /\ i < j - 1 /\ (j - 1) + 1 = j
      BY <1>1, <2>1
    <3>2. QED
      BY <1>1, <1>11, <3>1
  <2>2. i + 1 \in 1..n /\ (i + 1) - 1 = i
    BY <1>3
  <2>3. Before(c[(i + 1) - 1].view, c[i + 1].view)
    BY <1>2, <1>11, <2>1, <2>2 DEF ChainOf, n
  <2>4. QED
    BY <1>3, <1>6, <2>2, <2>3
<1>12. Shows(s, d[m], g, sync, gone)
  <2>1. d[m] = c[n]
    BY <1>1, <1>3, <1>6
  <2>2. QED
    BY <1>2, <2>1 DEF ChainOf, n
<1>13. ChainOf(s, d0, r, g, sync, gone, d)
  BY <1>1, <1>7, <1>8, <1>9, <1>10, <1>11, <1>12 DEF ChainOf
<1>14. ASSUME sync, \A j \in 1..m : r[j].type # "RECONNECT_ACK"
       PROVE  Before(c0.view, d0.view)
  <2>1. ASSUME NEW j \in 1..n, 1 < j PROVE q[j].type # "RECONNECT_ACK"
    <3>1. j - 1 \in 1..m /\ (j - 1) + 1 = j
      BY <1>1, <2>1
    <3>2. QED
      BY <1>1, <1>14, <3>1
  <2>2. Before(c[1 - 1].view, c[1].view)
    BY <1>2, <1>3, <1>14, <2>1 DEF ChainOf, n
  <2>3. QED
    BY <1>3, <1>4, <1>5, <2>2 DEF Alike
<1>15. QED
  BY <1>1, <1>13, <1>14 DEF Chain, r, d0

-----------------------------------------------------------------------------
(***************************************************************************)
(* Which events fit: one lemma for each kind of event the server sends.    *)
(***************************************************************************)

\* An event that is not about the board, or about the opponent's connection.
LEMMA NoticeFits ==
  ASSUME NEW s \in Symbols, NEW e \in RoomEvents, e.type \notin BoardTypes,
         NEW g \in Games, NEW sync, NEW gone, NEW gone1,
         e.type = "OPPONENT_DISCONNECTED" /\ OneUnlucky => gone1 /\ opponent(s) \in Unlucky,
         e.type # "OPPONENT_RECONNECTED" /\ OneUnlucky /\ gone => gone1
  PROVE  Fits(s, e, g, sync, gone, g, sync, gone1)
<1>1. SUFFICES ASSUME NEW c \in Clients, Shows(s, c, g, sync, gone)
      PROVE  Shows(s, handleFrame(s, c, e), g, sync, gone1)
  BY DEF Fits
<1> DEFINE d == handleFrame(s, c, e)
<1>2. Reduces(c, e, d)
  BY FrameOfEvent
<1> HIDE DEF d
<1>3. d.view = c.view
  BY <1>2 DEF Reduces
<1>4. OneUnlucky /\ d.opponentAway => gone1 /\ opponent(s) \in Unlucky
  BY <1>1, <1>2 DEF Reduces, Shows
<1>5. QED
  BY <1>1, <1>3, <1>4 DEF Shows, d

\* What an event about the board does to what is known of the opponent: nothing.
LEMMA BoardKeepsPresence ==
  ASSUME NEW s \in Symbols, NEW c \in Clients, NEW e \in RoomEvents, e.type \in BoardTypes
  PROVE  /\ handleFrame(s, c, e).opponentAway = c.opponentAway
         /\ Reduces(c, e, handleFrame(s, c, e))
<1>1. Reduces(c, e, handleFrame(s, c, e))
  BY FrameOfEvent
<1>2. e.type \notin {"OPPONENT_DISCONNECTED", "OPPONENT_RECONNECTED"}
  BY DEF BoardTypes, Full, MoveTypes
<1>3. QED
  BY <1>1, <1>2 DEF Reduces

\* An event with the whole game.
LEMMA FullFits ==
  ASSUME NEW s \in Symbols, NEW e \in RoomEvents, e.type \in Full,
         NEW g \in Games, NEW h \in Games, e.game = h,
         NEW sync, NEW sync1, NEW gone
  PROVE  Fits(s, e, g, sync, gone, h, sync1, gone)
<1>1. SUFFICES ASSUME NEW c \in Clients, Shows(s, c, g, sync, gone)
      PROVE  Shows(s, handleFrame(s, c, e), h, sync1, gone)
  BY DEF Fits
<1>2. /\ handleFrame(s, c, e).opponentAway = c.opponentAway
      /\ handleFrame(s, c, e).view = h
  <2>1. e.type \in BoardTypes
    BY DEF BoardTypes
  <2>2. Reduces(c, e, handleFrame(s, c, e)) /\ handleFrame(s, c, e).opponentAway = c.opponentAway
    BY <2>1, BoardKeepsPresence
  <2>3. QED
    BY <2>2 DEF Reduces
<1>3. Before(h, h) /\ Current(h, h)
  BY DEF Before, Current, OnBoard, Games
<1>4. QED
  BY <1>1, <1>2, <1>3 DEF Shows

\* A move: until the event of the end, the game is shown as going on.
LEMMA MoveFits ==
  ASSUME NEW s \in Symbols, NEW e \in RoomEvents, e.type \in MoveTypes,
         NEW g \in Games, NEW h \in Games, NEW sync, NEW gone,
         g.id = h.id, g.status = h.status, g.moves <= h.moves, e.game.moves = h.moves,
         h.turn = IF e.game.status = "FINISHED" THEN g.turn ELSE e.game.turn,
         g.status = "ACTIVE"
  PROVE  Fits(s, e, g, sync, gone, h, sync, gone)
<1>1. SUFFICES ASSUME NEW c \in Clients, Shows(s, c, g, sync, gone)
      PROVE  Shows(s, handleFrame(s, c, e), h, sync, gone)
  BY DEF Fits
<1> DEFINE v == c.view
           w == handleFrame(s, c, e).view
<1>2. handleFrame(s, c, e).opponentAway = c.opponentAway
  BY BoardKeepsPresence DEF BoardTypes
<1>3. w = [v EXCEPT !.moves = e.game.moves,
                    !.turn = IF e.game.status = "FINISHED" THEN @ ELSE e.game.turn]
  <2>1. e.type \in BoardTypes
    BY DEF BoardTypes
  <2>2. Reduces(c, e, handleFrame(s, c, e))
    BY <2>1, BoardKeepsPresence
  <2>3. QED
    BY <2>2 DEF Reduces
<1>4. v \in Games
  BY DEF Clients
<1> HIDE DEF v, w
<1>5. /\ w.id = v.id /\ w.status = v.status /\ w.moves = h.moves
      /\ w.turn = IF e.game.status = "FINISHED" THEN v.turn ELSE e.game.turn
  BY <1>3, <1>4 DEF Games
<1>6. Before(v, g) => Before(w, h)
  BY <1>4, <1>5 DEF Before, Games
<1>7. Current(v, g) => Current(w, h)
  BY <1>5 DEF Current, OnBoard
<1>8. QED
  BY <1>1, <1>2, <1>6, <1>7 DEF Shows, v, w

\* A rejected move: the board is sent again.
LEMMA RejectFits ==
  ASSUME NEW s \in Symbols, NEW e \in RoomEvents, e.type = "MOVE_REJECTED",
         NEW g \in Games, e.game = g, NEW sync, NEW gone
  PROVE  Fits(s, e, g, sync, gone, g, sync, gone)
<1>1. SUFFICES ASSUME NEW c \in Clients, Shows(s, c, g, sync, gone)
      PROVE  Shows(s, handleFrame(s, c, e), g, sync, gone)
  BY DEF Fits
<1> DEFINE v == c.view
           w == handleFrame(s, c, e).view
<1>2. handleFrame(s, c, e).opponentAway = c.opponentAway
  BY BoardKeepsPresence DEF BoardTypes
<1>3. w = [v EXCEPT !.moves = g.moves, !.turn = g.turn]
  <2>1. e.type \in BoardTypes
    BY DEF BoardTypes
  <2>2. Reduces(c, e, handleFrame(s, c, e))
    BY <2>1, BoardKeepsPresence
  <2>3. QED
    BY <2>2 DEF Reduces
<1>4. v \in Games
  BY DEF Clients
<1> HIDE DEF v, w
<1>5. w.id = v.id /\ w.status = v.status /\ w.moves = g.moves /\ w.turn = g.turn
  BY <1>3, <1>4 DEF Games
<1>6. Before(v, g) => Before(w, g)
  BY <1>4, <1>5 DEF Before, Games
<1>7. Current(v, g) => Current(w, g)
  BY <1>5 DEF Current, OnBoard
<1>8. QED
  BY <1>1, <1>2, <1>6, <1>7 DEF Shows, v, w

\* The end of the game, on the board of the last move.
LEMMA FinishFits ==
  ASSUME NEW s \in Symbols, NEW e \in RoomEvents, e.type = "GAME_FINISHED",
         NEW g \in Games, NEW h \in Games, NEW sync, NEW gone,
         g.id = h.id, g.moves = h.moves, h.status = "FINISHED", e.game = h
  PROVE  Fits(s, e, g, sync, gone, h, sync, gone)
<1>1. SUFFICES ASSUME NEW c \in Clients, Shows(s, c, g, sync, gone)
      PROVE  Shows(s, handleFrame(s, c, e), h, sync, gone)
  BY DEF Fits
<1> DEFINE v == c.view
           w == handleFrame(s, c, e).view
<1>2. handleFrame(s, c, e).opponentAway = c.opponentAway
  BY BoardKeepsPresence DEF BoardTypes
<1>3. w = [v EXCEPT !.moves = h.moves, !.status = "FINISHED"]
  <2>1. e.type \in BoardTypes
    BY DEF BoardTypes
  <2>2. Reduces(c, e, handleFrame(s, c, e))
    BY <2>1, BoardKeepsPresence
  <2>3. QED
    BY <2>2 DEF Reduces
<1>4. v \in Games
  BY DEF Clients
<1> HIDE DEF v, w
<1>5. w.id = v.id /\ w.status = "FINISHED" /\ w.moves = h.moves
  BY <1>3, <1>4 DEF Games
<1>6. Before(v, g) => Before(w, h)
  BY <1>4, <1>5 DEF Before, Games
<1>7. Current(v, g) => Current(w, h)
  BY <1>5 DEF Current, OnBoard
<1>8. QED
  BY <1>1, <1>2, <1>6, <1>7 DEF Shows, v, w

\* A replay, to a client that is in step.
LEMMA ReplayFits ==
  ASSUME NEW s \in Symbols, NEW e \in Replays,
         NEW g \in Games, g.status \in {"ACTIVE", "FINISHED"}, NEW gone,
         Tells(e.events, 1..Len(e.events), g),
         TellsEnd(e.events, 1..Len(e.events), g.status),
         TellsPresence(e.events, 1..Len(e.events), s, gone)
  PROVE  Fits(s, e, g, TRUE, gone, g, TRUE, gone)
<1>1. SUFFICES ASSUME NEW c \in Clients, Shows(s, c, g, TRUE, gone)
      PROVE  Shows(s, handleFrame(s, c, e), g, TRUE, gone)
  BY DEF Fits
<1> DEFINE d == handleFrame(s, c, e)
           n == Len(e.events)
<1>2. d \in Clients /\ \E f : Replayed(s, c, e, f, d)
  BY FrameOfReplay
<1> HIDE DEF d
<1>3. PICK f : Replayed(s, c, e, f, d)
  BY <1>2
<1>4. e.events \in Seq(RoomEvents)
  BY DEF Replays
<1>5. /\ Path(s, f[0], e.events, f) /\ f[0].view = c.view
      /\ f[0].opponentAway = c.opponentAway
      /\ d.view = f[n].view /\ d.opponentAway = f[n].opponentAway
  BY <1>3 DEF Replayed, Alike
<1>6. Current(d.view, g)
  <2>1. Current(f[0].view, g)
    BY <1>1, <1>5 DEF Shows
  <2>2. QED
    BY <1>4, <1>5, <2>1, ReplayCatchesUp
<1>7. Before(d.view, g)
  BY <1>2, <1>6, BeforeOrder DEF Clients
<1>8. ASSUME OneUnlucky, d.opponentAway PROVE gone /\ opponent(s) \in Unlucky
  <2>1. f[0].opponentAway => gone /\ opponent(s) \in Unlucky
    BY <1>1, <1>5, <1>8 DEF Shows
  <2>2. f[n].opponentAway => gone /\ opponent(s) \in Unlucky
    BY <1>4, <1>5, <1>8, <2>1, ReplayKeepsPresence
  <2>3. QED
    BY <1>5, <1>8, <2>2
<1>9. QED
  BY <1>6, <1>7, <1>8 DEF Shows, d

-----------------------------------------------------------------------------
(***************************************************************************)
(* What a buffer and the events in transit tell s, together: Good.  The    *)
(* buffer may be ahead of the events in a handler that sends several: it   *)
(* tells of the board of b and of the status a, the events of the game g.  *)
(***************************************************************************)
Streams == [buffer : Seq(Messages), events : [Symbols -> Seq(Events)]]

StreamOK(st, n) ==
  /\ st \in Streams
  /\ Len(st.buffer) <= BufferSize
  /\ Ordered(st.buffer, n)
  /\ \A s \in Symbols : link[s] # "up" => st.events[s] = <<>>

Kept(B, s, b, a, gone) ==
  /\ Tells(EventsOf(B), KeptFor(B, s), b)
  /\ TellsEnd(EventsOf(B), KeptFor(B, s), a)
  /\ TellsPresence(EventsOf(B), KeptFor(B, s), s, gone)

Good(st, s, c0, b, a, g, sync, gone) ==
  Kept(st.buffer, s, b, a, gone) /\ Chain(s, c0, st.events[s], g, sync, gone)

Reaches(s, m) == s \in m.to /\ link[s] = "up"

\* What send does to the buffer and to what is in transit.
LEMMA Sent ==
  ASSUME NEW st \in Streams, NEW m, m.event \in Events
  PROVE  /\ send(st, m) \in Streams
         /\ send(st, m).buffer = st.buffer
         /\ \A s \in Symbols :
              send(st, m).events[s] = IF Reaches(s, m) THEN Append(st.events[s], m.event)
                                      ELSE st.events[s]
<1> DEFINE Q(s) == IF Reaches(s, m) THEN Append(st.events[s], m.event) ELSE st.events[s]
<1>1. send(st, m) = [st EXCEPT !.events = [s \in Symbols |-> Q(s)]]
  BY DEF send, Reaches
<1>2. \A s \in Symbols : Q(s) \in Seq(Events)
  <2>1. SUFFICES ASSUME NEW s \in Symbols PROVE Q(s) \in Seq(Events)
    OBVIOUS
  <2>2. st.events[s] \in Seq(Events)
    BY DEF Streams
  <2>3. Append(st.events[s], m.event) \in Seq(Events)
    BY <2>2, Appended
  <2>4. QED
    BY <2>2, <2>3
<1> HIDE DEF Q
<1>3. [s \in Symbols |-> Q(s)] \in [Symbols -> Seq(Events)]
  BY <1>2
<1>4. /\ send(st, m) \in Streams /\ send(st, m).buffer = st.buffer
      /\ send(st, m).events = [s \in Symbols |-> Q(s)]
  BY <1>1, <1>3 DEF Streams
<1>5. QED
  BY <1>4 DEF Q

\* What emit does.
LEMMA Emitted ==
  ASSUME NEW st, NEW n \in Nat, StreamOK(st, n), NEW m \in Messages, n < m.event.seq
  PROVE  /\ StreamOK(emit(st, m), m.event.seq)
         /\ emit(st, m).buffer = push(st.buffer, m)
         /\ \A s \in Symbols :
              emit(st, m).events[s] = IF Reaches(s, m) THEN Append(st.events[s], m.event)
                                      ELSE st.events[s]
<1> DEFINE st1 == [st EXCEPT !.buffer = push(@, m)]
<1>1. st \in Streams /\ st.buffer \in Seq(Messages) /\ Len(st.buffer) <= BufferSize
  BY DEF StreamOK, Streams
<1>2. push(st.buffer, m) \in Seq(Messages) /\ Len(push(st.buffer, m)) <= BufferSize
  <2>1. push(st.buffer, m) \in Seq(Messages) /\ Len(push(st.buffer, m)) \in 1..BufferSize
    BY <1>1, PushShape
  <2>2. QED
    BY <2>1, BoundsAssumption
<1>3. Ordered(push(st.buffer, m), m.event.seq)
  BY <1>1, PushOrdered DEF StreamOK
<1>4. /\ st1 \in Streams /\ st1.buffer = push(st.buffer, m) /\ st1.events = st.events
  BY <1>1, <1>2 DEF Streams
<1>5. m.event \in Events
  BY MessageSeq DEF Events
<1> HIDE DEF st1
<1>6. emit(st, m) = send(st1, m)
  BY DEF emit, st1
<1>7. QED
  BY <1>2, <1>3, <1>4, <1>5, <1>6, Sent DEF StreamOK, Reaches

\* A later number is as good.
LEMMA StreamLater ==
  ASSUME NEW st, NEW n \in Nat, NEW k \in Nat, n <= k, StreamOK(st, n)
  PROVE  StreamOK(st, k)
<1>1. \A i \in 1..Len(st.buffer) : st.buffer[i].event.seq \in Nat
  BY MessageSeq DEF StreamOK, Streams
<1>2. QED
  BY <1>1 DEF StreamOK, Ordered

\* One message, buffered and sent.
LEMMA EmitGood ==
  ASSUME NEW st, NEW n \in Nat, StreamOK(st, n), NEW m \in Messages, n < m.event.seq,
         NEW s \in Symbols, NEW c0, NEW a, NEW a1,
         NEW b \in Games, NEW b1 \in Games, NEW g \in Games, NEW h \in Games,
         NEW sync \in BOOLEAN, NEW gone \in BOOLEAN, NEW gone1 \in BOOLEAN,
         Good(st, s, c0, b, a, g, sync, gone),
         b.id = b1.id, b.moves <= b1.moves, b.status = "FINISHED" => b1.status = "FINISHED",
         IF s \in m.keep /\ m.event.type \in BoardTypes
         THEN /\ m.event.game.id = b1.id /\ m.event.game.moves <= b1.moves
              /\ m.event.game.status = "FINISHED" => b1.status = "FINISHED"
              /\ OnBoard(m.event.game, b1)
         ELSE b = b1,
         \/ a = a1 /\ (s \in m.keep =>
                         m.event.type \notin {"GAME_STARTED", "GAME_FINISHED",
                                              "RECONNECT_ACK", "STATE_SYNC_SNAPSHOT"})
         \/ a1 = "FINISHED" /\ s \in m.keep /\ m.event.type = "GAME_FINISHED",
         (gone => gone1) \/ (s \in m.keep /\ m.event.type = "OPPONENT_RECONNECTED"),
         s \in m.keep /\ m.event.type = "OPPONENT_DISCONNECTED" /\ OneUnlucky =>
           opponent(s) \in Unlucky /\ gone1,
         Before(g, h),
         IF Reaches(s, m) THEN Fits(s, m.event, g, sync, gone, h, sync, gone1)
         ELSE (sync => g = h) /\ (OneUnlucky /\ gone => gone1)
  PROVE  Good(emit(st, m), s, c0, b1, a1, h, sync, gone1)
<1>1. /\ st.buffer \in Seq(Messages) /\ Len(st.buffer) <= BufferSize
      /\ st.events[s] \in Seq(Events)
  BY DEF StreamOK, Streams
<1>2. Kept(push(st.buffer, m), s, b1, a1, gone1)
  <2>1. /\ Tells(EventsOf(st.buffer), KeptFor(st.buffer, s), b)
        /\ TellsEnd(EventsOf(st.buffer), KeptFor(st.buffer, s), a)
        /\ TellsPresence(EventsOf(st.buffer), KeptFor(st.buffer, s), s, gone)
    BY DEF Good, Kept
  <2>2. Tells(EventsOf(push(st.buffer, m)), KeptFor(push(st.buffer, m), s), b1)
    BY <1>1, <2>1, PushTells
  <2>3. TellsEnd(EventsOf(push(st.buffer, m)), KeptFor(push(st.buffer, m), s), a1)
    BY <1>1, <2>1, PushTellsEnd
  <2>4. TellsPresence(EventsOf(push(st.buffer, m)), KeptFor(push(st.buffer, m), s), s, gone1)
    BY <1>1, <2>1, PushTellsPresence
  <2>5. QED
    BY <2>2, <2>3, <2>4 DEF Kept
<1>3. Chain(s, c0, emit(st, m).events[s], h, sync, gone1)
  <2>1. Chain(s, c0, st.events[s], g, sync, gone)
    BY DEF Good
  <2>2. CASE Reaches(s, m)
    <3>1. m.event \in Events
      BY MessageSeq DEF Events
    <3>2. Chain(s, c0, Append(st.events[s], m.event), h, sync, gone1)
      BY <1>1, <2>1, <2>2, <3>1, ChainAppend
    <3>3. QED
      BY <2>2, <3>2, Emitted
  <2>3. CASE ~Reaches(s, m)
    <3>1. Chain(s, c0, st.events[s], h, sync, gone1)
      BY <1>1, <2>1, <2>3, ChainUnsent
    <3>2. QED
      BY <2>3, <3>1, Emitted
  <2>4. QED
    BY <2>2, <2>3
<1>4. QED
  BY <1>2, <1>3, Emitted DEF Good

\* One message, sent and not buffered.
LEMMA SendGood ==
  ASSUME NEW st, NEW n, StreamOK(st, n), NEW m, m.event \in Events,
         NEW s \in Symbols, NEW c0, NEW a, NEW b, NEW g \in Games,
         NEW sync \in BOOLEAN, NEW sync1 \in BOOLEAN, NEW gone,
         Good(st, s, c0, b, a, g, sync, gone),
         IF Reaches(s, m)
         THEN /\ Fits(s, m.event, g, sync, gone, g, sync1, gone)
              /\ sync1 => sync \/ m.event.type = "RECONNECT_ACK"
         ELSE sync1 => sync
  PROVE  Good(send(st, m), s, c0, b, a, g, sync1, gone)
<1>1. st \in Streams /\ st.events[s] \in Seq(Events)
  BY DEF StreamOK, Streams
<1>2. Before(g, g) /\ Chain(s, c0, st.events[s], g, sync, gone)
  BY BeforeOrder DEF Good
<1>3. CASE Reaches(s, m)
  <2>1. Chain(s, c0, Append(st.events[s], m.event), g, sync1, gone)
    BY <1>1, <1>2, <1>3, ChainAppend
  <2>2. QED
    BY <1>1, <1>3, <2>1, Sent DEF Good
<1>4. CASE ~Reaches(s, m)
  <2>1. Chain(s, c0, st.events[s], g, sync1, gone)
    BY <1>1, <1>2, <1>4, ChainUnsent
  <2>2. QED
    BY <1>1, <1>4, <2>1, Sent DEF Good
<1>5. QED
  BY <1>3, <1>4

\* Nothing is sent.
LEMMA UnsentGood ==
  ASSUME NEW st \in Streams, NEW s \in Symbols, NEW c0, NEW a, NEW b,
         NEW g \in Games, NEW sync \in BOOLEAN, NEW sync1 \in BOOLEAN, NEW gone, NEW gone1,
         Good(st, s, c0, b, a, g, sync, gone),
         sync1 => sync, OneUnlucky /\ gone => gone1
  PROVE  Good(st, s, c0, b, a, g, sync1, gone1)
<1>1. st.events[s] \in Seq(Events) /\ Before(g, g)
  BY BeforeOrder DEF Streams
<1>2. Chain(s, c0, st.events[s], g, sync1, gone1)
  BY <1>1, ChainUnsent DEF Good
<1>3. Kept(st.buffer, s, b, a, gone1)
  BY DEF Good, Kept, TellsPresence
<1>4. QED
  BY <1>2, <1>3 DEF Good

\* A notice, buffered and sent.
LEMMA NoticeGood ==
  ASSUME NEW st, NEW n \in Nat, StreamOK(st, n), NEW m \in Messages, n < m.event.seq,
         m.event.type \notin BoardTypes,
         NEW s \in Symbols, NEW c0, NEW a, NEW b \in Games, NEW g \in Games,
         NEW sync \in BOOLEAN, NEW gone \in BOOLEAN, NEW gone1 \in BOOLEAN,
         Good(st, s, c0, b, a, g, sync, gone),
         (gone => gone1) \/ (s \in m.keep /\ m.event.type = "OPPONENT_RECONNECTED"),
         OneUnlucky /\ gone =>
           gone1 \/ (Reaches(s, m) /\ m.event.type = "OPPONENT_RECONNECTED"),
         s \in m.keep \cup m.to /\ m.event.type = "OPPONENT_DISCONNECTED" /\ OneUnlucky =>
           opponent(s) \in Unlucky /\ gone1
  PROVE  Good(emit(st, m), s, c0, b, a, g, sync, gone1)
<1>1. Before(g, g) /\ b.moves <= b.moves
  BY BeforeOrder DEF Games
<1>2. m.event.type \notin {"GAME_STARTED", "GAME_FINISHED", "RECONNECT_ACK",
                           "STATE_SYNC_SNAPSHOT"}
  BY DEF BoardTypes, Full
<1>3. m.event \in RoomEvents
  BY MessageSeq
<1>4. Reaches(s, m) => Fits(s, m.event, g, sync, gone, g, sync, gone1)
  BY <1>3, NoticeFits DEF Reaches
<1>5. ~Reaches(s, m) => (OneUnlucky /\ gone => gone1)
  OBVIOUS
<1>6. QED
  BY <1>1, <1>2, <1>4, <1>5, EmitGood

\* Sending does not touch the numbers.
LEMMA SentOK ==
  ASSUME NEW st, NEW n, StreamOK(st, n), NEW m, m.event \in Events
  PROVE  StreamOK(send(st, m), n)
BY Sent DEF StreamOK, Reaches

-----------------------------------------------------------------------------
(***************************************************************************)
(* The invariant.                                                          *)
(***************************************************************************)
GameOK(g) ==
  /\ g \in Games
  /\ g.id \in 1..MaxGames
  /\ g.status \in {"ACTIVE", "FINISHED"}
  /\ g.status = "ACTIVE" => g.moves < MaxMoves

TypeInv ==
  /\ seq \in Nat \ {0}
  /\ StreamOK(stream, seq)
  /\ GameOK(game)
  /\ accepted \subseteq Symbols
  /\ connected \subseteq Symbols
  /\ link \in [Symbols -> {"up", "lost", "down"}]
  /\ cmds \in [Symbols -> Seq(CommandRecords)]
  /\ client \in [Symbols -> Clients]
  /\ drops \in 0..MaxDrops

Resumes(s) == \E i \in DOMAIN cmds[s] : cmds[s][i].type = "RECONNECT"

\* s is in step with the server: it is not waiting for the answer to RECONNECT.
Synced(s) == link[s] = "up" /\ ~Resumes(s)

\* RECONNECT is the first command of its connection; a client that is in step is
\* connected for the server; who never loses a connection is always in step.
LinkInv ==
  \A s \in Symbols :
    /\ link[s] # "up" => cmds[s] = <<>>
    /\ \A i \in DOMAIN cmds[s] : cmds[s][i].type = "RECONNECT" => i = 1
    /\ Synced(s) => s \in connected
    /\ s \notin Unlucky => Synced(s)

\* What each client has still to hear makes it show the game.
TellInv ==
  \A s \in Symbols :
    Good(stream, s, client[s], game, game.status, game, Synced(s),
         opponent(s) \notin connected)

StreamInv == TypeInv /\ LinkInv /\ TellInv /\ PendingIsUnderWay

\* The two players.
LEMMA Opponents ==
  \A s \in Symbols :
    /\ opponent(s) \in Symbols /\ opponent(s) # s /\ opponent(opponent(s)) = s
    /\ Symbols = {s, opponent(s)}
BY DEF Symbols, opponent

\* A stream is its two fields.
LEMMA StreamFields ==
  ASSUME NEW st \in Streams, becomes(st)
  PROVE  stream' = st
BY DEF Streams, becomes, stream

\* Taking a command: RECONNECT, if it is there, is the one that is taken.
LEMMA Taken ==
  ASSUME TypeInv, LinkInv, NEW s \in Symbols, NEW type, takes(s, type)
  PROVE  /\ cmds' \in [Symbols -> Seq(CommandRecords)]
         /\ link[s] = "up"
         /\ Head(cmds[s]) \in CommandRecords /\ Head(cmds[s]).type = type
         /\ Head(cmds[s]) = cmds[s][1] /\ 1 \in DOMAIN cmds[s]
         /\ \A x \in Symbols \ {s} : cmds'[x] = cmds[x]
         /\ \A i \in DOMAIN cmds'[s] : i + 1 \in DOMAIN cmds[s] /\ cmds'[s][i] = cmds[s][i + 1]
         /\ \A i \in DOMAIN cmds[s] : i # 1 =>
              i - 1 \in DOMAIN cmds'[s] /\ cmds'[s][i - 1] = cmds[s][i]
         /\ \A i \in DOMAIN cmds'[s] : cmds'[s][i].type # "RECONNECT"
         /\ Resumes(s) <=> type = "RECONNECT"
<1> DEFINE q == cmds[s]
<1>1. q \in Seq(CommandRecords) /\ q # <<>> /\ Head(q).type = type
  BY DEF TypeInv, takes
<1>2. cmds' = [cmds EXCEPT ![s] = Tail(q)] /\ cmds \in [Symbols -> Seq(CommandRecords)]
  BY DEF TypeInv, takes
<1>3. /\ Tail(q) \in Seq(CommandRecords) /\ Len(q) \in Nat \ {0} /\ Len(Tail(q)) = Len(q) - 1
      /\ \A i \in 1..(Len(q) - 1) : Tail(q)[i] = q[i + 1]
      /\ Head(q) = q[1] /\ Head(q) \in CommandRecords
      /\ DOMAIN q = 1..Len(q) /\ DOMAIN Tail(q) = 1..(Len(q) - 1)
  BY <1>1
<1>4. \A i \in DOMAIN q : q[i].type = "RECONNECT" => i = 1
  BY DEF LinkInv
<1>5. link[s] = "up"
  BY <1>1 DEF LinkInv
<1>6. cmds'[s] = Tail(q) /\ cmds' \in [Symbols -> Seq(CommandRecords)]
      /\ \A x \in Symbols \ {s} : cmds'[x] = cmds[x]
  BY <1>2, <1>3
<1> HIDE DEF q
<1>7. \A i \in DOMAIN Tail(q) : i + 1 \in DOMAIN q /\ Tail(q)[i] = q[i + 1] /\ i + 1 # 1
  BY <1>3
<1>8. \A i \in DOMAIN q : i # 1 => i - 1 \in DOMAIN Tail(q) /\ Tail(q)[i - 1] = q[i]
  BY <1>3
<1>9. \A i \in DOMAIN Tail(q) : Tail(q)[i].type # "RECONNECT"
  BY <1>4, <1>7
<1>10. 1 \in DOMAIN q
  BY <1>3
<1>11. Resumes(s) <=> type = "RECONNECT"
  BY <1>1, <1>3, <1>4, <1>10 DEF Resumes, q
<1>12. QED
  BY <1>1, <1>3, <1>5, <1>6, <1>7, <1>8, <1>9, <1>10, <1>11 DEF q

\* A handler is done when it leaves a stream that is good for both players.
LEMMA Handled ==
  ASSUME TypeInv, LinkInv, NEW s \in Symbols, NEW type, takes(s, type),
         link' = link, client' = client, drops' = drops,
         NEW st, StreamOK(st, seq'), becomes(st), seq' \in Nat \ {0},
         GameOK(game'), accepted' \subseteq Symbols,
         connected' = IF type = "RECONNECT" THEN connected \cup {s} ELSE connected,
         \A x \in Symbols :
           Good(st, x, client[x], game', game'.status, game', Synced(x) \/ x = s,
                opponent(x) \notin connected')
  PROVE  TypeInv' /\ LinkInv' /\ TellInv'
<1>1. stream' = st
  BY StreamFields DEF StreamOK
<1>2. StreamOK(stream, seq)'
  BY <1>1 DEF StreamOK
<1>3. \A x \in Symbols : Synced(x)' <=> Synced(x) \/ x = s
  BY Taken DEF Synced, Resumes
<1>4. TypeInv'
  BY <1>2, Taken DEF TypeInv
<1>5. LinkInv'
  <2>1. SUFFICES ASSUME NEW x \in Symbols
        PROVE  /\ link'[x] # "up" => cmds'[x] = <<>>
               /\ \A i \in DOMAIN cmds'[x] : cmds'[x][i].type = "RECONNECT" => i = 1
               /\ Synced(x)' => x \in connected'
               /\ x \notin Unlucky => Synced(x)'
    BY DEF LinkInv
  <2>2. CASE x = s
    <3>1. link[s] = "up" /\ \A i \in DOMAIN cmds'[s] : cmds'[s][i].type # "RECONNECT"
      BY Taken
    <3>2. s \in connected'
      BY <3>1, Taken DEF LinkInv, Synced
    <3>3. QED
      BY <1>3, <2>2, <3>1, <3>2
  <2>3. CASE x # s
    <3>1. cmds'[x] = cmds[x]
      BY <2>3, Taken
    <3>2. QED
      BY <1>3, <2>3, <3>1 DEF LinkInv
  <2>4. QED
    BY <2>2, <2>3
<1>6. TellInv'
  <2>1. SUFFICES ASSUME NEW x \in Symbols
        PROVE  Good(stream', x, client'[x], game', game'.status, game', Synced(x)',
                    opponent(x) \notin connected')
    BY DEF TellInv
  <2>2. Synced(x)' = (Synced(x) \/ x = s)
    <3>1. Synced(x)' \in BOOLEAN /\ (Synced(x) \/ x = s) \in BOOLEAN
      BY DEF Synced
    <3>2. QED
      BY <1>3, <3>1
  <2>3. QED
    BY <1>1, <2>2
<1>7. QED
  BY <1>4, <1>5, <1>6

-----------------------------------------------------------------------------
(***************************************************************************)
(* The handlers of the server.                                             *)
(***************************************************************************)

\* What is sent is a message.
LEMMA MessageTypes ==
  ASSUME connected \subseteq Symbols, NEW s \in Symbols, NEW e \in RoomEvents
  PROVE  /\ toPlayer(s, e) \in Messages /\ toPlayer(s, e).event = e
         /\ toPlayer(s, e).to = {s} /\ toPlayer(s, e).keep = {s}
         /\ toOthers(s, e) \in Messages /\ toOthers(s, e).event = e
         /\ toOthers(s, e).to = connected \ {s} /\ toOthers(s, e).keep = {opponent(s)}
         /\ toBroadcast(e) \in Messages /\ toBroadcast(e).event = e
         /\ toBroadcast(e).to = connected /\ toBroadcast(e).keep = Symbols
         /\ e \in Events
BY Opponents DEF toPlayer, toOthers, toBroadcast, Messages, Events

\* The fields of an event about the board.
LEMMA BoardEvent ==
  ASSUME NEW n \in Nat \ {0}, NEW type \in BoardTypes, NEW g \in Games
  PROVE  /\ event(type, n, g) \in RoomEvents
         /\ event(type, n, g).type = type /\ event(type, n, g).seq = n
         /\ event(type, n, g).game = g
BY DEF event, RoomEvents

\* The fields of a notice.
LEMMA NoticeEvent ==
  ASSUME NEW n \in Nat \ {0}, NEW type \in NoticeTypes
  PROVE  /\ notice(type, n) \in RoomEvents
         /\ notice(type, n).type = type /\ notice(type, n).seq = n
         /\ type \notin BoardTypes
BY DEF notice, RoomEvents, NoticeTypes, BoardTypes, Full, MoveTypes

\* The fields of a request of a rematch.
LEMMA RematchEvent ==
  ASSUME NEW n \in Nat \ {0}, NEW s \in Symbols
  PROVE  /\ rematchRequested(n, s) \in RoomEvents
         /\ rematchRequested(n, s).type = "REMATCH_REQUESTED"
         /\ rematchRequested(n, s).seq = n /\ "REMATCH_REQUESTED" \notin BoardTypes
BY DEF rematchRequested, RoomEvents, BoardTypes, Full, MoveTypes

\* A handler that changes nothing but the commands.
LEMMA NothingHandled ==
  ASSUME TypeInv, LinkInv, TellInv, NEW s \in Symbols, NEW type, takes(s, type),
         type # "RECONNECT", accepted' \subseteq Symbols,
         UNCHANGED <<seq, buffer, game, events, connected, link, client, drops>>
  PROVE  TypeInv' /\ LinkInv' /\ TellInv'
<1>1. stream \in Streams /\ becomes(stream) /\ StreamOK(stream, seq')
  BY DEF TypeInv, StreamOK, becomes, stream
<1>2. Synced(s)
  BY Taken DEF Synced
<1>3. \A x \in Symbols : (Synced(x) \/ x = s) = Synced(x)
  BY <1>2 DEF Synced
<1>4. \A x \in Symbols :
        Good(stream, x, client[x], game', game'.status, game', Synced(x) \/ x = s,
             opponent(x) \notin connected')
  BY <1>3 DEF TellInv
<1>5. QED
  BY <1>1, <1>4, Handled DEF TypeInv

\* MOVE_REJECTED carries the game as it is.
LEMMA RejectMove ==
  ASSUME TypeInv, LinkInv, TellInv, NEW s \in Symbols, takes(s, "MAKE_MOVE"), rejectMove(s),
         UNCHANGED <<accepted, connected, link, client, drops>>
  PROVE  TypeInv' /\ LinkInv' /\ TellInv'
<1> DEFINE e == event("MOVE_REJECTED", seq + 1, game)
           m == toPlayer(s, e)
           st == emit(stream, m)
<1>1. /\ seq \in Nat /\ seq' = seq + 1 /\ becomes(st) /\ game' = game
      /\ StreamOK(stream, seq) /\ GameOK(game) /\ game \in Games
  BY DEF TypeInv, rejectMove, GameOK
<1>2. e \in RoomEvents /\ m \in Messages /\ m.event = e /\ e.seq = seq + 1
      /\ e.type = "MOVE_REJECTED" /\ e.game = game /\ m.to = {s} /\ m.keep = {s}
  <2>1. e \in RoomEvents /\ e.seq = seq + 1 /\ e.type = "MOVE_REJECTED" /\ e.game = game
    BY <1>1, BoardEvent DEF BoardTypes
  <2> HIDE DEF e
  <2>2. QED
    BY <2>1, MessageTypes DEF TypeInv
<1> HIDE DEF e, m
<1>3. StreamOK(st, seq') /\ seq' \in Nat \ {0}
  BY <1>1, <1>2, Emitted
<1>4. Synced(s)
  BY Taken DEF Synced
<1>5. ASSUME NEW x \in Symbols
      PROVE  Good(st, x, client[x], game, game.status, game, Synced(x),
                  opponent(x) \notin connected)
  <2> DEFINE sync == Synced(x)
             gone == opponent(x) \notin connected
  <2>1. Good(stream, x, client[x], game, game.status, game, sync, gone)
    BY DEF TellInv
  <2>2. sync \in BOOLEAN /\ gone \in BOOLEAN
    BY DEF Synced
  <2> HIDE DEF sync, gone
  <2>3. OnBoard(game, game) /\ Before(game, game) /\ game.moves <= game.moves
    BY <1>1 DEF OnBoard, Before, Games
  <2>4. Reaches(x, m) => Fits(x, m.event, game, sync, gone, game, sync, gone)
    BY <1>1, <1>2, RejectFits
  <2>5. /\ m.event.game.id = game.id /\ m.event.game.moves <= game.moves
        /\ m.event.game.status = "FINISHED" => game.status = "FINISHED"
        /\ OnBoard(m.event.game, game)
        /\ m.event.type \notin {"GAME_STARTED", "GAME_FINISHED", "RECONNECT_ACK",
                                "STATE_SYNC_SNAPSHOT", "OPPONENT_DISCONNECTED"}
        /\ m.event.seq = seq + 1 /\ seq < seq + 1
    BY <1>1, <1>2, <2>3
  <2>6. Good(st, x, client[x], game, game.status, game, sync, gone)
    BY <1>1, <1>2, <2>1, <2>2, <2>3, <2>4, <2>5, EmitGood
  <2>7. QED
    BY <2>6 DEF sync, gone
<1> HIDE DEF st
<1>6. \A x \in Symbols : (Synced(x) \/ x = s) = Synced(x)
  BY <1>4 DEF Synced
<1>7. QED
  BY <1>1, <1>3, <1>5, <1>6, Handled DEF TypeInv

\* An accepted move: the player is answered, the opponent told, and, if it was the
\* last, both are told that the game is over.
LEMMA AcceptMove ==
  ASSUME TypeInv, LinkInv, TellInv, NEW s \in Symbols, takes(s, "MAKE_MOVE"), acceptMove(s),
         game.turn = s, game.status = "ACTIVE",
         UNCHANGED <<accepted, connected, link, client, drops>>
  PROVE  TypeInv' /\ LinkInv' /\ TellInv'
<1>1. PICK over \in BOOLEAN :
        LET g == [game EXCEPT !.moves = @ + 1,
                              !.turn = IF over THEN s ELSE opponent(s),
                              !.status = IF over THEN "FINISHED" ELSE "ACTIVE"]
            ack == toPlayer(s, event("MOVE_ACK", seq + 1, g))
            broadcast == toOthers(s, event("MOVE_BROADCAST", seq + 2, g))
            finished == toBroadcast(event("GAME_FINISHED", seq + 3, g))
            told == emit(emit(stream, ack), broadcast)
        IN
        /\ game.moves + 1 = MaxMoves => over
        /\ game' = g
        /\ seq' = seq + (IF over THEN 3 ELSE 2)
        /\ becomes(IF over THEN emit(told, finished) ELSE told)
  BY DEF acceptMove
<1> DEFINE g == game'
           ack == toPlayer(s, event("MOVE_ACK", seq + 1, g))
           broadcast == toOthers(s, event("MOVE_BROADCAST", seq + 2, g))
           finished == toBroadcast(event("GAME_FINISHED", seq + 3, g))
           st1 == emit(stream, ack)
           st2 == emit(st1, broadcast)
           st3 == emit(st2, finished)
           st == IF over THEN st3 ELSE st2
           h == [g EXCEPT !.status = "ACTIVE"]
<1>2. /\ g = [game EXCEPT !.moves = @ + 1,
                          !.turn = IF over THEN s ELSE opponent(s),
                          !.status = IF over THEN "FINISHED" ELSE "ACTIVE"]
      /\ game.moves + 1 = MaxMoves => over
      /\ seq' = seq + (IF over THEN 3 ELSE 2)
      /\ becomes(st)
  BY <1>1
<1>3. /\ seq \in Nat /\ StreamOK(stream, seq) /\ game \in Games /\ GameOK(game)
      /\ game.moves < MaxMoves /\ game.moves \in Nat /\ MaxMoves \in Nat
  BY BoundsAssumption DEF TypeInv, GameOK, Games
<1>4. /\ g \in Games /\ GameOK(g) /\ g.id = game.id /\ g.moves = game.moves + 1
      /\ g.status = IF over THEN "FINISHED" ELSE "ACTIVE"
      /\ g.turn = IF over THEN game.turn ELSE opponent(s)
  <2>1. game.moves + 1 \in 0..MaxMoves /\ opponent(s) \in Symbols
    BY <1>3, Opponents
  <2>2. g \in Games /\ g.id = game.id /\ g.moves = game.moves + 1
        /\ g.status = (IF over THEN "FINISHED" ELSE "ACTIVE")
        /\ g.turn = IF over THEN s ELSE opponent(s)
    BY <1>2, <1>3, <2>1 DEF Games
  <2>3. GameOK(g)
    BY <1>2, <1>3, <2>1, <2>2 DEF GameOK
  <2>4. QED
    BY <2>2, <2>3
<1>5. /\ h \in Games /\ h.id = g.id /\ h.moves = g.moves /\ h.turn = g.turn
      /\ h.status = "ACTIVE"
  BY <1>4 DEF Games
<1>types. /\ g \in Games
       /\ seq + 1 \in Nat \ {0} /\ seq + 2 \in Nat \ {0} /\ seq + 3 \in Nat \ {0}
       /\ {"MOVE_ACK", "MOVE_BROADCAST", "GAME_FINISHED"} \subseteq BoardTypes
  BY <1>3, <1>4 DEF BoardTypes, MoveTypes
<1> HIDE DEF h, g
<1>6. /\ ack \in Messages /\ ack.event.seq = seq + 1 /\ ack.event.type = "MOVE_ACK"
      /\ ack.event.game = g /\ ack.to = {s} /\ ack.keep = {s}
  <2> DEFINE e == event("MOVE_ACK", seq + 1, g)
  <2>1. e \in RoomEvents /\ e.seq = seq + 1 /\ e.type = "MOVE_ACK" /\ e.game = g
    BY <1>types, BoardEvent
  <2>2. ack = toPlayer(s, e)
    OBVIOUS
  <2> HIDE DEF e, ack
  <2>3. QED
    BY <2>1, <2>2, MessageTypes DEF TypeInv
<1>7. /\ broadcast \in Messages /\ broadcast.event.seq = seq + 2
      /\ broadcast.event.type = "MOVE_BROADCAST" /\ broadcast.event.game = g
      /\ broadcast.to = connected \ {s} /\ broadcast.keep = {opponent(s)}
  <2> DEFINE e == event("MOVE_BROADCAST", seq + 2, g)
  <2>1. e \in RoomEvents /\ e.seq = seq + 2 /\ e.type = "MOVE_BROADCAST" /\ e.game = g
    BY <1>types, BoardEvent
  <2>2. broadcast = toOthers(s, e)
    OBVIOUS
  <2> HIDE DEF e, broadcast
  <2>3. QED
    BY <2>1, <2>2, MessageTypes DEF TypeInv
<1>8. /\ finished \in Messages /\ finished.event.seq = seq + 3
      /\ finished.event.type = "GAME_FINISHED" /\ finished.event.game = g
      /\ finished.to = connected /\ finished.keep = Symbols
  <2> DEFINE e == event("GAME_FINISHED", seq + 3, g)
  <2>1. e \in RoomEvents /\ e.seq = seq + 3 /\ e.type = "GAME_FINISHED" /\ e.game = g
    BY <1>types, BoardEvent
  <2>2. finished = toBroadcast(e)
    OBVIOUS
  <2> HIDE DEF e, finished
  <2>3. QED
    BY <2>1, <2>2, MessageTypes DEF TypeInv
<1> HIDE DEF ack, broadcast, finished
<1>9. StreamOK(st1, seq + 1)
  BY <1>3, <1>6, Emitted
<1> HIDE DEF st1
<1>10. StreamOK(st2, seq + 2)
  BY <1>3, <1>7, <1>9, Emitted
<1> HIDE DEF st2
<1>11. StreamOK(st3, seq + 3)
  BY <1>3, <1>8, <1>10, Emitted
<1> HIDE DEF st3
<1>12. StreamOK(st, seq') /\ seq' \in Nat \ {0}
  BY <1>2, <1>3, <1>10, <1>11
<1>13. Synced(s) /\ link[s] = "up"
  BY Taken DEF Synced
<1>14. /\ OnBoard(g, g) /\ OnBoard(g, h) /\ Before(game, h) /\ Before(h, g) /\ Before(g, g)
       /\ Before(game, game) /\ Before(h, h)
       /\ game.moves <= g.moves /\ g.moves <= g.moves /\ game.moves <= game.moves
       /\ game.moves <= h.moves
  BY <1>3, <1>4, <1>5 DEF OnBoard, Before, Games
<1>15. ASSUME NEW x \in Symbols
       PROVE  Good(st, x, client[x], g, g.status, g, Synced(x), opponent(x) \notin connected)
  <2> DEFINE sync == Synced(x)
             gone == opponent(x) \notin connected
  <2>1. Good(stream, x, client[x], game, "ACTIVE", game, sync, gone)
    BY DEF TellInv
  <2>2. sync \in BOOLEAN /\ gone \in BOOLEAN /\ (sync => x \in connected /\ link[x] = "up")
    BY DEF Synced, LinkInv
  <2> HIDE DEF sync, gone
  <2>3. ASSUME NEW e \in RoomEvents, e.type \in MoveTypes, e.game = g
        PROVE  Fits(x, e, game, sync, gone, h, sync, gone)
    <3>1. h.turn = IF e.game.status = "FINISHED" THEN game.turn ELSE e.game.turn
      BY <1>4, <1>5, <2>3
    <3>2. QED
      BY <1>3, <1>4, <1>5, <1>14, <2>3, <3>1, MoveFits
  <2>4. Good(st2, x, client[x], g, "ACTIVE", h, sync, gone)
    <3>1. CASE x = s
      <4>1. Reaches(x, ack) /\ x \in ack.keep /\ x \notin broadcast.keep /\ ~Reaches(x, broadcast)
        BY <1>6, <1>7, <1>13, <3>1, Opponents DEF Reaches
      <4>2. Fits(x, ack.event, game, sync, gone, h, sync, gone)
        BY <1>6, <2>3, MessageSeq DEF MoveTypes
      <4>3. ack.event.game.id = g.id /\ ack.event.game.moves <= g.moves
            /\ (ack.event.game.status = "FINISHED" => g.status = "FINISHED")
            /\ OnBoard(ack.event.game, g) /\ ack.event.type \in BoardTypes
        BY <1>6, <1>14 DEF BoardTypes, MoveTypes
      <4>4. Good(st1, x, client[x], g, "ACTIVE", h, sync, gone)
        BY <1>3, <1>4, <1>5, <1>6, <1>14, <2>1, <2>2, <4>1, <4>2, <4>3, EmitGood DEF st1
      <4>5. QED
        BY <1>3, <1>4, <1>5, <1>7, <1>9, <1>14, <2>2, <4>1, <4>4, EmitGood DEF st2
    <3>2. CASE x # s
      <4>1. /\ ~Reaches(x, ack) /\ x \notin ack.keep /\ x \in broadcast.keep
            /\ sync => Reaches(x, broadcast)
        BY <1>6, <1>7, <2>2, <3>2, Opponents DEF Reaches
      <4>2. Fits(x, broadcast.event, game, sync, gone, h, sync, gone)
        BY <1>7, <2>3, MessageSeq DEF MoveTypes
      <4>3. Good(st1, x, client[x], game, "ACTIVE", game, sync, gone)
        BY <1>3, <1>6, <1>14, <2>1, <2>2, <4>1, EmitGood DEF st1
      <4>4. broadcast.event.game.id = g.id /\ broadcast.event.game.moves <= g.moves
            /\ (broadcast.event.game.status = "FINISHED" => g.status = "FINISHED")
            /\ OnBoard(broadcast.event.game, g) /\ broadcast.event.type \in BoardTypes
        BY <1>7, <1>14 DEF BoardTypes, MoveTypes
      <4>5. QED
        BY <1>3, <1>4, <1>5, <1>7, <1>9, <1>14, <2>2, <4>1, <4>2, <4>3, <4>4, EmitGood
           DEF st2
    <3>3. QED
      BY <3>1, <3>2
  <2>5. CASE ~over
    <3>1. h = g /\ g.status = "ACTIVE"
      BY <1>4, <2>5 DEF h, Games
    <3>2. QED
      BY <2>4, <2>5, <3>1 DEF sync, gone
  <2>6. CASE over
    <3>1. g.status = "FINISHED" /\ x \in finished.keep /\ (sync => Reaches(x, finished))
      BY <1>4, <1>8, <2>2, <2>6 DEF Reaches
    <3>2. Fits(x, finished.event, h, sync, gone, g, sync, gone)
      BY <1>4, <1>5, <1>8, <3>1, FinishFits, MessageSeq
    <3>3. finished.event.game.id = g.id /\ finished.event.game.moves <= g.moves
          /\ OnBoard(finished.event.game, g) /\ finished.event.type \in BoardTypes
      BY <1>8, <1>14 DEF BoardTypes
    <3>4. Good(st3, x, client[x], g, g.status, g, sync, gone)
      BY <1>3, <1>4, <1>5, <1>8, <1>10, <1>14, <2>2, <2>4, <3>1, <3>2, <3>3, EmitGood
         DEF st3
    <3>5. QED
      BY <2>6, <3>4 DEF sync, gone
  <2>7. QED
    BY <2>5, <2>6
<1>16. \A x \in Symbols : (Synced(x) \/ x = s) = Synced(x)
  BY <1>13 DEF Synced
<1> HIDE DEF st
<1>17. becomes(st)
  BY <1>2 DEF st
<1>18. QED
  BY <1>4, <1>12, <1>15, <1>16, <1>17, Handled DEF TypeInv, g

\* The answer to a player who asks for what is missing brings the game.
LEMMA SyncFits ==
  ASSUME GameOK(game), NEW B \in Seq(Messages), NEW k, Ordered(B, k),
         NEW n \in Nat \ {0}, NEW from \in Nat, NEW s \in Symbols, NEW gone,
         Kept(B, s, game, game.status, gone)
  PROVE  LET e == stateSync(getReplayEvents(B, n, from, s), n) IN
         /\ e \in Events /\ e.type # "RECONNECT_ACK"
         /\ Fits(s, e, game, TRUE, gone, game, TRUE, gone)
<1> DEFINE missed == getReplayEvents(B, n, from, s)
           e == stateSync(missed, n)
           es == relevant(B, from, s)
<1>1. game \in Games /\ game.status \in {"ACTIVE", "FINISHED"}
  BY DEF GameOK
<1>2. missed = <<>> \/ missed = es
  BY DEF getReplayEvents
<1> HIDE DEF missed
<1>3. CASE missed = <<>>
  <2>1. e = event("STATE_SYNC_SNAPSHOT", n, game) /\ "STATE_SYNC_SNAPSHOT" \in BoardTypes
    BY <1>3 DEF stateSync, BoardTypes, Full
  <2> DEFINE snapshot == event("STATE_SYNC_SNAPSHOT", n, game)
  <2>2. /\ snapshot \in RoomEvents /\ snapshot.type = "STATE_SYNC_SNAPSHOT"
        /\ snapshot.game = game
    BY <1>1, <2>1, BoardEvent
  <2>whole. e \in RoomEvents /\ e.type = "STATE_SYNC_SNAPSHOT" /\ e.game = game
    BY <2>1, <2>2
  <2> HIDE DEF e
  <2>3. Fits(s, e, game, TRUE, gone, game, TRUE, gone)
    BY <1>1, <2>whole, FullFits DEF Full
  <2>4. QED
    BY <2>whole, <2>3 DEF Events, e, missed
<1>4. CASE missed # <<>>
  <2>1. PICK h : Selects(B, from, s, Len(B), es, h)
    BY RelevantSelects
  <2>2. es \in Seq(RoomEvents)
    BY <2>1 DEF Selects
  <2>3. /\ Tells(es, 1..Len(es), game) /\ TellsEnd(es, 1..Len(es), game.status)
        /\ TellsPresence(es, 1..Len(es), s, gone)
    BY <2>1, ReplayTells, ReplayTellsEnd, ReplayTellsPresence DEF Kept
  <2>4. e = replaySync(n, es)
    BY <1>2, <1>4 DEF stateSync
  <2> HIDE DEF e, es
  <2>5. e \in Replays /\ e.events = es /\ e.type = "STATE_SYNC_REPLAY"
    BY <2>2, <2>4 DEF replaySync, Replays
  <2>6. Fits(s, e, game, TRUE, gone, game, TRUE, gone)
    BY <1>1, <2>3, <2>5, ReplayFits
  <2>7. QED
    BY <2>5, <2>6 DEF Events, e, missed
<1>5. QED
  BY <1>3, <1>4

\* SYNC_REQUEST is answered with what was missed, or with the game as it is.
LEMMA HandleSyncRequest ==
  ASSUME TypeInv, LinkInv, TellInv, NEW s \in Symbols, handleSyncRequest(s)
  PROVE  TypeInv' /\ LinkInv' /\ TellInv'
<1> DEFINE missed == getReplayEvents(buffer, seq, Head(cmds[s]).fromSeq, s)
           e == stateSync(missed, seq)
           m == toPlayer(s, e)
           st == send(stream, m)
<1>1. /\ takes(s, "SYNC_REQUEST") /\ becomes(st)
      /\ UNCHANGED <<seq, game, accepted, connected, link, client, drops>>
  BY DEF handleSyncRequest
<1>2. Head(cmds[s]).fromSeq \in Nat
  BY <1>1, Taken DEF CommandRecords
<1>3. /\ seq \in Nat \ {0} /\ StreamOK(stream, seq) /\ GameOK(game) /\ game \in Games
      /\ buffer \in Seq(Messages) /\ Ordered(buffer, seq)
  BY DEF TypeInv, StreamOK, Streams, stream, GameOK
<1>4. Synced(s)
  BY <1>1, Taken DEF Synced
<1>5. /\ e \in Events /\ e.type # "RECONNECT_ACK"
      /\ Fits(s, e, game, TRUE, opponent(s) \notin connected,
              game, TRUE, opponent(s) \notin connected)
  <2>1. Kept(buffer, s, game, game.status, opponent(s) \notin connected)
    BY DEF TellInv, Good, stream
  <2>2. QED
    BY <1>2, <1>3, <2>1, SyncFits
<1> HIDE DEF missed, e
<1>6. m.event = e /\ m.to = {s}
  BY DEF toPlayer
<1> HIDE DEF m
<1>7. StreamOK(st, seq')
  BY <1>1, <1>3, <1>5, <1>6, SentOK
<1>8. ASSUME NEW x \in Symbols
      PROVE  Good(st, x, client[x], game, game.status, game, Synced(x),
                  opponent(x) \notin connected)
  <2> DEFINE sync == Synced(x)
             gone == opponent(x) \notin connected
  <2>1. Good(stream, x, client[x], game, game.status, game, sync, gone)
    BY DEF TellInv
  <2>2. sync \in BOOLEAN /\ (x = s => sync = TRUE)
    BY <1>4 DEF Synced
  <2>3. Reaches(x, m) => Fits(x, m.event, game, sync, gone, game, sync, gone)
    BY <1>5, <1>6, <2>2 DEF Reaches
  <2> HIDE DEF sync, gone
  <2>4. Good(st, x, client[x], game, game.status, game, sync, gone)
    BY <1>3, <1>5, <1>6, <2>1, <2>2, <2>3, SendGood
  <2>5. QED
    BY <2>4 DEF sync, gone
<1> HIDE DEF st
<1>9. \A x \in Symbols : (Synced(x) \/ x = s) = Synced(x)
  BY <1>4 DEF Synced
<1>10. QED
  BY <1>1, <1>3, <1>7, <1>8, <1>9, Handled DEF TypeInv

\* RECONNECT: the opponent is told, the player is answered, and then gets what the
\* numbers say was missed.
LEMMA HandleReconnect ==
  ASSUME TypeInv, LinkInv, TellInv, NEW s \in Symbols, handleReconnect(s)
  PROVE  TypeInv' /\ LinkInv' /\ TellInv'
<1> DEFINE o == opponent(s)
           told == o \in connected
           note == toPlayer(o, notice("OPPONENT_RECONNECTED", seq + 1))
           noted == IF told THEN emit(stream, note) ELSE stream
           seqNow == IF told THEN seq + 2 ELSE seq + 1
           ack == toPlayer(s, event("RECONNECT_ACK", seqNow, game))
           acked == send(noted, ack)
           last == Head(cmds[s]).lastReceivedSeq
           missed == getReplayEvents(acked.buffer, seqNow, last + 1, s)
           sync == toPlayer(s, stateSync(missed, seqNow))
           st == IF last < seqNow THEN send(acked, sync) ELSE acked
<1>1. /\ takes(s, "RECONNECT") /\ becomes(st) /\ seq' = seqNow
      /\ connected' = connected \cup {s}
      /\ UNCHANGED <<game, accepted, link, client, drops>>
  BY DEF handleReconnect
<1>2. /\ link[s] = "up" /\ ~Synced(s) /\ s \in Unlucky /\ last \in Nat
  <2>1. link[s] = "up" /\ Resumes(s) /\ last \in Nat
    BY <1>1, Taken DEF CommandRecords
  <2>2. QED
    BY <2>1 DEF Synced, LinkInv
<1>3. /\ seq \in Nat /\ StreamOK(stream, seq) /\ GameOK(game) /\ game \in Games
      /\ connected \subseteq Symbols
  BY DEF TypeInv, GameOK
<1>4. o \in Symbols /\ o # s /\ opponent(o) = s /\ \A x \in Symbols : x = s \/ x = o
  BY Opponents
\* With one unlucky player, the other is there and is told.
<1>5. OneUnlucky => o \in connected /\ link[o] = "up"
  <2>1. ASSUME OneUnlucky PROVE o \notin Unlucky
    <3>1. Unlucky \subseteq Symbols
      BY BoundsAssumption
    <3>2. QED
      BY <1>2, <1>4, <2>1, <3>1 DEF OneUnlucky
  <2>2. QED
    BY <1>4, <2>1 DEF LinkInv, Synced
<1> DEFINE G(x) == IF x = s THEN o \notin connected ELSE FALSE
<1>6. /\ note \in Messages /\ note.event.type = "OPPONENT_RECONNECTED"
      /\ note.event.seq = seq + 1 /\ note.to = {o} /\ note.keep = {o}
      /\ note.event.type \notin BoardTypes
  <2> DEFINE e == notice("OPPONENT_RECONNECTED", seq + 1)
  <2>1. e \in RoomEvents /\ e.type = "OPPONENT_RECONNECTED" /\ e.seq = seq + 1
        /\ e.type \notin BoardTypes
    BY <1>3, NoticeEvent DEF NoticeTypes
  <2>2. note = toPlayer(o, e)
    OBVIOUS
  <2> HIDE DEF e, note, o
  <2>3. QED
    BY <1>3, <1>4, <2>1, <2>2, MessageTypes
<1>7. /\ seqNow \in Nat \ {0}
      /\ ack.event \in RoomEvents /\ ack.event \in Events /\ ack.to = {s}
      /\ ack.event.type = "RECONNECT_ACK" /\ ack.event.game = game
  <2>1. seqNow \in Nat \ {0} /\ "RECONNECT_ACK" \in BoardTypes
    BY <1>3 DEF BoardTypes, Full
  <2> HIDE DEF seqNow
  <2> DEFINE e == event("RECONNECT_ACK", seqNow, game)
  <2>2. e \in RoomEvents /\ e.type = "RECONNECT_ACK" /\ e.game = game
    BY <1>3, <2>1, BoardEvent
  <2>3. ack = toPlayer(s, e)
    OBVIOUS
  <2> HIDE DEF e, ack
  <2>4. QED
    BY <1>3, <2>1, <2>2, <2>3, MessageTypes
<1> HIDE DEF note, ack
<1>8. StreamOK(noted, seqNow) /\ noted.buffer \in Seq(Messages)
  <2>1. StreamOK(noted, seqNow)
    <3>1. CASE told
      <4>1. StreamOK(noted, seq + 1)
        BY <1>3, <1>6, <3>1, Emitted
      <4>2. seq + 1 \in Nat /\ seqNow \in Nat /\ seq + 1 <= seqNow
        BY <1>3, <3>1
      <4> HIDE DEF noted, seqNow
      <4>3. QED
        BY <4>1, <4>2, StreamLater
    <3>2. CASE ~told
      <4>1. noted = stream
        BY <3>2
      <4>2. seq \in Nat /\ seqNow \in Nat /\ seq <= seqNow
        BY <1>3, <3>2
      <4> HIDE DEF noted, seqNow
      <4>3. QED
        BY <1>3, <4>1, <4>2, StreamLater
    <3>3. QED
      BY <3>1, <3>2
  <2> HIDE DEF noted, seqNow
  <2>2. QED
    BY <2>1 DEF StreamOK, Streams
<1>9. ASSUME NEW x \in Symbols
      PROVE  Good(noted, x, client[x], game, game.status, game, Synced(x), G(x))
  <2> DEFINE syn == Synced(x)
             gone == opponent(x) \notin connected
             gone1 == G(x)
  <2>1. Good(stream, x, client[x], game, game.status, game, syn, gone)
    BY DEF TellInv
  <2>2. syn \in BOOLEAN /\ gone \in BOOLEAN /\ gone1 \in BOOLEAN
    BY DEF Synced
  <2>3. x = s => gone1 = gone
    OBVIOUS
  <2>4. x = s \/ x = o
    BY <1>4
  <2> HIDE DEF syn, gone, gone1, noted, G, o
  <2>5. CASE told
    <3>1. noted = emit(stream, note)
      BY <2>5 DEF noted
    <3>2. x = o => x \in note.keep /\ (OneUnlucky => Reaches(x, note))
      BY <1>5, <1>6 DEF Reaches
    <3>3. Good(noted, x, client[x], game, game.status, game, syn, gone1)
      BY <1>3, <1>6, <2>1, <2>2, <2>3, <2>4, <3>1, <3>2, NoticeGood
    <3>4. QED
      BY <3>3 DEF syn, gone1
  <2>6. CASE ~told
    <3>1. noted = stream /\ ~OneUnlucky
      BY <1>5, <2>6 DEF noted
    <3>2. Good(noted, x, client[x], game, game.status, game, syn, gone1)
      BY <1>3, <2>1, <2>2, <3>1, UnsentGood DEF StreamOK
    <3>3. QED
      BY <3>2 DEF syn, gone1
  <2>7. QED
    BY <2>5, <2>6
<1> HIDE DEF noted
<1>10. StreamOK(acked, seqNow) /\ acked.buffer = noted.buffer
  <2> HIDE DEF seqNow
  <2>1. noted \in Streams
    BY <1>8 DEF StreamOK
  <2>2. QED
    BY <1>7, <1>8, <2>1, SentOK, Sent
<1>11. ASSUME NEW x \in Symbols
       PROVE  Good(acked, x, client[x], game, game.status, game, Synced(x) \/ x = s, G(x))
  <2> DEFINE syn == Synced(x)
             syn1 == Synced(x) \/ x = s
             gone == G(x)
  <2>1. Good(noted, x, client[x], game, game.status, game, syn, gone)
    BY <1>9
  <2>2. syn \in BOOLEAN /\ syn1 \in BOOLEAN /\ (x # s => syn1 = syn)
    BY DEF Synced
  <2>3. x = s <=> Reaches(x, ack)
    BY <1>2, <1>7 DEF Reaches
  <2> HIDE DEF syn, syn1, gone
  <2>4. Fits(x, ack.event, game, syn, gone, game, syn1, gone)
    BY <1>3, <1>7, FullFits DEF Full
  <2>5. Good(acked, x, client[x], game, game.status, game, syn1, gone)
    BY <1>3, <1>7, <1>8, <2>1, <2>2, <2>3, <2>4, SendGood
  <2>6. QED
    BY <2>5 DEF syn1, gone
<1>12. /\ sync.event \in Events /\ sync.event.type # "RECONNECT_ACK" /\ sync.to = {s}
       /\ Fits(s, sync.event, game, TRUE, G(s), game, TRUE, G(s))
  <2>1. Kept(noted.buffer, s, game, game.status, G(s))
    BY <1>9 DEF Good
  <2>2. Ordered(noted.buffer, seqNow)
    BY <1>8 DEF StreamOK
  <2>3. sync.to = {s} /\ sync.event = stateSync(missed, seqNow)
    BY DEF toPlayer
  <2>4. missed = getReplayEvents(noted.buffer, seqNow, last + 1, s) /\ last + 1 \in Nat
    BY <1>2, <1>10
  <2> HIDE DEF sync, missed, seqNow, last, G, acked
  <2> DEFINE e == stateSync(getReplayEvents(noted.buffer, seqNow, last + 1, s), seqNow)
  <2>5. e \in Events /\ e.type # "RECONNECT_ACK" /\ Fits(s, e, game, TRUE, G(s), game, TRUE, G(s))
    BY <1>3, <1>7, <1>8, <2>1, <2>2, <2>4, SyncFits
  <2>6. sync.event = e
    BY <2>3, <2>4
  <2> HIDE DEF e
  <2>7. QED
    BY <2>3, <2>5, <2>6
<1> HIDE DEF sync, acked, seqNow
<1>13. StreamOK(st, seqNow)
  BY <1>10, <1>12, SentOK
<1>14. ASSUME NEW x \in Symbols
       PROVE  Good(st, x, client[x], game, game.status, game, Synced(x) \/ x = s, G(x))
  <2> DEFINE syn == Synced(x) \/ x = s
             gone == G(x)
  <2>1. Good(acked, x, client[x], game, game.status, game, syn, gone)
    BY <1>11
  <2>2. syn \in BOOLEAN /\ (x = s => syn = TRUE)
    BY DEF Synced
  <2>3. Reaches(x, sync) => Fits(x, sync.event, game, syn, gone, game, syn, gone)
    BY <1>12, <2>2 DEF Reaches
  <2> HIDE DEF syn, gone
  <2>4. Good(send(acked, sync), x, client[x], game, game.status, game, syn, gone)
    BY <1>3, <1>10, <1>12, <2>1, <2>2, <2>3, SendGood
  <2>5. QED
    BY <2>1, <2>4 DEF syn, gone
<1> HIDE DEF st
<1>15. \A x \in Symbols : G(x) = (opponent(x) \notin connected')
  <2>1. \A x \in Symbols : x = s \/ x = o
    BY <1>4
  <2>2. G(s) = (opponent(s) \notin connected')
    BY <1>1, <1>4
  <2>3. G(o) = (opponent(o) \notin connected')
    BY <1>1, <1>4
  <2>4. QED
    BY <2>1, <2>2, <2>3
<1>16. QED
  <2>1. \A x \in Symbols :
          Good(st, x, client[x], game', game'.status, game', Synced(x) \/ x = s,
               opponent(x) \notin connected')
    BY <1>1, <1>14, <1>15
  <2>2. connected' = (IF "RECONNECT" = "RECONNECT" THEN connected \cup {s} ELSE connected)
    BY <1>1
  <2>3. StreamOK(st, seq') /\ seq' \in Nat \ {0} /\ GameOK(game') /\ accepted' \subseteq Symbols
    BY <1>1, <1>3, <1>7, <1>13 DEF TypeInv
  <2> HIDE DEF G, o
  <2>4. QED
    BY <1>1, <2>1, <2>2, <2>3, Handled

\* A notice to both players that is not about a connection.
LEMMA NoticeToAll ==
  ASSUME TypeInv, TellInv, NEW e \in RoomEvents, e.seq = seq + 1,
         e.type \notin BoardTypes, e.type # "OPPONENT_DISCONNECTED"
  PROVE  LET st == emit(stream, toBroadcast(e)) IN
         /\ StreamOK(st, seq + 1)
         /\ \A x \in Symbols :
              Good(st, x, client[x], game, game.status, game, Synced(x),
                   opponent(x) \notin connected)
<1> DEFINE m == toBroadcast(e)
           st == emit(stream, m)
<1>1. /\ seq \in Nat /\ StreamOK(stream, seq) /\ game \in Games /\ connected \subseteq Symbols
  BY DEF TypeInv, GameOK
<1>2. m \in Messages /\ m.event = e
  BY <1>1, MessageTypes DEF Symbols
<1> HIDE DEF m
<1>3. StreamOK(st, seq + 1)
  BY <1>1, <1>2, Emitted
<1>4. ASSUME NEW x \in Symbols
      PROVE  Good(st, x, client[x], game, game.status, game, Synced(x),
                  opponent(x) \notin connected)
  <2> DEFINE sync == Synced(x)
             gone == opponent(x) \notin connected
  <2>1. Good(stream, x, client[x], game, game.status, game, sync, gone)
    BY DEF TellInv
  <2>2. sync \in BOOLEAN /\ gone \in BOOLEAN
    BY DEF Synced
  <2> HIDE DEF sync, gone
  <2>3. Good(st, x, client[x], game, game.status, game, sync, gone)
    BY <1>1, <1>2, <2>1, <2>2, NoticeGood
  <2>4. QED
    BY <2>3 DEF sync, gone
<1>5. QED
  BY <1>3, <1>4 DEF m

\* A request of a rematch changes nothing about the board.
LEMMA HandleRequestRematch ==
  ASSUME TypeInv, LinkInv, TellInv, NEW s \in Symbols, handleRequestRematch(s)
  PROVE  TypeInv' /\ LinkInv' /\ TellInv'
<1>1. takes(s, "REQUEST_REMATCH") /\ UNCHANGED <<game, connected, link, client, drops>>
  BY DEF handleRequestRematch
<1>2. Synced(s)
  BY <1>1, Taken DEF Synced
<1>3. CASE accepted = {} /\ game.status = "FINISHED" /\ Head(cmds[s]).id = game.id
  <2> DEFINE e == rematchRequested(seq + 1, s)
             st == emit(stream, toBroadcast(e))
  <2>1. accepted' = {s} /\ seq' = seq + 1 /\ becomes(st)
    BY <1>3 DEF handleRequestRematch
  <2>2. seq + 1 \in Nat \ {0} /\ GameOK(game)
    BY DEF TypeInv
  <2>3. /\ e \in RoomEvents /\ e.seq = seq + 1 /\ e.type \notin BoardTypes
        /\ e.type # "OPPONENT_DISCONNECTED"
    BY <2>2, RematchEvent
  <2> HIDE DEF e
  <2>4. /\ StreamOK(st, seq + 1)
        /\ \A x \in Symbols :
             Good(st, x, client[x], game, game.status, game, Synced(x),
                  opponent(x) \notin connected)
    BY <2>3, NoticeToAll
  <2> HIDE DEF st
  <2>5. \A x \in Symbols : (Synced(x) \/ x = s) = Synced(x)
    BY <1>2 DEF Synced
  <2>6. QED
    BY <1>1, <2>1, <2>2, <2>4, <2>5, Handled
<1>4. CASE ~(accepted = {} /\ game.status = "FINISHED" /\ Head(cmds[s]).id = game.id)
  <2>1. UNCHANGED <<accepted, seq, buffer, events>> /\ accepted \subseteq Symbols
    BY <1>4 DEF handleRequestRematch, TypeInv
  <2>2. QED
    BY <1>1, <2>1, NothingHandled
<1>5. QED
  BY <1>3, <1>4

\* REMATCH_DECLINED is not kept for a replay; it changes nothing about the board.
LEMMA HandleDeclineRematch ==
  ASSUME TypeInv, LinkInv, TellInv, NEW s \in Symbols, handleDeclineRematch(s)
  PROVE  TypeInv' /\ LinkInv' /\ TellInv'
<1>1. takes(s, "DECLINE_REMATCH") /\ UNCHANGED <<game, connected, link, client, drops>>
  BY DEF handleDeclineRematch
<1>2. Synced(s)
  BY <1>1, Taken DEF Synced
<1>3. CASE accepted # {}
  <2> DEFINE e == notice("REMATCH_DECLINED", seq + 1)
             m == toBroadcast(e)
             st == send(stream, m)
  <2>1. accepted' = {} /\ seq' = seq + 1 /\ becomes(st)
    BY <1>3 DEF handleDeclineRematch
  <2>2. /\ seq \in Nat /\ seq + 1 \in Nat \ {0} /\ GameOK(game) /\ game \in Games
        /\ StreamOK(stream, seq) /\ connected \subseteq Symbols
    BY DEF TypeInv, GameOK
  <2>3. /\ e \in RoomEvents /\ e.type \notin BoardTypes
        /\ e.type = "REMATCH_DECLINED"
    BY <2>2, NoticeEvent DEF NoticeTypes
  <2> HIDE DEF e
  <2>4. m.event = e /\ e \in Events
    BY <2>2, <2>3, MessageTypes DEF Symbols
  <2> HIDE DEF m
  <2>5. StreamOK(st, seq + 1)
    <3>1. StreamOK(st, seq)
      BY <2>2, <2>4, SentOK
    <3> HIDE DEF st
    <3>2. QED
      BY <2>2, <3>1, StreamLater
  <2>6. ASSUME NEW x \in Symbols
        PROVE  Good(st, x, client[x], game, game.status, game, Synced(x),
                    opponent(x) \notin connected)
    <3> DEFINE sync == Synced(x)
               gone == opponent(x) \notin connected
    <3>1. Good(stream, x, client[x], game, game.status, game, sync, gone)
      BY DEF TellInv
    <3>2. sync \in BOOLEAN
      BY DEF Synced
    <3> HIDE DEF sync, gone
    <3>3. Fits(x, m.event, game, sync, gone, game, sync, gone)
      BY <2>2, <2>3, <2>4, NoticeFits
    <3>4. Good(st, x, client[x], game, game.status, game, sync, gone)
      BY <2>2, <2>4, <3>1, <3>2, <3>3, SendGood
    <3>5. QED
      BY <3>4 DEF sync, gone
  <2> HIDE DEF st
  <2>7. \A x \in Symbols : (Synced(x) \/ x = s) = Synced(x)
    BY <1>2 DEF Synced
  <2>8. QED
    BY <1>1, <2>1, <2>2, <2>5, <2>6, <2>7, Handled
<1>4. CASE accepted = {}
  <2>1. UNCHANGED <<accepted, seq, buffer, events>> /\ accepted \subseteq Symbols
    BY <1>4 DEF handleDeclineRematch, TypeInv
  <2>2. QED
    BY <1>1, <2>1, NothingHandled
<1>5. QED
  BY <1>3, <1>4

\* The game that a rematch starts is one within the bound.
LEMMA NewGameOK ==
  ASSUME NEW n \in 1..MaxGames
  PROVE  GameOK(NewGame(n)) /\ NewGame(n).id = n /\ NewGame(n).status = "ACTIVE"
BY BoundsAssumption DEF GameOK, NewGame, Games, Symbols

\* A new game and a new buffer, with its start alone.
LEMMA StartGood ==
  ASSUME NEW st \in Streams, \A x \in Symbols : link[x] # "up" => st.events[x] = <<>>,
         connected \subseteq Symbols, NEW g \in Games, NEW h \in Games, Before(g, h),
         h.status = "ACTIVE"
  PROVE  LET st0 == [st EXCEPT !.buffer = <<>>]
             st1 == emit(st0, toBroadcast(event("GAME_STARTED", 1, h)))
         IN /\ StreamOK(st1, 1)
            /\ \A s \in Symbols : \A c0, b, a :
                 \A sync \in BOOLEAN, gone \in BOOLEAN :
                   /\ Good(st, s, c0, b, a, g, sync, gone)
                   /\ sync => s \in connected /\ link[s] = "up"
                   => Good(st1, s, c0, h, "ACTIVE", h, sync, gone)
<1> DEFINE st0 == [st EXCEPT !.buffer = <<>>]
           e == event("GAME_STARTED", 1, h)
           m == toBroadcast(e)
           st1 == emit(st0, m)
<1>1. st0 \in Streams /\ st0.buffer = <<>> /\ st0.events = st.events
  <2> DEFINE none == <<>>
  <2>1. none \in Seq(Messages)
    OBVIOUS
  <2>2. st0 = [st EXCEPT !.buffer = none]
    OBVIOUS
  <2> HIDE DEF none, st0
  <2>3. st0 \in Streams /\ st0.buffer = none /\ st0.events = st.events
    BY <2>1, <2>2 DEF Streams
  <2>4. QED
    BY <2>3 DEF none
<1>2. StreamOK(st0, 0)
  BY <1>1, BoundsAssumption DEF StreamOK, Ordered
<1>3. e \in RoomEvents /\ e.type = "GAME_STARTED" /\ e.seq = 1 /\ e.game = h
  BY BoardEvent DEF BoardTypes, Full
<1> HIDE DEF st0, e
<1>4. m \in Messages /\ m.event = e /\ m.to = connected /\ m.keep = Symbols
  BY <1>3, MessageTypes DEF Symbols
<1> HIDE DEF m
<1>5. StreamOK(st1, 1) /\ st1.buffer = push(<<>>, m)
  BY <1>1, <1>2, <1>3, <1>4, Emitted
<1>6. ASSUME NEW s \in Symbols, NEW c0, NEW b, NEW a, NEW sync \in BOOLEAN,
             NEW gone \in BOOLEAN, Good(st, s, c0, b, a, g, sync, gone),
             sync => s \in connected /\ link[s] = "up"
      PROVE  Good(st1, s, c0, h, "ACTIVE", h, sync, gone)
  <2>1. <<>> \in Seq(Messages) /\ Len(<<>>) <= BufferSize /\ KeptFor(<<>>, s) = {}
    BY BoundsAssumption DEF KeptFor
  <2>2. OnBoard(h, h) /\ h.moves <= h.moves
    BY DEF OnBoard, Games
  <2>3. Kept(push(<<>>, m), s, h, "ACTIVE", gone)
    <3>1. Tells(EventsOf(<<>>), KeptFor(<<>>, s), h)
      BY <2>1 DEF Tells
    <3>2. Tells(EventsOf(push(<<>>, m)), KeptFor(push(<<>>, m), s), h)
      BY <1>3, <1>4, <2>1, <2>2, <3>1, PushTells DEF BoardTypes, Full
    <3>3. TellsEnd(EventsOf(<<>>), KeptFor(<<>>, s), "ACTIVE")
      BY <2>1 DEF TellsEnd
    <3>4. TellsEnd(EventsOf(push(<<>>, m)), KeptFor(push(<<>>, m), s), "ACTIVE")
      BY <1>3, <1>4, <2>1, <3>3, PushTellsEnd
    <3>5. TellsPresence(EventsOf(<<>>), KeptFor(<<>>, s), s, gone)
      BY <2>1 DEF TellsPresence
    <3>6. TellsPresence(EventsOf(push(<<>>, m)), KeptFor(push(<<>>, m), s), s, gone)
      BY <1>3, <1>4, <2>1, <3>5, PushTellsPresence
    <3>7. QED
      BY <3>2, <3>4, <3>6 DEF Kept
  <2>4. Chain(s, c0, st.events[s], g, sync, gone) /\ st.events[s] \in Seq(Events)
    BY <1>6 DEF Good, Streams
  <2>5. Chain(s, c0, st1.events[s], h, sync, gone)
    <3>1. CASE Reaches(s, m)
      <4>1. Fits(s, e, g, sync, gone, h, sync, gone)
        BY <1>3, FullFits DEF Full
      <4>2. Chain(s, c0, Append(st.events[s], e), h, sync, gone)
        BY <1>3, <2>4, <4>1, ChainAppend DEF Events
      <4>3. QED
        BY <1>1, <1>2, <1>3, <1>4, <3>1, <4>2, Emitted
    <3>2. CASE ~Reaches(s, m)
      <4>1. ~sync
        BY <1>4, <1>6, <3>2 DEF Reaches
      <4>2. Chain(s, c0, st.events[s], h, sync, gone)
        BY <2>4, <4>1, ChainUnsent
      <4>3. QED
        BY <1>1, <1>2, <1>3, <1>4, <3>2, <4>2, Emitted
    <3>3. QED
      BY <3>1, <3>2
  <2>6. QED
    BY <1>5, <2>3, <2>5 DEF Good
<1>7. QED
  BY <1>5, <1>6 DEF st0, m, e

\* The second acceptance starts a game with an empty buffer and tells both of it.
LEMMA HandleAcceptRematch ==
  ASSUME TypeInv, LinkInv, TellInv, NEW s \in Symbols, handleAcceptRematch(s)
  PROVE  TypeInv' /\ LinkInv' /\ TellInv'
<1>1. takes(s, "ACCEPT_REMATCH") /\ UNCHANGED <<connected, link, client, drops>>
  BY DEF handleAcceptRematch
<1>2. Synced(s) /\ accepted \subseteq Symbols
  BY <1>1, Taken DEF Synced, TypeInv
<1> DEFINE dropped == accepted = {} \/ game.status # "FINISHED" \/ Head(cmds[s]).id # game.id
<1>3. CASE dropped \/ accepted \cup {s} # Symbols
  <2>1. UNCHANGED <<seq, buffer, game, events>> /\ accepted' \subseteq Symbols
    BY <1>2, <1>3 DEF handleAcceptRematch
  <2>2. QED
    BY <1>1, <2>1, NothingHandled
<1>4. CASE ~dropped /\ accepted \cup {s} = Symbols
  <2> DEFINE h == NewGame(game.id + 1)
             st == emit([stream EXCEPT !.buffer = <<>>], toBroadcast(event("GAME_STARTED", 1, h)))
  <2>1. accepted' = {} /\ game' = h /\ seq' = 1 /\ becomes(st)
    BY <1>4 DEF handleAcceptRematch
  <2>2. /\ GameOK(game) /\ game \in Games /\ game.id \in 1..MaxGames /\ StreamOK(stream, seq)
        /\ stream \in Streams /\ connected \subseteq Symbols
    BY DEF TypeInv, GameOK, StreamOK
  <2>3. game.id + 1 \in 1..MaxGames
    <3>1. Head(cmds[s]).id \in 0..(MaxGames - 1)
      BY <1>1, Taken DEF CommandRecords
    <3>2. QED
      BY <1>4, <2>2, <3>1, BoundsAssumption
  <2>4. GameOK(h) /\ h \in Games /\ h.status = "ACTIVE" /\ h.id = game.id + 1
    BY <2>3, NewGameOK DEF GameOK
  <2> HIDE DEF h
  <2>5. Before(game, h)
    BY <2>2, <2>4 DEF Before
  <2>6. \A x \in Symbols : link[x] # "up" => stream.events[x] = <<>>
    BY <2>2 DEF StreamOK
  <2>7. /\ StreamOK(st, 1)
        /\ \A x \in Symbols : \A c0, b, a :
             \A sync \in BOOLEAN, gone \in BOOLEAN :
               /\ Good(stream, x, c0, b, a, game, sync, gone)
               /\ sync => x \in connected /\ link[x] = "up"
               => Good(st, x, c0, h, "ACTIVE", h, sync, gone)
    BY <2>2, <2>4, <2>5, <2>6, StartGood
  <2> HIDE DEF st
  <2>8. ASSUME NEW x \in Symbols
        PROVE  Good(st, x, client[x], h, h.status, h, Synced(x), opponent(x) \notin connected)
    <3> DEFINE sync == Synced(x)
               gone == opponent(x) \notin connected
    <3>1. Good(stream, x, client[x], game, game.status, game, sync, gone)
      BY DEF TellInv
    <3>2. sync \in BOOLEAN /\ gone \in BOOLEAN /\ (sync => x \in connected /\ link[x] = "up")
      BY DEF Synced, LinkInv
    <3> HIDE DEF sync, gone
    <3>3. Good(st, x, client[x], h, "ACTIVE", h, sync, gone)
      BY <2>7, <3>1, <3>2
    <3>4. QED
      BY <2>4, <3>3 DEF sync, gone
  <2>9. \A x \in Symbols : (Synced(x) \/ x = s) = Synced(x)
    BY <1>2 DEF Synced
  <2>10. QED
    BY <1>1, <2>1, <2>4, <2>7, <2>8, <2>9, Handled
<1>5. QED
  BY <1>3, <1>4

\* A move, in any case of its handler.
LEMMA HandleMakeMove ==
  ASSUME TypeInv, LinkInv, TellInv, NEW s \in Symbols, handleMakeMove(s)
  PROVE  TypeInv' /\ LinkInv' /\ TellInv'
<1>1. takes(s, "MAKE_MOVE") /\ UNCHANGED <<accepted, connected, link, client, drops>>
  BY DEF handleMakeMove
<1>2. CASE Head(cmds[s]).id # game.id \/ game.status # "ACTIVE"
  <2>1. UNCHANGED <<seq, buffer, game, events>> /\ accepted' \subseteq Symbols
    BY <1>1, <1>2 DEF handleMakeMove, TypeInv
  <2>2. QED
    BY <1>1, <2>1, NothingHandled
<1>3. CASE ~(Head(cmds[s]).id # game.id \/ game.status # "ACTIVE")
  <2>1. \/ game.turn = s /\ acceptMove(s)
        \/ rejectMove(s)
    BY <1>3 DEF handleMakeMove
  <2>2. QED
    BY <1>1, <1>3, <2>1, AcceptMove, RejectMove
<1>4. QED
  BY <1>2, <1>3

\* A step of the server that takes no command.
LEMMA Unasked ==
  ASSUME TypeInv, LinkInv, NEW st, StreamOK(st, seq'), becomes(st), seq' \in Nat \ {0},
         UNCHANGED <<game, cmds, client, drops>>,
         accepted' \subseteq Symbols, connected' \subseteq Symbols,
         link' \in [Symbols -> {"up", "lost", "down"}],
         \A x \in Symbols : link'[x] = "up" <=> link[x] = "up",
         \A x \in Symbols : Synced(x) => x \in connected',
         \A x \in Symbols :
           Good(st, x, client[x], game, game.status, game, Synced(x),
                opponent(x) \notin connected')
  PROVE  TypeInv' /\ LinkInv' /\ TellInv'
<1>1. stream' = st
  BY StreamFields DEF StreamOK
<1>2. StreamOK(stream, seq)'
  BY <1>1 DEF StreamOK
<1>3. \A x \in Symbols : (Synced(x)' <=> Synced(x)) /\ Synced(x)' = Synced(x)
  BY DEF Synced, Resumes
<1>4. TypeInv'
  BY <1>2 DEF TypeInv
<1>5. LinkInv'
  BY <1>3 DEF LinkInv
<1>6. TellInv'
  BY <1>1, <1>3 DEF TellInv
<1>7. QED
  BY <1>4, <1>5, <1>6

\* REMATCH_EXPIRED changes nothing about the board.
LEMMA ExpireRematch ==
  ASSUME TypeInv, LinkInv, TellInv, expireRematch
  PROVE  TypeInv' /\ LinkInv' /\ TellInv'
<1> DEFINE e == notice("REMATCH_EXPIRED", seq + 1)
           st == emit(stream, toBroadcast(e))
<1>1. /\ accepted' = {} /\ seq' = seq + 1 /\ becomes(st)
      /\ UNCHANGED <<game, connected, link, cmds, client, drops>>
  BY DEF expireRematch
<1>2. /\ seq + 1 \in Nat \ {0} /\ connected \subseteq Symbols
      /\ link \in [Symbols -> {"up", "lost", "down"}]
  BY DEF TypeInv
<1>3. /\ e \in RoomEvents /\ e.seq = seq + 1 /\ e.type \notin BoardTypes
      /\ e.type = "REMATCH_EXPIRED"
  BY <1>2, NoticeEvent DEF NoticeTypes
<1> HIDE DEF e
<1>4. /\ StreamOK(st, seq + 1)
      /\ \A x \in Symbols :
           Good(st, x, client[x], game, game.status, game, Synced(x),
                opponent(x) \notin connected)
  BY <1>3, NoticeToAll
<1> HIDE DEF st
<1>5. \A x \in Symbols : Synced(x) => x \in connected
  BY DEF LinkInv
<1>6. QED
  BY <1>1, <1>2, <1>4, <1>5, Unasked

\* The server notices that s is gone; the opponent of a game is told.
LEMMA HandleDisconnect ==
  ASSUME TypeInv, LinkInv, TellInv, NEW s \in Symbols, handleDisconnect(s)
  PROVE  TypeInv' /\ LinkInv' /\ TellInv'
<1> DEFINE o == opponent(s)
           told == game.status = "ACTIVE" /\ o \in connected
           e == notice("OPPONENT_DISCONNECTED", seq + 1)
           m == toPlayer(o, e)
           st == IF told THEN emit(stream, m) ELSE stream
           G(x) == opponent(x) \notin connected'
<1>1. /\ link[s] = "lost" /\ link' = [link EXCEPT ![s] = "down"]
      /\ connected' = connected \ {s}
      /\ becomes(st) /\ seq' = IF told THEN seq + 1 ELSE seq
      /\ UNCHANGED <<game, accepted, cmds, client, drops>>
  BY DEF handleDisconnect, becomes, stream
<1>2. /\ seq \in Nat \ {0} /\ StreamOK(stream, seq) /\ GameOK(game) /\ game \in Games
      /\ connected \subseteq Symbols /\ link \in [Symbols -> {"up", "lost", "down"}]
      /\ accepted \subseteq Symbols
  BY DEF TypeInv, GameOK
<1>3. o \in Symbols /\ o # s /\ opponent(o) = s /\ \A x \in Symbols : x = s \/ x = o
  BY Opponents
<1>4. ~Synced(s) /\ s \in Unlucky
  BY <1>1 DEF Synced, LinkInv
<1>5. /\ link' \in [Symbols -> {"up", "lost", "down"}]
      /\ \A x \in Symbols : link'[x] = "up" <=> link[x] = "up"
  BY <1>1, <1>2
<1>6. \A x \in Symbols : Synced(x) => x \in connected'
  BY <1>1, <1>4 DEF LinkInv
<1>7. /\ m \in Messages /\ m.event.seq = seq + 1 /\ m.to = {o} /\ m.keep = {o}
      /\ m.event.type = "OPPONENT_DISCONNECTED" /\ m.event.type \notin BoardTypes
  <2>1. e \in RoomEvents /\ e.type = "OPPONENT_DISCONNECTED" /\ e.seq = seq + 1
        /\ e.type \notin BoardTypes
    BY <1>2, NoticeEvent DEF NoticeTypes
  <2> HIDE DEF e, o
  <2>2. QED
    BY <1>2, <1>3, <2>1, MessageTypes
<1> HIDE DEF m
<1>8. StreamOK(st, seq') /\ seq' \in Nat \ {0}
  BY <1>1, <1>2, <1>7, Emitted
<1>9. ASSUME NEW x \in Symbols
      PROVE  Good(st, x, client[x], game, game.status, game, Synced(x), G(x))
  <2> DEFINE sync == Synced(x)
             gone == opponent(x) \notin connected
             gone1 == G(x)
  <2>1. Good(stream, x, client[x], game, game.status, game, sync, gone)
    BY DEF TellInv
  <2>2. sync \in BOOLEAN /\ gone \in BOOLEAN /\ gone1 \in BOOLEAN
    BY DEF Synced
  <2>3. (gone => gone1) /\ (x = o => gone1 /\ opponent(x) \in Unlucky)
    BY <1>1, <1>3, <1>4
  <2> HIDE DEF sync, gone, gone1, G, o
  <2>4. CASE told
    <3>1. x \in m.keep \cup m.to => x = o
      BY <1>7
    <3>2. Good(emit(stream, m), x, client[x], game, game.status, game, sync, gone1)
      BY <1>2, <1>7, <2>1, <2>2, <2>3, <3>1, NoticeGood
    <3>3. QED
      BY <2>4, <3>2 DEF sync, gone1
  <2>5. CASE ~told
    <3>1. Good(stream, x, client[x], game, game.status, game, sync, gone1)
      BY <1>2, <2>1, <2>2, <2>3, UnsentGood DEF StreamOK
    <3>2. QED
      BY <2>5, <3>1 DEF sync, gone1
  <2>6. QED
    BY <2>4, <2>5
<1> HIDE DEF st
<1>10. QED
  BY <1>1, <1>2, <1>5, <1>6, <1>8, <1>9, Unasked

-----------------------------------------------------------------------------
(***************************************************************************)
(* The steps of the clients and of the connections.                        *)
(***************************************************************************)

\* A command that is sent, other than RECONNECT.
LEMMA CommandSent ==
  ASSUME TypeInv, LinkInv, NEW s \in Symbols, NEW r \in CommandRecords,
         r.type # "RECONNECT", link[s] = "up", UNCHANGED <<link, connected>>,
         cmds' = [cmds EXCEPT ![s] = Append(@, r)]
  PROVE  /\ cmds' \in [Symbols -> Seq(CommandRecords)]
         /\ LinkInv'
         /\ \A x \in Symbols : Synced(x)' = Synced(x) /\ (Resumes(x)' <=> Resumes(x))
         /\ cmds'[s] = Append(cmds[s], r) /\ \A x \in Symbols \ {s} : cmds'[x] = cmds[x]
         /\ DOMAIN cmds'[s] = DOMAIN cmds[s] \cup {Len(cmds[s]) + 1}
         /\ \A i \in DOMAIN cmds[s] : cmds'[s][i] = cmds[s][i]
         /\ cmds'[s][Len(cmds[s]) + 1] = r
<1> DEFINE q == cmds[s]
<1>1. q \in Seq(CommandRecords) /\ cmds \in [Symbols -> Seq(CommandRecords)]
  BY DEF TypeInv
<1>2. /\ Append(q, r) \in Seq(CommandRecords) /\ DOMAIN Append(q, r) = DOMAIN q \cup {Len(q) + 1}
      /\ \A i \in DOMAIN q : Append(q, r)[i] = q[i]
      /\ Append(q, r)[Len(q) + 1] = r
  BY <1>1
<1>3. /\ cmds'[s] = Append(q, r) /\ \A x \in Symbols \ {s} : cmds'[x] = cmds[x]
      /\ cmds' \in [Symbols -> Seq(CommandRecords)]
  BY <1>1, <1>2
<1> HIDE DEF q
<1>4. \A x \in Symbols : Resumes(x)' <=> Resumes(x)
  <2>1. Resumes(s)' <=> Resumes(s)
    BY <1>2, <1>3 DEF Resumes, q
  <2>2. \A x \in Symbols \ {s} : Resumes(x)' <=> Resumes(x)
    BY <1>3 DEF Resumes
  <2>3. QED
    BY <2>1, <2>2
<1>5. \A x \in Symbols : Synced(x)' = Synced(x)
  BY <1>4 DEF Synced
<1>6. LinkInv'
  <2>1. SUFFICES ASSUME NEW x \in Symbols
        PROVE  /\ link[x] # "up" => cmds'[x] = <<>>
               /\ \A i \in DOMAIN cmds'[x] : cmds'[x][i].type = "RECONNECT" => i = 1
    BY <1>5 DEF LinkInv
  <2>2. /\ link[x] # "up" => cmds[x] = <<>>
        /\ \A i \in DOMAIN cmds[x] : cmds[x][i].type = "RECONNECT" => i = 1
    BY DEF LinkInv
  <2>3. CASE x = s
    BY <1>2, <1>3, <2>2, <2>3 DEF q
  <2>4. CASE x # s
    BY <1>3, <2>2, <2>4
  <2>5. QED
    BY <2>3, <2>4
<1>7. QED
  BY <1>2, <1>3, <1>4, <1>5, <1>6 DEF q

\* Reading an event.
LEMMA Receive ==
  ASSUME TypeInv, LinkInv, TellInv, NEW s \in Symbols, receive(s)
  PROVE  TypeInv' /\ LinkInv' /\ TellInv'
<1> DEFINE e == Head(events[s])
           d == handleFrame(s, client[s], e)
           r == [type |-> "SYNC_REQUEST", fromSeq |-> client[s].lastSeq + 1]
<1>1. /\ events[s] # <<>> /\ events' = [events EXCEPT ![s] = Tail(@)]
      /\ client' = [client EXCEPT ![s] = d]
      /\ cmds' = IF HasGap(client[s], e) THEN [cmds EXCEPT ![s] = Append(@, r)] ELSE cmds
      /\ UNCHANGED <<seq, buffer, game, accepted, connected, link, drops>>
  BY DEF receive, server
<1>2. /\ client \in [Symbols -> Clients] /\ client[s] \in Clients
      /\ cmds \in [Symbols -> Seq(CommandRecords)] /\ seq \in Nat \ {0}
      /\ StreamOK(stream, seq) /\ game \in Games
      /\ events \in [Symbols -> Seq(Events)] /\ buffer \in Seq(Messages)
      /\ \A x \in Symbols : link[x] # "up" => events[x] = <<>>
  BY DEF TypeInv, GameOK, StreamOK, Streams, stream
<1>3. e \in Events /\ Tail(events[s]) \in Seq(Events) /\ link[s] = "up"
  BY <1>1, <1>2
<1> HIDE DEF e
<1>4. d \in Clients
  BY <1>2, <1>3, FrameType
<1> HIDE DEF d
<1>5. r \in CommandRecords /\ r.type # "RECONNECT"
  BY <1>2 DEF CommandRecords, Clients
<1> HIDE DEF r
<1>6. /\ cmds' \in [Symbols -> Seq(CommandRecords)] /\ LinkInv'
      /\ \A x \in Symbols : Synced(x)' = Synced(x)
  <2>1. CASE HasGap(client[s], e)
    <3>1. cmds' = [cmds EXCEPT ![s] = Append(@, r)]
      BY <1>1, <2>1
    <3>2. QED
      BY <1>1, <1>3, <1>5, <3>1, CommandSent
  <2>2. CASE ~HasGap(client[s], e)
    BY <1>1, <1>2, <2>2 DEF LinkInv, Synced, Resumes
  <2>3. QED
    BY <2>1, <2>2
<1>7. /\ events' \in [Symbols -> Seq(Events)] /\ events'[s] = Tail(events[s])
      /\ \A x \in Symbols \ {s} : events'[x] = events[x]
      /\ client' \in [Symbols -> Clients] /\ client'[s] = d
      /\ \A x \in Symbols \ {s} : client'[x] = client[x]
  BY <1>1, <1>2, <1>3, <1>4
<1>8. StreamOK(stream', seq') /\ StreamOK(stream, seq)'
  <2>1. \A x \in Symbols : link[x] # "up" => events'[x] = <<>>
    BY <1>2, <1>3, <1>7
  <2>2. StreamOK(stream', seq')
    BY <1>1, <1>2, <1>7, <2>1 DEF StreamOK, Streams, stream
  <2>3. QED
    BY <1>1, <2>2 DEF StreamOK
<1>9. TypeInv'
  BY <1>1, <1>6, <1>7, <1>8 DEF TypeInv
<1>10. TellInv'
  <2>1. SUFFICES ASSUME NEW x \in Symbols
        PROVE  Good(stream', x, client'[x], game, game.status, game, Synced(x),
                    opponent(x) \notin connected)
    BY <1>1, <1>6 DEF TellInv
  <2> DEFINE sync == Synced(x)
             gone == opponent(x) \notin connected
  <2>2. Good(stream, x, client[x], game, game.status, game, sync, gone)
    BY DEF TellInv
  <2>3. sync \in BOOLEAN
    BY DEF Synced
  <2> HIDE DEF sync, gone
  <2>4. Chain(x, client[x], events[x], game, sync, gone)
    BY <2>2 DEF Good, stream
  <2>5. Chain(x, client'[x], events'[x], game, sync, gone)
    <3>1. CASE x = s
      <4>1. Chain(s, handleFrame(s, client[s], Head(events[s])), Tail(events[s]), game, sync, gone)
        BY <1>1, <1>2, <2>3, <2>4, <3>1, ChainReceive
      <4>2. QED
        BY <1>7, <3>1, <4>1 DEF d, e
    <3>2. CASE x # s
      BY <1>7, <2>4, <3>2
    <3>3. QED
      BY <3>1, <3>2
  <2>6. QED
    BY <1>1, <2>2, <2>5 DEF Good, stream, sync, gone
<1>11. QED
  BY <1>6, <1>9, <1>10

\* What is not the view or the presence of the opponent makes no difference.
LEMMA ChainAlike ==
  ASSUME NEW s, NEW c0, NEW c1, Alike(c0, c1), NEW q, NEW g, NEW sync, NEW gone,
         Chain(s, c0, q, g, sync, gone)
  PROVE  Chain(s, c1, q, g, sync, gone)
BY DEF Chain, ChainOf, Alike

\* Clicking: a move, or a command about a rematch.
LEMMA Clicked ==
  ASSUME TypeInv, LinkInv, TellInv, NEW s \in Symbols, link[s] = "up",
         NEW r \in CommandRecords, r.type # "RECONNECT",
         cmds' = [cmds EXCEPT ![s] = Append(@, r)],
         client' \in [Symbols -> Clients],
         \A x \in Symbols : Alike(client[x], client'[x]),
         UNCHANGED <<seq, buffer, game, accepted, connected, link, events, drops>>
  PROVE  TypeInv' /\ LinkInv' /\ TellInv'
<1>1. /\ cmds' \in [Symbols -> Seq(CommandRecords)] /\ LinkInv'
      /\ \A x \in Symbols : Synced(x)' = Synced(x)
  BY CommandSent
<1>2. stream' = stream
  BY DEF stream
<1>3. TypeInv'
  BY <1>1, <1>2 DEF TypeInv, StreamOK
<1>4. TellInv'
  BY <1>1, <1>2, ChainAlike DEF TellInv, Good
<1>5. QED
  BY <1>1, <1>3, <1>4

\* A click marks the client and sends a command.
LEMMA MakeMove ==
  ASSUME TypeInv, LinkInv, TellInv, NEW s \in Symbols, makeMove(s)
  PROVE  TypeInv' /\ LinkInv' /\ TellInv'
<1> DEFINE r == [type |-> "MAKE_MOVE", id |-> client[s].view.id, moves |-> client[s].view.moves]
<1>1. /\ link[s] = "up" /\ client' = [client EXCEPT ![s].pending = TRUE]
      /\ cmds' = [cmds EXCEPT ![s] = Append(@, r)]
      /\ UNCHANGED <<seq, buffer, game, accepted, connected, link, events, drops>>
  BY DEF makeMove, server
<1>2. client \in [Symbols -> Clients]
  BY DEF TypeInv
<1>3. r \in CommandRecords /\ r.type # "RECONNECT"
  BY <1>2 DEF CommandRecords, Clients, Games
<1> HIDE DEF r
<1>4. /\ client' \in [Symbols -> Clients]
      /\ \A x \in Symbols : Alike(client[x], client'[x])
  BY <1>1, <1>2 DEF Clients, Alike
<1>5. QED
  BY <1>1, <1>3, <1>4, Clicked

\* The rematch controls only send a command.
LEMMA SendRematch ==
  ASSUME TypeInv, LinkInv, TellInv, NEW s \in Symbols,
         NEW type \in {"REQUEST_REMATCH", "ACCEPT_REMATCH", "DECLINE_REMATCH"},
         sendRematch(s, type)
  PROVE  TypeInv' /\ LinkInv' /\ TellInv'
<1> DEFINE r == [type |-> type, id |-> client[s].view.id]
<1>1. /\ link[s] = "up" /\ client[s].view.id < MaxGames
      /\ cmds' = [cmds EXCEPT ![s] = Append(@, r)]
      /\ UNCHANGED <<seq, buffer, game, accepted, connected, link, events, client, drops>>
  BY DEF sendRematch, server
<1>2. client \in [Symbols -> Clients] /\ client[s].view.id \in 0..MaxGames
  BY DEF TypeInv, Clients, Games
<1>3. client[s].view.id \in 0..(MaxGames - 1)
  BY <1>1, <1>2, BoundsAssumption
<1>4. r \in CommandRecords /\ r.type # "RECONNECT"
  BY <1>3 DEF CommandRecords
<1> HIDE DEF r
<1>5. client' \in [Symbols -> Clients] /\ \A x \in Symbols : Alike(client[x], client'[x])
  BY <1>1, <1>2 DEF Alike
<1>6. QED
  BY <1>1, <1>4, <1>5, Clicked

\* Nothing is in transit any more to a client that is not in step.
LEMMA ChainCut ==
  ASSUME NEW s \in Symbols, s \in Unlucky, NEW c0 \in Clients, NEW q \in Seq(Events),
         NEW g \in Games, NEW sync, NEW gone, Chain(s, c0, q, g, sync, gone)
  PROVE  Chain(s, c0, <<>>, g, FALSE, gone)
<1>1. PICK c : ChainOf(s, c0, q, g, sync, gone, c)
  BY DEF Chain
<1>2. 0 \in 0..Len(q)
  OBVIOUS
<1>3. Alike(c[0], c0) /\ Before(c[0].view, g)
      /\ (OneUnlucky /\ c[0].opponentAway => opponent(s) \in Unlucky)
  BY <1>1, <1>2 DEF ChainOf
<1>4. OneUnlucky => opponent(s) \notin Unlucky
  BY Opponents, BoundsAssumption DEF OneUnlucky
<1> DEFINE d == [i \in 0..0 |-> c0]
<1>5. Len(<<>>) = 0 /\ d[0] = c0 /\ d \in [0..0 -> Clients] /\ 1..0 = {} /\ 0..0 = {0}
  OBVIOUS
<1> HIDE DEF d
<1>6. Shows(s, d[0], g, FALSE, gone) /\ Before(d[0].view, g)
      /\ (OneUnlucky /\ d[0].opponentAway => opponent(s) \in Unlucky)
  BY <1>3, <1>4, <1>5 DEF Shows, Alike
<1>7. ChainOf(s, c0, <<>>, g, FALSE, gone, d)
  BY <1>5, <1>6 DEF ChainOf, Alike
<1>8. QED
  BY <1>7 DEF Chain

\* A lost connection takes with it what was in transit; its player is no longer in step.
LEMMA Drop ==
  ASSUME TypeInv, LinkInv, TellInv, NEW s \in Symbols, drop(s)
  PROVE  TypeInv' /\ LinkInv' /\ TellInv'
<1>1. /\ link[s] = "up" /\ s \in Unlucky /\ drops < MaxDrops
      /\ link' = [link EXCEPT ![s] = "lost"] /\ events' = [events EXCEPT ![s] = <<>>]
      /\ cmds' = [cmds EXCEPT ![s] = <<>>] /\ drops' = drops + 1
      /\ UNCHANGED <<seq, buffer, game, accepted, connected, client>>
  BY DEF drop, server
<1>2. /\ client \in [Symbols -> Clients]
      /\ cmds \in [Symbols -> Seq(CommandRecords)] /\ seq \in Nat \ {0}
      /\ StreamOK(stream, seq) /\ game \in Games
      /\ link \in [Symbols -> {"up", "lost", "down"}]
      /\ events \in [Symbols -> Seq(Events)] /\ buffer \in Seq(Messages)
      /\ \A x \in Symbols : link[x] # "up" => events[x] = <<>>
  BY DEF TypeInv, GameOK, StreamOK, Streams, stream
<1>3. /\ link'[s] = "lost" /\ cmds'[s] = <<>> /\ events'[s] = <<>>
      /\ \A x \in Symbols \ {s} :
           link'[x] = link[x] /\ cmds'[x] = cmds[x] /\ events'[x] = events[x]
      /\ link' \in [Symbols -> {"up", "lost", "down"}]
  BY <1>1, <1>2
<1>4. events' \in [Symbols -> Seq(Events)] /\ cmds' \in [Symbols -> Seq(CommandRecords)]
  <2> DEFINE none == <<>>
  <2>1. none \in Seq(Events) /\ none \in Seq(CommandRecords)
    OBVIOUS
  <2>2. events' = [events EXCEPT ![s] = none] /\ cmds' = [cmds EXCEPT ![s] = none]
    BY <1>1
  <2> HIDE DEF none
  <2>3. QED
    BY <1>2, <2>1, <2>2
<1>5. StreamOK(stream, seq)'
  <2>1. \A x \in Symbols : link'[x] # "up" => events'[x] = <<>>
    BY <1>2, <1>3
  <2>2. QED
    BY <1>1, <1>2, <1>4, <2>1 DEF StreamOK, Streams, stream
<1>6. drops' \in 0..MaxDrops
  BY <1>1, BoundsAssumption DEF TypeInv
<1>7. TypeInv'
  BY <1>1, <1>3, <1>4, <1>5, <1>6 DEF TypeInv
<1>8. ~Synced(s)' /\ \A x \in Symbols \ {s} : Synced(x)' = Synced(x)
  BY <1>3 DEF Synced, Resumes
<1>9. LinkInv'
  BY <1>1, <1>3, <1>8 DEF LinkInv
<1>10. TellInv'
  <2>1. SUFFICES ASSUME NEW x \in Symbols
        PROVE  Good(stream', x, client[x], game, game.status, game, Synced(x)',
                    opponent(x) \notin connected)
    BY <1>1 DEF TellInv
  <2>2. Good(stream, x, client[x], game, game.status, game, Synced(x),
             opponent(x) \notin connected)
    BY DEF TellInv
  <2>3. Chain(x, client[x], events'[x], game, Synced(x)', opponent(x) \notin connected)
    <3>1. CASE x = s
      <4>1. Chain(s, client[s], events[s], game, Synced(s), opponent(s) \notin connected)
        BY <2>2, <3>1 DEF Good, stream
      <4>2. Chain(s, client[s], <<>>, game, FALSE, opponent(s) \notin connected)
        BY <1>1, <1>2, <4>1, ChainCut
      <4>3. Synced(s)' = FALSE
        BY <1>8 DEF Synced
      <4>4. QED
        BY <1>3, <3>1, <4>2, <4>3
    <3>2. CASE x # s
      BY <1>3, <1>8, <2>2, <3>2 DEF Good, stream
    <3>3. QED
      BY <3>1, <3>2
  <2>4. QED
    BY <1>1, <2>2, <2>3 DEF Good, stream
<1>11. QED
  BY <1>7, <1>9, <1>10

\* A new connection starts with RECONNECT: its player is not in step before the answer.
LEMMA Authenticate ==
  ASSUME TypeInv, LinkInv, TellInv, NEW s \in Symbols, authenticate(s)
  PROVE  TypeInv' /\ LinkInv' /\ TellInv'
<1> DEFINE r == [type |-> "RECONNECT", lastReceivedSeq |-> client[s].storeSeq]
<1>1. /\ link[s] \in {"lost", "down"} /\ link' = [link EXCEPT ![s] = "up"]
      /\ cmds' = [cmds EXCEPT ![s] = <<r>>]
      /\ UNCHANGED <<seq, buffer, game, accepted, connected, events, client, drops>>
  BY DEF authenticate, server
<1>2. /\ client \in [Symbols -> Clients] /\ cmds \in [Symbols -> Seq(CommandRecords)]
      /\ link \in [Symbols -> {"up", "lost", "down"}] /\ StreamOK(stream, seq)
  BY DEF TypeInv
<1>3. r \in CommandRecords /\ r.type = "RECONNECT"
  BY <1>2 DEF CommandRecords, Clients
<1> HIDE DEF r
<1>4. <<r>> \in Seq(CommandRecords) /\ DOMAIN <<r>> = {1} /\ <<r>>[1] = r
  BY <1>3
<1>5. /\ link'[s] = "up" /\ cmds'[s] = <<r>>
      /\ \A x \in Symbols \ {s} : link'[x] = link[x] /\ cmds'[x] = cmds[x]
      /\ link' \in [Symbols -> {"up", "lost", "down"}]
      /\ cmds' \in [Symbols -> Seq(CommandRecords)]
  BY <1>1, <1>2, <1>4
<1>6. stream' = stream /\ StreamOK(stream, seq)'
  BY <1>1, <1>2, <1>5 DEF StreamOK, stream
<1>7. TypeInv'
  BY <1>1, <1>5, <1>6 DEF TypeInv
<1>8. Resumes(s)'
  BY <1>3, <1>4, <1>5 DEF Resumes
<1>9. ~Synced(s) /\ ~Synced(s)' /\ s \in Unlucky
  BY <1>1, <1>8 DEF Synced, LinkInv
<1>10. \A x \in Symbols : Synced(x)' = Synced(x)
  <2>1. Synced(s)' = Synced(s)
    BY <1>9 DEF Synced
  <2>2. \A x \in Symbols \ {s} : Synced(x)' = Synced(x)
    BY <1>5 DEF Synced, Resumes
  <2>3. QED
    BY <2>1, <2>2
<1>11. LinkInv'
  BY <1>1, <1>4, <1>5, <1>10 DEF LinkInv
<1>12. TellInv'
  BY <1>1, <1>6, <1>10 DEF TellInv
<1>13. QED
  BY <1>7, <1>11, <1>12

-----------------------------------------------------------------------------
(***************************************************************************)
(* The pending click.                                                      *)
(***************************************************************************)
OnItsWay(q, g) ==
  \E i \in DOMAIN q :
    \/ q[i].type = "RECONNECT"
    \/ q[i].type = "MAKE_MOVE" /\ q[i].id = g.id /\ g.status = "ACTIVE"

Answered(q) == \E i \in DOMAIN q : \E e \in Told(q[i]) : e.type \in Clearing

Waits(s) == client[s].pending /\ link[s] = "up"

\* PendingIsUnderWay in the terms of this section.
LEMMA PendingForm ==
  /\ PendingIsUnderWay <=>
       \A s \in Symbols : Waits(s) => OnItsWay(cmds[s], game) \/ Answered(events[s])
  /\ PendingIsUnderWay' <=>
       \A s \in Symbols : Waits(s)' => OnItsWay(cmds'[s], game') \/ Answered(events'[s])
<1>1. PendingIsUnderWay <=>
        \A s \in Symbols : Waits(s) => OnItsWay(cmds[s], game) \/ Answered(events[s])
  BY DEF PendingIsUnderWay, Waits, OnItsWay, Answered, Clearing
<1>2. PendingIsUnderWay' <=>
        \A s \in Symbols : Waits(s)' => OnItsWay(cmds'[s], game') \/ Answered(events'[s])
  BY DEF PendingIsUnderWay, Waits, OnItsWay, Answered, Clearing
<1>3. QED
  BY <1>1, <1>2

\* Events are only added; one that clears the mark is an answer.
LEMMA AppendAnswered ==
  ASSUME NEW q \in Seq(Events), NEW e
  PROVE  /\ Answered(q) => Answered(Append(q, e))
         /\ e.type \in Clearing => Answered(Append(q, e))
<1> DEFINE r == Append(q, e)
<1>1. /\ DOMAIN q \subseteq DOMAIN r /\ \A i \in DOMAIN q : r[i] = q[i]
      /\ Len(q) + 1 \in DOMAIN r /\ r[Len(q) + 1] = e
  <2> DEFINE T == Events \cup {e}
  <2>1. q \in Seq(T) /\ e \in T
    OBVIOUS
  <2> HIDE DEF T
  <2>2. QED
    BY <2>1
<1> HIDE DEF r
<1>2. Answered(q) => Answered(r)
  BY <1>1 DEF Answered
<1>3. e.type \in Clearing => Answered(r)
  <2>1. SUFFICES ASSUME e.type \in Clearing PROVE Answered(r)
    OBVIOUS
  <2>2. e \in Told(e)
    BY <2>1 DEF Told, Clearing
  <2>3. QED
    BY <1>1, <2>1, <2>2 DEF Answered
<1>4. QED
  BY <1>2, <1>3 DEF r

\* The stream r has the answers of st.
Answers(st, r) == \A x \in Symbols : Answered(st.events[x]) => Answered(r.events[x])

\* Sending keeps the answers, and what clears the mark is one.
LEMMA SentAnswers ==
  ASSUME NEW st \in Streams, NEW m
  PROVE  /\ Answers(st, send(st, m))
         /\ \A x \in Symbols : Reaches(x, m) /\ m.event.type \in Clearing =>
              Answered(send(st, m).events[x])
<1>1. \A x \in Symbols : st.events[x] \in Seq(Events)
  BY DEF Streams
<1>2. \A x \in Symbols :
        send(st, m).events[x] = IF Reaches(x, m) THEN Append(st.events[x], m.event)
                                ELSE st.events[x]
  BY DEF send, Reaches, Streams
<1>3. QED
  BY <1>1, <1>2, AppendAnswered DEF Answers

\* So does emitting.
LEMMA EmittedAnswers ==
  ASSUME NEW st, NEW n \in Nat, StreamOK(st, n), NEW m \in Messages, n < m.event.seq
  PROVE  /\ Answers(st, emit(st, m))
         /\ \A x \in Symbols : Reaches(x, m) /\ m.event.type \in Clearing =>
              Answered(emit(st, m).events[x])
<1>1. \A x \in Symbols : st.events[x] \in Seq(Events)
  BY DEF StreamOK, Streams
<1>2. m.event \in Events
  BY MessageSeq DEF Events
<1>3. QED
  BY <1>1, <1>2, Emitted, AppendAnswered DEF Answers

\* A handler that keeps the answers, and answers the command if it is one that
\* a pending click waits for.
LEMMA PendingHandled ==
  ASSUME TypeInv, LinkInv, PendingIsUnderWay, NEW s \in Symbols, NEW type, takes(s, type),
         UNCHANGED <<link, client>>,
         \A x \in Symbols : Answered(events[x]) => Answered(events'[x]),
         \/ game'.id = game.id /\ game'.status = game.status
         \/ game.status # "ACTIVE"
         \/ \A x \in Symbols : Synced(x) => Answered(events'[x]),
         \/ type \notin {"RECONNECT", "MAKE_MOVE"}
         \/ Answered(events'[s])
         \/ type = "MAKE_MOVE" /\ (Head(cmds[s]).id # game.id \/ game.status # "ACTIVE")
  PROVE  PendingIsUnderWay'
<1>1. SUFFICES ASSUME NEW x \in Symbols, Waits(x), ~Answered(events'[x])
      PROVE  OnItsWay(cmds'[x], game')
  BY PendingForm DEF Waits
<1>2. PICK i \in DOMAIN cmds[x] :
        \/ cmds[x][i].type = "RECONNECT"
        \/ cmds[x][i].type = "MAKE_MOVE" /\ cmds[x][i].id = game.id /\ game.status = "ACTIVE"
  BY <1>1, PendingForm DEF OnItsWay
<1>3. CASE x # s
  <2>1. cmds'[x] = cmds[x]
    BY <1>3, Taken
  <2>2. CASE cmds[x][i].type = "RECONNECT"
    BY <2>1, <2>2 DEF OnItsWay
  <2>3. CASE Resumes(x)
    BY <2>1, <2>3 DEF OnItsWay, Resumes
  <2>4. CASE ~Resumes(x) /\ cmds[x][i].type # "RECONNECT"
    <3>1. Synced(x)
      BY <1>1, <2>4 DEF Synced, Waits
    <3>2. game'.id = game.id /\ game'.status = game.status
      BY <1>1, <1>2, <2>4, <3>1
    <3>3. QED
      BY <1>2, <2>1, <2>4, <3>2 DEF OnItsWay
  <2>5. QED
    BY <2>2, <2>3, <2>4
<1>4. CASE x = s
  <2>1. \/ type \notin {"RECONNECT", "MAKE_MOVE"}
        \/ type = "MAKE_MOVE" /\ (Head(cmds[s]).id # game.id \/ game.status # "ACTIVE")
    BY <1>1, <1>4
  <2>2. type # "RECONNECT" /\ Synced(s)
    BY <2>1, Taken DEF Synced
  <2>3. game'.id = game.id /\ game'.status = game.status
        /\ cmds[s][i].type = "MAKE_MOVE" /\ cmds[s][i].id = game.id /\ game.status = "ACTIVE"
    BY <1>1, <1>2, <1>4, <2>2 DEF Synced, Resumes
  <2>4. i # 1
    BY <2>1, <2>3, Taken
  <2>5. i - 1 \in DOMAIN cmds'[s] /\ cmds'[s][i - 1] = cmds[s][i]
    BY <1>4, <2>4, Taken
  <2>6. QED
    BY <1>4, <2>3, <2>5 DEF OnItsWay
<1>5. QED
  BY <1>3, <1>4

\* A move is answered with MOVE_ACK or MOVE_REJECTED, unless it is for another game;
\* the one that ends a game is told to the other player too.
LEMMA PendingMakeMove ==
  ASSUME TypeInv, LinkInv, PendingIsUnderWay, NEW s \in Symbols, handleMakeMove(s)
  PROVE  PendingIsUnderWay'
<1>1. takes(s, "MAKE_MOVE") /\ UNCHANGED <<accepted, connected, link, client, drops>>
  BY DEF handleMakeMove
<1>2. /\ seq \in Nat /\ StreamOK(stream, seq) /\ GameOK(game) /\ game \in Games
      /\ connected \subseteq Symbols /\ stream \in Streams /\ MaxMoves \in Nat
  BY BoundsAssumption DEF TypeInv, GameOK, StreamOK
<1>3. link[s] = "up"
  BY <1>1, Taken
<1>4. stream.events = events /\ stream'.events = events'
  BY DEF stream
<1>5. CASE Head(cmds[s]).id # game.id \/ game.status # "ACTIVE"
  <2>1. UNCHANGED <<game, events>>
    BY <1>5 DEF handleMakeMove
  <2>2. QED
    BY <1>1, <1>5, <2>1, PendingHandled
<1>6. CASE Head(cmds[s]).id = game.id /\ game.status = "ACTIVE" /\ rejectMove(s)
  <2> DEFINE e == event("MOVE_REJECTED", seq + 1, game)
             m == toPlayer(s, e)
             st == emit(stream, m)
  <2>1. becomes(st) /\ game' = game
    BY <1>6 DEF rejectMove
  <2>2. e \in RoomEvents /\ e.seq = seq + 1 /\ e.type = "MOVE_REJECTED"
    BY <1>2, BoardEvent DEF BoardTypes
  <2> HIDE DEF e
  <2>3. m \in Messages /\ m.event = e /\ Reaches(s, m)
    BY <1>2, <1>3, <2>2, MessageTypes DEF Reaches
  <2> HIDE DEF m
  <2>4. Answers(stream, st) /\ Answered(st.events[s])
    BY <1>2, <2>2, <2>3, EmittedAnswers DEF Clearing
  <2>5. events' = st.events
    BY <2>1 DEF becomes
  <2> HIDE DEF st
  <2>6. QED
    BY <1>1, <1>4, <2>1, <2>4, <2>5, PendingHandled DEF Answers
<1>7. CASE game.status = "ACTIVE" /\ acceptMove(s)
  <2>1. PICK over \in BOOLEAN :
          LET g == [game EXCEPT !.moves = @ + 1,
                                !.turn = IF over THEN s ELSE opponent(s),
                                !.status = IF over THEN "FINISHED" ELSE "ACTIVE"]
              ack == toPlayer(s, event("MOVE_ACK", seq + 1, g))
              broadcast == toOthers(s, event("MOVE_BROADCAST", seq + 2, g))
              finished == toBroadcast(event("GAME_FINISHED", seq + 3, g))
              told == emit(emit(stream, ack), broadcast)
          IN
          /\ game.moves + 1 = MaxMoves => over
          /\ game' = g
          /\ becomes(IF over THEN emit(told, finished) ELSE told)
    BY <1>7 DEF acceptMove
  <2> DEFINE g == [game EXCEPT !.moves = @ + 1,
                               !.turn = IF over THEN s ELSE opponent(s),
                               !.status = IF over THEN "FINISHED" ELSE "ACTIVE"]
             ack == toPlayer(s, event("MOVE_ACK", seq + 1, g))
             broadcast == toOthers(s, event("MOVE_BROADCAST", seq + 2, g))
             finished == toBroadcast(event("GAME_FINISHED", seq + 3, g))
             st1 == emit(stream, ack)
             st2 == emit(st1, broadcast)
             st3 == emit(st2, finished)
             st == IF over THEN st3 ELSE st2
  <2>2. game' = g /\ becomes(st)
    BY <2>1
  <2>3. game.moves + 1 \in 0..MaxMoves /\ opponent(s) \in Symbols
    BY <1>2, <1>7, Opponents DEF GameOK, Games
  <2>4. g \in Games /\ g.id = game.id /\ g.status = IF over THEN "FINISHED" ELSE "ACTIVE"
    BY <1>2, <2>3 DEF Games
  <2> HIDE DEF g
  <2>5. /\ seq + 1 \in Nat \ {0} /\ seq + 2 \in Nat \ {0} /\ seq + 3 \in Nat \ {0}
        /\ {"MOVE_ACK", "MOVE_BROADCAST", "GAME_FINISHED"} \subseteq BoardTypes
    BY <1>2 DEF BoardTypes, MoveTypes
  <2>6. /\ ack \in Messages /\ ack.event.type = "MOVE_ACK" /\ ack.event.seq = seq + 1
        /\ Reaches(s, ack)
    <3> DEFINE e == event("MOVE_ACK", seq + 1, g)
    <3>1. e \in RoomEvents /\ e.seq = seq + 1 /\ e.type = "MOVE_ACK"
      BY <2>4, <2>5, BoardEvent
    <3> HIDE DEF e
    <3>2. ack = toPlayer(s, e)
      BY DEF e
    <3> HIDE DEF ack
    <3>3. QED
      BY <1>2, <1>3, <3>1, <3>2, MessageTypes DEF Reaches
  <2>7. broadcast \in Messages /\ broadcast.event.seq = seq + 2
    <3> DEFINE e == event("MOVE_BROADCAST", seq + 2, g)
    <3>1. e \in RoomEvents /\ e.seq = seq + 2
      BY <2>4, <2>5, BoardEvent
    <3> HIDE DEF e
    <3>2. broadcast = toOthers(s, e)
      BY DEF e
    <3> HIDE DEF broadcast
    <3>3. QED
      BY <1>2, <3>1, <3>2, MessageTypes
  <2>8. /\ finished \in Messages /\ finished.event.seq = seq + 3
        /\ finished.event.type = "GAME_FINISHED" /\ finished.to = connected
    <3> DEFINE e == event("GAME_FINISHED", seq + 3, g)
    <3>1. e \in RoomEvents /\ e.seq = seq + 3 /\ e.type = "GAME_FINISHED"
      BY <2>4, <2>5, BoardEvent
    <3> HIDE DEF e
    <3>2. finished = toBroadcast(e)
      BY DEF e
    <3> HIDE DEF finished
    <3>3. QED
      BY <1>2, <3>1, <3>2, MessageTypes
  <2> HIDE DEF ack, broadcast, finished
  <2>9. StreamOK(st1, seq + 1) /\ Answers(stream, st1) /\ Answered(st1.events[s])
    BY <1>2, <2>6, Emitted, EmittedAnswers DEF Clearing
  <2> HIDE DEF st1
  <2>10. StreamOK(st2, seq + 2) /\ Answers(st1, st2)
    BY <1>2, <2>7, <2>9, Emitted, EmittedAnswers
  <2> HIDE DEF st2
  <2>11. /\ Answers(st2, st3)
         /\ \A x \in Symbols : Reaches(x, finished) => Answered(st3.events[x])
    BY <1>2, <2>8, <2>10, EmittedAnswers DEF Clearing
  <2> HIDE DEF st3
  <2>12. Answers(stream, st) /\ Answered(st.events[s])
    BY <2>9, <2>10, <2>11 DEF Answers
  <2>13. \/ g.status = game.status
         \/ \A x \in Symbols : Synced(x) => Answered(st.events[x])
    <3>1. CASE over
      <4>1. \A x \in Symbols : Synced(x) => Reaches(x, finished)
        BY <2>8 DEF Reaches, LinkInv, Synced
      <4>2. QED
        BY <2>11, <3>1, <4>1
    <3>2. CASE ~over
      BY <1>7, <2>4, <3>2
    <3>3. QED
      BY <3>1, <3>2
  <2> HIDE DEF st
  <2>14. events' = st.events
    BY <2>2 DEF becomes
  <2>15. QED
    BY <1>1, <1>4, <2>2, <2>4, <2>12, <2>13, <2>14, PendingHandled DEF Answers
<1>8. QED
  BY <1>5, <1>6, <1>7 DEF handleMakeMove

\* The answer to SYNC_REQUEST comes after what is on its way.
LEMMA PendingSyncRequest ==
  ASSUME TypeInv, LinkInv, PendingIsUnderWay, NEW s \in Symbols, handleSyncRequest(s)
  PROVE  PendingIsUnderWay'
<1> DEFINE missed == getReplayEvents(buffer, seq, Head(cmds[s]).fromSeq, s)
           m == toPlayer(s, stateSync(missed, seq))
           st == send(stream, m)
<1>1. takes(s, "SYNC_REQUEST") /\ becomes(st) /\ UNCHANGED <<link, client, game>>
  BY DEF handleSyncRequest
<1>2. stream \in Streams
  BY DEF TypeInv, StreamOK
<1> HIDE DEF m
<1>3. Answers(stream, st)
  BY <1>2, SentAnswers
<1> HIDE DEF st
<1>4. \A x \in Symbols : Answered(events[x]) => Answered(events'[x])
  BY <1>1, <1>3 DEF becomes, Answers, stream
<1>5. QED
  BY <1>1, <1>4, PendingHandled

\* RECONNECT is answered with RECONNECT_ACK.
LEMMA PendingReconnect ==
  ASSUME TypeInv, LinkInv, PendingIsUnderWay, NEW s \in Symbols, handleReconnect(s)
  PROVE  PendingIsUnderWay'
<1> DEFINE o == opponent(s)
           told == o \in connected
           note == toPlayer(o, notice("OPPONENT_RECONNECTED", seq + 1))
           noted == IF told THEN emit(stream, note) ELSE stream
           seqNow == IF told THEN seq + 2 ELSE seq + 1
           ack == toPlayer(s, event("RECONNECT_ACK", seqNow, game))
           acked == send(noted, ack)
           last == Head(cmds[s]).lastReceivedSeq
           missed == getReplayEvents(acked.buffer, seqNow, last + 1, s)
           sync == toPlayer(s, stateSync(missed, seqNow))
           st == IF last < seqNow THEN send(acked, sync) ELSE acked
<1>1. takes(s, "RECONNECT") /\ becomes(st) /\ UNCHANGED <<game, link, client>>
  BY DEF handleReconnect
<1>2. link[s] = "up"
  BY <1>1, Taken
<1>3. /\ seq \in Nat /\ StreamOK(stream, seq) /\ stream \in Streams /\ game \in Games
      /\ connected \subseteq Symbols /\ o \in Symbols
  BY Opponents DEF TypeInv, GameOK, StreamOK
<1>4. note \in Messages /\ note.event.seq = seq + 1
  <2> DEFINE e == notice("OPPONENT_RECONNECTED", seq + 1)
  <2>1. e \in RoomEvents /\ e.seq = seq + 1
    BY <1>3, NoticeEvent DEF NoticeTypes
  <2>2. note = toPlayer(o, e)
    OBVIOUS
  <2> HIDE DEF e, note, o
  <2>3. QED
    BY <1>3, <2>1, <2>2, MessageTypes
<1>5. ack.event \in Events /\ ack.event.type = "RECONNECT_ACK" /\ Reaches(s, ack)
  <2>1. seqNow \in Nat \ {0} /\ "RECONNECT_ACK" \in BoardTypes
    BY <1>3 DEF BoardTypes, Full
  <2> HIDE DEF seqNow
  <2> DEFINE e == event("RECONNECT_ACK", seqNow, game)
  <2>2. e \in RoomEvents /\ e.type = "RECONNECT_ACK"
    BY <1>3, <2>1, BoardEvent
  <2>3. ack = toPlayer(s, e)
    OBVIOUS
  <2> HIDE DEF e, ack
  <2>4. QED
    BY <1>2, <1>3, <2>2, <2>3, MessageTypes DEF Reaches
<1> HIDE DEF note, ack
<1>6. noted \in Streams /\ Answers(stream, noted)
  <2>1. CASE told
    BY <1>3, <1>4, <2>1, Emitted, EmittedAnswers DEF StreamOK
  <2>2. CASE ~told
    BY <1>3, <2>2 DEF Answers
  <2>3. QED
    BY <2>1, <2>2
<1> HIDE DEF noted, seqNow
<1>7. acked \in Streams /\ Answers(noted, acked) /\ Answered(acked.events[s])
  BY <1>5, <1>6, Sent, SentAnswers DEF Clearing
<1> HIDE DEF sync, acked
<1>8. Answers(acked, st)
  <2>1. Answers(acked, send(acked, sync)) /\ Answers(acked, acked)
    BY <1>7, SentAnswers DEF Answers
  <2>2. QED
    BY <2>1
<1> HIDE DEF st
<1>9. events' = st.events /\ stream.events = events
  BY <1>1 DEF becomes, stream
<1>10. (\A x \in Symbols : Answered(events[x]) => Answered(events'[x])) /\ Answered(events'[s])
  BY <1>6, <1>7, <1>8, <1>9 DEF Answers
<1>11. QED
  BY <1>1, <1>10, PendingHandled

\* An emission that leaves the game, the connections and the commands alone.
LEMMA NoticeAnswers ==
  ASSUME TypeInv, NEW e \in RoomEvents, e.seq = seq + 1, NEW m \in Messages, m.event = e,
         becomes(emit(stream, m))
  PROVE  \A x \in Symbols : Answered(events[x]) => Answered(events'[x])
<1>1. seq \in Nat /\ StreamOK(stream, seq)
  BY DEF TypeInv
<1>2. Answers(stream, emit(stream, m))
  BY <1>1, EmittedAnswers
<1>3. QED
  BY <1>2 DEF Answers, becomes, stream

\* A request of a rematch only adds an event.
LEMMA PendingRequestRematch ==
  ASSUME TypeInv, LinkInv, PendingIsUnderWay, NEW s \in Symbols, handleRequestRematch(s)
  PROVE  PendingIsUnderWay'
<1>1. takes(s, "REQUEST_REMATCH") /\ UNCHANGED <<game, link, client>>
  BY DEF handleRequestRematch
<1>2. \A x \in Symbols : Answered(events[x]) => Answered(events'[x])
  <2> DEFINE e == rematchRequested(seq + 1, s)
             m == toBroadcast(e)
  <2>1. UNCHANGED events \/ becomes(emit(stream, m))
    BY DEF handleRequestRematch
  <2>2. e \in RoomEvents /\ e.seq = seq + 1 /\ connected \subseteq Symbols
    BY RematchEvent DEF TypeInv
  <2> HIDE DEF e
  <2>3. m \in Messages /\ m.event = e
    BY <2>2, MessageTypes
  <2> HIDE DEF m
  <2>4. QED
    BY <2>1, <2>2, <2>3, NoticeAnswers
<1>3. QED
  BY <1>1, <1>2, PendingHandled

\* A refusal only adds an event.
LEMMA PendingDeclineRematch ==
  ASSUME TypeInv, LinkInv, PendingIsUnderWay, NEW s \in Symbols, handleDeclineRematch(s)
  PROVE  PendingIsUnderWay'
<1>1. takes(s, "DECLINE_REMATCH") /\ UNCHANGED <<game, link, client>>
  BY DEF handleDeclineRematch
<1>2. \A x \in Symbols : Answered(events[x]) => Answered(events'[x])
  <2> DEFINE m == toBroadcast(notice("REMATCH_DECLINED", seq + 1))
  <2>1. UNCHANGED events \/ becomes(send(stream, m))
    BY DEF handleDeclineRematch
  <2>2. stream \in Streams
    BY DEF TypeInv, StreamOK
  <2> HIDE DEF m
  <2>3. Answers(stream, send(stream, m))
    BY <2>2, SentAnswers
  <2>4. QED
    BY <2>1, <2>3 DEF Answers, becomes, stream
<1>3. QED
  BY <1>1, <1>2, PendingHandled

\* A new game is started when the old one has ended: no move is under way in it.
LEMMA PendingAcceptRematch ==
  ASSUME TypeInv, LinkInv, PendingIsUnderWay, NEW s \in Symbols, handleAcceptRematch(s)
  PROVE  PendingIsUnderWay'
<1>1. takes(s, "ACCEPT_REMATCH") /\ UNCHANGED <<link, client>>
  BY DEF handleAcceptRematch
<1> DEFINE h == NewGame(game.id + 1)
           e == event("GAME_STARTED", 1, h)
           m == toBroadcast(e)
           st0 == [stream EXCEPT !.buffer = <<>>]
<1>2. \/ UNCHANGED <<game, events>>
      \/ game.status = "FINISHED" /\ game.id < MaxGames /\ becomes(emit(st0, m))
  <2>1. Head(cmds[s]).id \in 0..(MaxGames - 1)
    BY <1>1, Taken DEF CommandRecords
  <2>2. MaxGames \in Nat
    BY BoundsAssumption
  <2>3. QED
    BY <2>1, <2>2 DEF handleAcceptRematch
<1>3. CASE UNCHANGED <<game, events>>
  BY <1>1, <1>3, PendingHandled
<1>4. CASE game.status = "FINISHED" /\ game.id < MaxGames /\ becomes(emit(st0, m))
  <2>1. GameOK(game) /\ stream \in Streams /\ connected \subseteq Symbols
        /\ \A x \in Symbols : link[x] # "up" => stream.events[x] = <<>>
    BY DEF TypeInv, StreamOK
  <2>2. h \in Games
    <3>1. game.id + 1 \in 1..MaxGames
      BY <1>4, <2>1, BoundsAssumption DEF GameOK
    <3>2. QED
      BY <3>1, NewGameOK DEF GameOK
  <2> HIDE DEF h
  <2>3. e \in RoomEvents /\ e.seq = 1
    BY <2>2, BoardEvent DEF BoardTypes, Full
  <2> HIDE DEF e
  <2>4. m \in Messages /\ m.event = e
    BY <2>1, <2>3, MessageTypes DEF Symbols
  <2> HIDE DEF m
  <2>5. StreamOK(st0, 0) /\ st0.events = stream.events
    <3> DEFINE none == <<>>
    <3>1. none \in Seq(Messages) /\ Len(none) = 0 /\ 0 <= BufferSize /\ 1..0 = {}
      BY BoundsAssumption
    <3>2. st0 = [stream EXCEPT !.buffer = none]
      OBVIOUS
    <3> HIDE DEF none, st0
    <3>3. st0 \in Streams /\ st0.buffer = none /\ st0.events = stream.events
      BY <2>1, <3>1, <3>2 DEF Streams
    <3>4. QED
      BY <2>1, <3>1, <3>3 DEF StreamOK, Ordered
  <2> HIDE DEF st0
  <2>6. Answers(st0, emit(st0, m))
    BY <2>3, <2>4, <2>5, EmittedAnswers
  <2>7. \A x \in Symbols : Answered(events[x]) => Answered(events'[x])
    BY <1>4, <2>5, <2>6 DEF Answers, becomes, stream
  <2>8. QED
    BY <1>1, <1>4, <2>7, PendingHandled
<1>5. QED
  BY <1>2, <1>3, <1>4

\* What is not a command's handler and only adds events.
LEMMA PendingUnasked ==
  ASSUME PendingIsUnderWay, UNCHANGED <<game, cmds, client>>,
         \A x \in Symbols : link'[x] = "up" => link[x] = "up",
         \A x \in Symbols : Answered(events[x]) => Answered(events'[x])
  PROVE  PendingIsUnderWay'
BY PendingForm DEF Waits, OnItsWay

\* So does the end of a proposal.
LEMMA PendingExpireRematch ==
  ASSUME TypeInv, PendingIsUnderWay, expireRematch
  PROVE  PendingIsUnderWay'
<1> DEFINE e == notice("REMATCH_EXPIRED", seq + 1)
           m == toBroadcast(e)
<1>1. becomes(emit(stream, m)) /\ UNCHANGED <<game, link, cmds, client>>
  BY DEF expireRematch
<1>2. e \in RoomEvents /\ e.seq = seq + 1 /\ connected \subseteq Symbols
  BY NoticeEvent DEF TypeInv, NoticeTypes
<1> HIDE DEF e
<1>3. m \in Messages /\ m.event = e
  BY <1>2, MessageTypes DEF Symbols
<1> HIDE DEF m
<1>4. \A x \in Symbols : Answered(events[x]) => Answered(events'[x])
  BY <1>1, <1>2, <1>3, NoticeAnswers
<1>5. QED
  BY <1>1, <1>4, PendingUnasked

\* A connection that the server gives up was lost before.
LEMMA PendingDisconnect ==
  ASSUME TypeInv, PendingIsUnderWay, NEW s \in Symbols, handleDisconnect(s)
  PROVE  PendingIsUnderWay'
<1> DEFINE e == notice("OPPONENT_DISCONNECTED", seq + 1)
           m == toPlayer(opponent(s), e)
<1>1. /\ link' = [link EXCEPT ![s] = "down"] /\ UNCHANGED <<game, cmds, client>>
      /\ UNCHANGED events \/ becomes(emit(stream, m))
  BY DEF handleDisconnect
<1>2. /\ e \in RoomEvents /\ e.seq = seq + 1 /\ connected \subseteq Symbols
      /\ opponent(s) \in Symbols
  BY NoticeEvent, Opponents DEF TypeInv, NoticeTypes
<1> HIDE DEF e
<1>3. m \in Messages /\ m.event = e
  BY <1>2, MessageTypes
<1> HIDE DEF m
<1>4. \A x \in Symbols : Answered(events[x]) => Answered(events'[x])
  BY <1>1, <1>2, <1>3, NoticeAnswers
<1>5. \A x \in Symbols : link'[x] = "up" => link[x] = "up"
  BY <1>1 DEF TypeInv
<1>6. QED
  BY <1>1, <1>4, <1>5, PendingUnasked

\* Commands are added at the end: what is on its way stays there.
LEMMA OnItsWayExtends ==
  ASSUME NEW q, NEW r, NEW g, DOMAIN q \subseteq DOMAIN r,
         \A i \in DOMAIN q : r[i] = q[i], OnItsWay(q, g)
  PROVE  OnItsWay(r, g)
BY DEF OnItsWay

\* The event that is read clears the mark, if it is an answer.
LEMMA PendingReceive ==
  ASSUME TypeInv, LinkInv, PendingIsUnderWay, NEW s \in Symbols, receive(s)
  PROVE  PendingIsUnderWay'
<1> DEFINE q == events[s]
           e == Head(q)
           d == handleFrame(s, client[s], e)
           r == [type |-> "SYNC_REQUEST", fromSeq |-> client[s].lastSeq + 1]
<1>1. /\ q # <<>> /\ events' = [events EXCEPT ![s] = Tail(@)]
      /\ client' = [client EXCEPT ![s] = d]
      /\ cmds' = IF HasGap(client[s], e) THEN [cmds EXCEPT ![s] = Append(@, r)] ELSE cmds
      /\ UNCHANGED <<game, link>>
  BY DEF receive, server
<1>2. /\ client \in [Symbols -> Clients] /\ cmds \in [Symbols -> Seq(CommandRecords)]
      /\ events \in [Symbols -> Seq(Events)] /\ q \in Seq(Events)
  BY DEF TypeInv, StreamOK, Streams, stream
<1>3. /\ \A x \in Symbols \ {s} :
           events'[x] = events[x] /\ client'[x] = client[x] /\ cmds'[x] = cmds[x]
      /\ client'[s] = d /\ events'[s] = Tail(q)
  BY <1>1, <1>2
<1>4. \A x \in Symbols : /\ DOMAIN cmds[x] \subseteq DOMAIN cmds'[x]
                          /\ \A i \in DOMAIN cmds[x] : cmds'[x][i] = cmds[x][i]
  <2>1. CASE HasGap(client[s], e)
    <3> HIDE DEF r
    <3>1. cmds' = [cmds EXCEPT ![s] = Append(@, r)]
      BY <1>1, <2>1
    <3>2. r \in CommandRecords
      BY <1>2 DEF r, CommandRecords, Clients
    <3>3. QED
      BY <1>2, <3>1, <3>2
  <2>2. CASE ~HasGap(client[s], e)
    BY <1>1, <2>2
  <2>3. QED
    BY <2>1, <2>2
<1> HIDE DEF d, e
<1>5. SUFFICES ASSUME NEW x \in Symbols, Waits(x)', ~OnItsWay(cmds'[x], game')
      PROVE  Answered(events'[x])
  BY PendingForm
<1>6. ~OnItsWay(cmds[x], game)
  <2>1. SUFFICES ASSUME OnItsWay(cmds[x], game) PROVE OnItsWay(cmds'[x], game)
    BY <1>1, <1>5
  <2>2. /\ DOMAIN cmds[x] \subseteq DOMAIN cmds'[x]
        /\ \A i \in DOMAIN cmds[x] : cmds'[x][i] = cmds[x][i]
    BY <1>4
  <2>3. QED
    BY <2>1, <2>2, OnItsWayExtends
<1>7. CASE x # s
  BY <1>1, <1>3, <1>5, <1>6, <1>7, PendingForm DEF Waits
<1>8. CASE x = s
  <2>1. d.pending /\ link[s] = "up"
    BY <1>1, <1>3, <1>5, <1>8 DEF Waits
  <2>2. e \in Events /\ e = q[1] /\ client[s] \in Clients
    BY <1>1, <1>2 DEF e
  <2>3. client[s].pending
    BY <2>1, <2>2, FramePending DEF d
  <2>4. Answered(q)
    BY <1>6, <1>8, <2>1, <2>3, PendingForm DEF Waits
  <2>5. PICK i \in DOMAIN q : \E y \in Told(q[i]) : y.type \in Clearing
    BY <2>4 DEF Answered
  <2>6. i # 1
    BY <2>1, <2>2, <2>5, FrameClears DEF d
  <2>7. i - 1 \in DOMAIN Tail(q) /\ Tail(q)[i - 1] = q[i]
    BY <1>1, <1>2, <2>6
  <2>8. QED
    BY <1>3, <1>8, <2>5, <2>7 DEF Answered
<1>9. QED
  BY <1>7, <1>8

\* What a client in step shows has the status of the game, unless an answer is
\* on its way.
LEMMA UnansweredShows ==
  ASSUME NEW s \in Symbols, NEW c0 \in Clients, NEW q \in Seq(Events), NEW g \in Games,
         NEW gone, Chain(s, c0, q, g, TRUE, gone), ~Answered(q)
  PROVE  c0.view.id = g.id /\ c0.view.status = g.status
<1> DEFINE n == Len(q)
<1>1. PICK c : ChainOf(s, c0, q, g, TRUE, gone, c)
  BY DEF Chain
<1>2. n \in Nat /\ \A i \in 1..n : q[i] \in Events /\ i \in DOMAIN q
  OBVIOUS
<1>3. /\ c \in [0..n -> Clients] /\ Alike(c[0], c0)
      /\ \A i \in 1..n : c[i] = handleFrame(s, c[i - 1], q[i])
      /\ Current(c[n].view, g)
  BY <1>1 DEF ChainOf, Shows
<1> DEFINE S == {i \in 0..n : c[i].view.id = c[0].view.id /\ c[i].view.status = c[0].view.status}
<1>4. 0 \in S
  BY <1>2
<1>5. ASSUME NEW i \in 0..(n - 1), i \in S PROVE i + 1 \in S
  <2>1. i + 1 \in 1..n /\ i + 1 \in 0..n /\ i \in 0..n /\ (i + 1) - 1 = i
    BY <1>2
  <2>2. c[i + 1] = handleFrame(s, c[i], q[i + 1]) /\ c[i] \in Clients /\ q[i + 1] \in Events
    BY <1>2, <1>3, <2>1
  <2>3. \A y \in Told(q[i + 1]) : y.type \notin Clearing
    BY <1>2, <2>1 DEF Answered
  <2>4. c[i + 1].view.id = c[i].view.id /\ c[i + 1].view.status = c[i].view.status
    BY <2>2, <2>3, FrameKeepsGame
  <2>5. QED
    BY <1>5, <2>1, <2>4
<1> HIDE DEF S
<1>6. 0..n \subseteq S
  BY <1>2, <1>4, <1>5, UpTo
<1>7. n \in S
  BY <1>2, <1>6
<1>8. QED
  BY <1>3, <1>7 DEF S, Alike, Current

\* A click on the game as it is sends a move that the game will answer.
LEMMA PendingMakes ==
  ASSUME TypeInv, LinkInv, TellInv, PendingIsUnderWay, NEW s \in Symbols, makeMove(s)
  PROVE  PendingIsUnderWay'
<1> DEFINE r == [type |-> "MAKE_MOVE", id |-> client[s].view.id, moves |-> client[s].view.moves]
<1>1. /\ link[s] = "up" /\ client' = [client EXCEPT ![s].pending = TRUE]
      /\ cmds' = [cmds EXCEPT ![s] = Append(@, r)] /\ client[s].view.status = "ACTIVE"
      /\ UNCHANGED <<game, link, events, connected>>
  BY DEF makeMove, server, canMove
<1>2. /\ client \in [Symbols -> Clients] /\ game \in Games
      /\ events \in [Symbols -> Seq(Events)]
  BY DEF TypeInv, GameOK, StreamOK, Streams, stream
<1>3. r \in CommandRecords /\ r.type = "MAKE_MOVE" /\ r.id = client[s].view.id
  BY <1>2 DEF CommandRecords, Clients, Games
<1> HIDE DEF r
<1>4. /\ \A x \in Symbols \ {s} : cmds'[x] = cmds[x] /\ client'[x] = client[x]
      /\ DOMAIN cmds'[s] = DOMAIN cmds[s] \cup {Len(cmds[s]) + 1}
      /\ \A i \in DOMAIN cmds[s] : cmds'[s][i] = cmds[s][i]
      /\ cmds'[s][Len(cmds[s]) + 1] = r
  BY <1>1, <1>2, <1>3, CommandSent
<1>5. SUFFICES ASSUME NEW x \in Symbols, Waits(x)', ~Answered(events'[x])
      PROVE  OnItsWay(cmds'[x], game')
  BY PendingForm
<1>6. CASE x # s
  BY <1>1, <1>4, <1>5, <1>6, PendingForm DEF Waits
<1>7. CASE x = s /\ Resumes(s)
  BY <1>4, <1>7 DEF Resumes, OnItsWay
<1>8. CASE x = s /\ ~Resumes(s)
  <2> DEFINE gone == opponent(s) \notin connected
  <2>1. Good(stream, s, client[s], game, game.status, game, Synced(s), gone)
    BY DEF TellInv
  <2>2. Synced(s) = TRUE
    BY <1>1, <1>8 DEF Synced
  <2> HIDE DEF gone
  <2>3. Chain(s, client[s], events[s], game, TRUE, gone)
    BY <2>1, <2>2 DEF Good, stream
  <2>4. ~Answered(events[s]) /\ events[s] \in Seq(Events) /\ client[s] \in Clients
    BY <1>1, <1>2, <1>5, <1>8
  <2>5. client[s].view.id = game.id /\ client[s].view.status = game.status
    BY <1>2, <2>3, <2>4, UnansweredShows
  <2>6. QED
    BY <1>1, <1>3, <1>4, <1>8, <2>5 DEF OnItsWay
<1>9. QED
  BY <1>6, <1>7, <1>8

\* A rematch command goes behind what is on its way.
LEMMA PendingSendRematch ==
  ASSUME TypeInv, LinkInv, PendingIsUnderWay, NEW s \in Symbols,
         NEW type \in {"REQUEST_REMATCH", "ACCEPT_REMATCH", "DECLINE_REMATCH"},
         sendRematch(s, type)
  PROVE  PendingIsUnderWay'
<1> DEFINE r == [type |-> type, id |-> client[s].view.id]
<1>1. /\ cmds' = [cmds EXCEPT ![s] = Append(@, r)]
      /\ UNCHANGED <<game, link, events, client>>
  BY DEF sendRematch, server
<1>2. cmds \in [Symbols -> Seq(CommandRecords)]
  BY DEF TypeInv
<1> HIDE DEF r
<1>3. ASSUME NEW x \in Symbols, OnItsWay(cmds[x], game)
      PROVE  OnItsWay(cmds'[x], game')
  <2> DEFINE T == CommandRecords \cup {r}
  <2>1. cmds[s] \in Seq(T) /\ r \in T
    BY <1>2
  <2> HIDE DEF T
  <2>2. /\ DOMAIN cmds[x] \subseteq DOMAIN cmds'[x]
        /\ \A i \in DOMAIN cmds[x] : cmds'[x][i] = cmds[x][i]
    BY <1>1, <1>2, <2>1
  <2>3. QED
    BY <1>1, <1>3, <2>2, OnItsWayExtends
<1>4. QED
  BY <1>1, <1>3, PendingForm DEF Waits

\* With the connection goes the click.
LEMMA PendingDrop ==
  ASSUME TypeInv, PendingIsUnderWay, NEW s \in Symbols, drop(s)
  PROVE  PendingIsUnderWay'
<1>1. /\ link' = [link EXCEPT ![s] = "lost"] /\ events' = [events EXCEPT ![s] = <<>>]
      /\ cmds' = [cmds EXCEPT ![s] = <<>>] /\ UNCHANGED <<game, client>>
  BY DEF drop, server
<1>2. link'[s] = "lost" /\ \A x \in Symbols \ {s} :
        link'[x] = link[x] /\ cmds'[x] = cmds[x] /\ events'[x] = events[x]
  BY <1>1 DEF TypeInv, StreamOK, Streams, stream
<1>3. QED
  BY <1>1, <1>2, PendingForm DEF Waits

\* A RECONNECT is on its way as soon as there is a connection.
LEMMA PendingAuthenticate ==
  ASSUME TypeInv, PendingIsUnderWay, NEW s \in Symbols, authenticate(s)
  PROVE  PendingIsUnderWay'
<1> DEFINE r == [type |-> "RECONNECT", lastReceivedSeq |-> client[s].storeSeq]
<1>1. /\ link' = [link EXCEPT ![s] = "up"] /\ cmds' = [cmds EXCEPT ![s] = <<r>>]
      /\ UNCHANGED <<game, events, client>>
  BY DEF authenticate, server
<1>2. r.type = "RECONNECT"
  OBVIOUS
<1> HIDE DEF r
<1>3. DOMAIN <<r>> = {1} /\ <<r>>[1] = r
  OBVIOUS
<1>4. /\ cmds'[s] = <<r>>
      /\ \A x \in Symbols \ {s} : link'[x] = link[x] /\ cmds'[x] = cmds[x]
  BY <1>1 DEF TypeInv
<1>5. OnItsWay(cmds'[s], game')
  BY <1>2, <1>3, <1>4 DEF OnItsWay
<1>6. QED
  BY <1>1, <1>4, <1>5, PendingForm DEF Waits

-----------------------------------------------------------------------------
(***************************************************************************)
(* The theorems.                                                           *)
(***************************************************************************)

\* The first two events, GAME_STARTED and READY, make the client show the game.
LEMMA StartChain ==
  ASSUME NEW s \in Symbols, NEW c0 \in Clients, ~c0.opponentAway,
         NEW a \in RoomEvents, a.type = "GAME_STARTED",
         NEW b \in RoomEvents, b.type = "READY",
         NEW g \in Games, a.game = g, Before(c0.view, g), NEW gone
  PROVE  Chain(s, c0, <<a, b>>, g, TRUE, gone)
<1> DEFINE c1 == handleFrame(s, c0, a)
           c2 == handleFrame(s, c1, b)
           q == <<a, b>>
           c == [i \in 0..2 |-> IF i = 0 THEN c0 ELSE IF i = 1 THEN c1 ELSE c2]
<1>1. c1 \in Clients /\ c1.view = g /\ c1.opponentAway = c0.opponentAway
  BY FrameOfEvent DEF Reduces, Full
<1> HIDE DEF c1
<1>2. c2 \in Clients /\ c2.view = g /\ c2.opponentAway = c0.opponentAway
  <2>1. c2 \in Clients /\ Reduces(c1, b, c2)
    BY <1>1, FrameOfEvent
  <2>2. b.type \notin BoardTypes
    BY DEF BoardTypes, Full, MoveTypes
  <2> HIDE DEF c2
  <2>3. QED
    BY <1>1, <2>1, <2>2 DEF Reduces
<1>3. c2 = handleFrame(s, c1, b) /\ c1 = handleFrame(s, c0, a)
  BY DEF c1
<1> HIDE DEF c2
<1>4. Len(q) = 2 /\ q[1] = a /\ q[2] = b /\ 1..2 = {1, 2} /\ 0..2 = {0, 1, 2}
  OBVIOUS
<1> HIDE DEF q
<1>5. c[0] = c0 /\ c[1] = c1 /\ c[2] = c2 /\ c \in [0..2 -> Clients]
  BY <1>1, <1>2
<1> HIDE DEF c
<1>6. Before(g, g) /\ Current(g, g)
  BY DEF Before, Current, OnBoard, Games
<1>7. Shows(s, c[2], g, TRUE, gone)
  BY <1>2, <1>5, <1>6 DEF Shows
<1>8. \A i \in 1..2 : c[i] = handleFrame(s, c[i - 1], q[i]) /\ Before(c[i - 1].view, c[i].view)
  BY <1>1, <1>2, <1>3, <1>4, <1>5, <1>6
<1>9. \A i \in 0..2 : Before(c[i].view, g) /\ ~c[i].opponentAway
  BY <1>1, <1>2, <1>4, <1>5, <1>6
<1>10. ChainOf(s, c0, q, g, TRUE, gone, c)
  BY <1>4, <1>5, <1>7, <1>8, <1>9 DEF ChainOf, Alike
<1>11. QED
  BY <1>10 DEF Chain, q

\* The invariant holds at the start.
LEMMA InitOK ==
  ASSUME Init
  PROVE  StreamInv
<1> DEFINE g == NewGame(1)
           a == event("GAME_STARTED", 1, g)
           b(s) == notice("READY", IF s = "X" THEN 7 ELSE 6)
           m == [to |-> Symbols, keep |-> Symbols, event |-> a]
<1>1. GameOK(g) /\ g \in Games /\ g.id = 1 /\ g.status = "ACTIVE"
  <2>1. 1 \in 1..MaxGames
    BY BoundsAssumption
  <2>2. QED
    BY <2>1, NewGameOK DEF GameOK
<1>2. /\ seq = 1 /\ game = g /\ buffer = <<m>> /\ accepted = {} /\ connected = Symbols
      /\ link = [s \in Symbols |-> "up"] /\ events = [s \in Symbols |-> <<a, b(s)>>]
      /\ cmds = [s \in Symbols |-> <<>>] /\ drops = 0
  BY DEF Init
<1>3. \A s \in Symbols : /\ client[s] \in Clients /\ client[s].view = NoGame
                         /\ client[s].opponentAway = FALSE /\ client[s].pending = FALSE
  BY BoundsAssumption DEF Init, Clients, Games, NoGame, Symbols
<1>4. client \in [Symbols -> Clients]
  BY <1>3 DEF Init
<1> HIDE DEF g
<1>5. a \in RoomEvents /\ a.type = "GAME_STARTED" /\ a.seq = 1 /\ a.game = g
  BY <1>1, BoardEvent DEF BoardTypes, Full
<1>6. \A s \in Symbols : b(s) \in RoomEvents /\ b(s).type = "READY"
  BY NoticeEvent DEF NoticeTypes
<1> HIDE DEF a, b
<1>7. m \in Messages /\ m.event = a /\ m.keep = Symbols
  BY <1>5 DEF Messages
<1> HIDE DEF m
<1>8. /\ <<m>> \in Seq(Messages) /\ Len(<<m>>) = 1 /\ <<m>>[1] = m /\ 1..1 = {1}
      /\ 1 <= BufferSize
  BY <1>7, BoundsAssumption
<1>9. StreamOK(stream, seq)
  <2>1. events \in [Symbols -> Seq(Events)]
    BY <1>2, <1>5, <1>6 DEF Events
  <2>2. Ordered(buffer, 1)
    BY <1>2, <1>5, <1>7, <1>8 DEF Ordered
  <2>3. \A s \in Symbols : link[s] = "up"
    BY <1>2
  <2>4. QED
    BY <1>2, <1>8, <2>1, <2>2, <2>3 DEF StreamOK, Streams, stream
<1>10. cmds \in [Symbols -> Seq(CommandRecords)]
  <2> DEFINE none == <<>>
  <2>1. none \in Seq(CommandRecords) /\ cmds = [s \in Symbols |-> none]
    BY <1>2
  <2> HIDE DEF none
  <2>2. QED
    BY <2>1
<1>11. TypeInv
  BY <1>1, <1>2, <1>4, <1>9, <1>10, BoundsAssumption DEF TypeInv
<1>12. ASSUME NEW s \in Symbols
       PROVE  Synced(s) = TRUE /\ s \in connected /\ link[s] = "up" /\ DOMAIN cmds[s] = {}
  <2>1. link[s] = "up" /\ cmds[s] = <<>> /\ DOMAIN cmds[s] = {} /\ s \in connected
    BY <1>2
  <2>2. QED
    BY <2>1 DEF Synced, Resumes
<1>13. LinkInv
  BY <1>12 DEF LinkInv
<1>14. TellInv
  <2>1. SUFFICES ASSUME NEW s \in Symbols
        PROVE  Good(stream, s, client[s], g, g.status, g, TRUE, opponent(s) \notin connected)
    BY <1>2, <1>12 DEF TellInv
  <2> DEFINE gone == opponent(s) \notin connected
  <2>2. KeptFor(buffer, s) = {1} /\ EventsOf(buffer)[1] = a
    BY <1>2, <1>7, <1>8 DEF KeptFor, EventsOf
  <2> HIDE DEF gone
  <2>3. Kept(buffer, s, g, g.status, gone)
    BY <1>1, <1>5, <2>2 DEF Kept, Tells, TellsEnd, TellsPresence, OnBoard, Games
  <2>4. Before(client[s].view, g)
    BY <1>1, <1>3 DEF Before, NoGame
  <2>5. Chain(s, client[s], <<a, b(s)>>, g, TRUE, gone)
    BY <1>1, <1>3, <1>5, <1>6, <2>4, StartChain
  <2>6. QED
    BY <1>2, <2>3, <2>5 DEF Good, stream, gone
<1>15. PendingIsUnderWay
  BY <1>3 DEF PendingIsUnderWay
<1>16. QED
  BY <1>11, <1>13, <1>14, <1>15 DEF StreamInv

\* Every step keeps the invariant.
LEMMA NextOK ==
  ASSUME StreamInv, [Next]_vars
  PROVE  StreamInv'
<1>1. TypeInv /\ LinkInv /\ TellInv /\ PendingIsUnderWay
  BY DEF StreamInv
<1>2. ASSUME NEW s \in Symbols, handleCommand(s) PROVE StreamInv'
  <2>1. CASE handleMakeMove(s)
    BY <1>1, <2>1, HandleMakeMove, PendingMakeMove DEF StreamInv
  <2>2. CASE handleSyncRequest(s)
    BY <1>1, <2>2, HandleSyncRequest, PendingSyncRequest DEF StreamInv
  <2>3. CASE handleReconnect(s)
    BY <1>1, <2>3, HandleReconnect, PendingReconnect DEF StreamInv
  <2>4. CASE handleRequestRematch(s)
    BY <1>1, <2>4, HandleRequestRematch, PendingRequestRematch DEF StreamInv
  <2>5. CASE handleAcceptRematch(s)
    BY <1>1, <2>5, HandleAcceptRematch, PendingAcceptRematch DEF StreamInv
  <2>6. CASE handleDeclineRematch(s)
    BY <1>1, <2>6, HandleDeclineRematch, PendingDeclineRematch DEF StreamInv
  <2>7. QED
    BY <1>2, <2>1, <2>2, <2>3, <2>4, <2>5, <2>6 DEF handleCommand
<1>3. CASE expireRematch
  BY <1>1, <1>3, ExpireRematch, PendingExpireRematch DEF StreamInv
<1>4. ASSUME NEW s \in Symbols, handleDisconnect(s) PROVE StreamInv'
  BY <1>1, <1>4, HandleDisconnect, PendingDisconnect DEF StreamInv
<1>5. ASSUME NEW s \in Symbols, receive(s) PROVE StreamInv'
  BY <1>1, <1>5, Receive, PendingReceive DEF StreamInv
<1>6. ASSUME NEW s \in Symbols, makeMove(s) PROVE StreamInv'
  BY <1>1, <1>6, MakeMove, PendingMakes DEF StreamInv
<1>7. ASSUME NEW s \in Symbols,
             requestRematch(s) \/ acceptRematch(s) \/ declineRematch(s)
      PROVE  StreamInv'
  <2>1. PICK type \in {"REQUEST_REMATCH", "ACCEPT_REMATCH", "DECLINE_REMATCH"} :
          sendRematch(s, type)
    BY <1>7 DEF requestRematch, acceptRematch, declineRematch
  <2>2. QED
    BY <1>1, <2>1, SendRematch, PendingSendRematch DEF StreamInv
<1>8. ASSUME NEW s \in Symbols, drop(s) PROVE StreamInv'
  BY <1>1, <1>8, Drop, PendingDrop DEF StreamInv
<1>9. ASSUME NEW s \in Symbols, authenticate(s) PROVE StreamInv'
  BY <1>1, <1>9, Authenticate, PendingAuthenticate DEF StreamInv
<1>10. CASE UNCHANGED vars
  <2>1. UNCHANGED <<seq, buffer, game, accepted, connected, link, events, cmds, client, drops>>
    BY <1>10 DEF vars
  <2>2. stream' = stream /\ \A s \in Symbols : Synced(s)' = Synced(s)
    BY <2>1 DEF stream, Synced, Resumes
  <2>3. StreamOK(stream, seq)'
    BY <1>1, <2>1, <2>2 DEF TypeInv, StreamOK
  <2>4. TypeInv'
    BY <1>1, <2>1, <2>3 DEF TypeInv
  <2>5. LinkInv' /\ TellInv'
    BY <1>1, <2>1, <2>2 DEF LinkInv, TellInv
  <2>6. PendingIsUnderWay'
    BY <1>1, <2>1 DEF PendingIsUnderWay
  <2>7. QED
    BY <2>4, <2>5, <2>6 DEF StreamInv
<1>11. QED
  BY <1>2, <1>3, <1>4, <1>5, <1>6, <1>7, <1>8, <1>9, <1>10 DEF Next

\* Whatever is lost, replayed or renumbered, what is in transit and what is kept
\* tell each client what it needs to show the game of the server.
THEOREM StreamsTellTheGame == Spec => []StreamInv
<1>1. Init => StreamInv
  BY InitOK
<1>2. StreamInv /\ [Next]_vars => StreamInv'
  BY NextOK
<1>3. QED
  BY <1>1, <1>2, PTL DEF Spec

\* Every variable has its type, and GameSession.replayBuffer never holds more than
\* EVENT_BUFFER_SIZE entries, numbered up to sessionSeq.
THEOREM TypeCorrect == Spec => []TypeOK
<1>1. StreamInv => TypeOK
  <2>1. SUFFICES ASSUME StreamInv PROVE TypeOK
    OBVIOUS
  <2>2. /\ TypeInv /\ StreamOK(stream, seq) /\ game \in Games /\ seq \in Nat \ {0}
        /\ client \in [Symbols -> Clients] /\ cmds \in [Symbols -> Seq(CommandRecords)]
    BY <2>1 DEF StreamInv, TypeInv, GameOK
  <2>3. buffer \in Seq(Messages) /\ Len(buffer) <= BufferSize /\ Ordered(buffer, seq)
    BY <2>2 DEF StreamOK, Streams, stream
  <2>4. ASSUME NEW i \in DOMAIN buffer PROVE buffer[i].event.seq \in 1..seq
    <3>1. i \in 1..Len(buffer) /\ buffer[i] \in Messages
      BY <2>3
    <3>2. buffer[i].event.seq \in Nat \ {0}
      BY <3>1 DEF Messages, RoomEvents
    <3>3. QED
      BY <2>2, <2>3, <3>1, <3>2 DEF Ordered
  <2>5. ASSUME NEW s \in Symbols, NEW i \in DOMAIN cmds[s] PROVE cmds[s][i].type \in Commands
    <3>1. cmds[s][i] \in CommandRecords
      BY <2>2
    <3>2. QED
      BY <3>1 DEF CommandRecords, Commands
  <2>6. \A s \in Symbols :
          /\ client[s].view \in Games /\ client[s].pending \in BOOLEAN
          /\ client[s].opponentAway \in BOOLEAN
          /\ client[s].rematch \in {"NONE", "REQUESTED_BY_ME", "REQUESTED_BY_THEM",
                                    "DECLINED", "EXPIRED"}
    BY <2>2 DEF Clients
  <2>7. QED
    BY <2>2, <2>3, <2>4, <2>5, <2>6 DEF TypeOK, TypeInv
<1>2. QED
  BY <1>1, StreamsTellTheGame, PTL

\* A client with nothing to hear and nothing under way.
LEMMA QuietShows ==
  ASSUME StreamInv, NEW s \in Symbols, Quiet(s)
  PROVE  /\ Current(client[s].view, game) /\ ~client[s].pending /\ s \in connected
         /\ OneUnlucky /\ client[s].opponentAway => opponent(s) \notin connected
<1>1. link[s] = "up" /\ events[s] = <<>> /\ cmds[s] = <<>>
  BY DEF Quiet
<1>2. Synced(s) = TRUE
  BY <1>1 DEF Synced, Resumes
<1>3. ~client[s].pending
  BY <1>1 DEF StreamInv, PendingIsUnderWay
<1> DEFINE gone == opponent(s) \notin connected
<1>4. Good(stream, s, client[s], game, game.status, game, Synced(s), gone)
  BY DEF StreamInv, TellInv
<1>5. Chain(s, client[s], <<>>, game, TRUE, gone)
  BY <1>1, <1>2, <1>4 DEF Good, stream
<1>6. PICK c : ChainOf(s, client[s], <<>>, game, TRUE, gone, c)
  BY <1>5 DEF Chain
<1>7. Len(<<>>) = 0
  OBVIOUS
<1>8. Alike(c[0], client[s]) /\ Shows(s, c[0], game, TRUE, gone)
  BY <1>6, <1>7 DEF ChainOf
<1>9. QED
  BY <1>2, <1>3, <1>8 DEF Alike, Shows, StreamInv, LinkInv

\* A client that has heard everything shows the game as the server has it, with no
\* move pending, after any loss, replay or restart of the numbers.
THEOREM QuietClientsAreCurrent == Spec => []QuietClientIsCurrent
<1>1. StreamInv => QuietClientIsCurrent
  BY QuietShows DEF QuietClientIsCurrent, Current, OnBoard
<1>2. QED
  BY <1>1, StreamsTellTheGame, PTL

\* A pending click has an answer on its way, or something that will be answered.
THEOREM PendingMovesAreUnderWay == Spec => []PendingIsUnderWay
<1>1. StreamInv => PendingIsUnderWay
  BY DEF StreamInv
<1>2. QED
  BY <1>1, StreamsTellTheGame, PTL

\* While one of the two keeps its connection, nobody is left with the notice that
\* the opponent is away: the player to move can click.  With both unlucky it is
\* false (the run of StreamSafety has one unlucky player for that reason).
THEOREM PlayerToMoveCan ==
  ASSUME Unlucky # Symbols
  PROVE  Spec => []PlayerToMoveCanMove
<1>1. StreamInv => PlayerToMoveCanMove
  <2>1. SUFFICES ASSUME StreamInv, game.status = "ACTIVE", Quiet("X"), Quiet("O")
        PROVE  canMove(game.turn, client[game.turn])
    BY DEF PlayerToMoveCanMove
  <2>2. game.turn \in Symbols /\ \A s \in Symbols : Quiet(s)
    BY <2>1 DEF StreamInv, TypeInv, GameOK, Games, Symbols
  <2>3. PICK s \in Symbols : s = game.turn
    BY <2>2
  <2>4. opponent(s) \in Symbols /\ opponent(s) \in connected
    BY <2>1, <2>2, Opponents, QuietShows
  <2>5. /\ Current(client[s].view, game) /\ ~client[s].pending /\ ~client[s].opponentAway
    BY <2>1, <2>2, <2>4, QuietShows DEF OneUnlucky
  <2>6. QED
    BY <2>1, <2>3, <2>5 DEF canMove, Current, OnBoard
<1>2. QED
  BY <1>1, StreamsTellTheGame, PTL

\* No event, replayed or not, takes a view back to an earlier game or an earlier
\* board, unless the client is waiting for the answer to its RECONNECT.
THEOREM ViewsNeverGoBack == Spec => ViewNeverGoesBack
<1> DEFINE Onward == \A s \in Symbols : ~Resuming(s)' =>
                       LET v == client[s].view
                           w == client'[s].view
                       IN v.id < w.id \/ (v.id = w.id /\ v.moves <= w.moves)
<1>1. StreamInv /\ [Next]_vars => [Onward]_vars
  <2>1. SUFFICES ASSUME StreamInv, Next, NEW s \in Symbols, ~Resuming(s)'
        PROVE  Before(client[s].view, client'[s].view)
    BY DEF Before
  <2>2. /\ client \in [Symbols -> Clients] /\ cmds \in [Symbols -> Seq(CommandRecords)]
        /\ events \in [Symbols -> Seq(Events)] /\ game \in Games
        /\ \A x \in Symbols : link[x] # "up" => events[x] = <<>>
    BY <2>1 DEF StreamInv, TypeInv, GameOK, StreamOK, Streams, stream
  <2>3. client[s].view \in Games
    BY <2>2 DEF Clients
  <2>4. ASSUME client'[s].view = client[s].view
        PROVE  Before(client[s].view, client'[s].view)
    BY <2>3, <2>4, BeforeOrder
  <2>5. ASSUME receive(s) PROVE Before(client[s].view, client'[s].view)
    <3> DEFINE q == events[s]
               e == Head(q)
               r == [type |-> "SYNC_REQUEST", fromSeq |-> client[s].lastSeq + 1]
               gone == opponent(s) \notin connected
    <3>1. /\ q # <<>> /\ events' = [events EXCEPT ![s] = Tail(@)]
          /\ client' = [client EXCEPT ![s] = handleFrame(s, @, e)]
          /\ cmds' = IF HasGap(client[s], e) THEN [cmds EXCEPT ![s] = Append(@, r)] ELSE cmds
          /\ UNCHANGED link
      BY <2>5 DEF receive
    <3>2. client'[s] = handleFrame(s, client[s], Head(q)) /\ events'[s] = Tail(q)
      BY <2>2, <3>1
    <3>3. r \in CommandRecords
      BY <2>2 DEF CommandRecords, Clients
    <3> HIDE DEF r
    <3>4. /\ DOMAIN cmds[s] \subseteq DOMAIN cmds'[s]
          /\ \A i \in DOMAIN cmds[s] : cmds'[s][i] = cmds[s][i]
      BY <2>2, <3>1, <3>3
    <3>5. Synced(s) = TRUE
      BY <2>1, <2>2, <3>1, <3>4 DEF Synced, Resumes, Resuming
    <3>6. Good(stream, s, client[s], game, game.status, game, Synced(s), gone)
      BY <2>1 DEF StreamInv, TellInv
    <3> HIDE DEF gone
    <3>7. Chain(s, client[s], q, game, TRUE, gone)
      BY <3>5, <3>6 DEF Good, stream
    <3>8. \A j \in 1..Len(Tail(q)) : Tail(q)[j].type # "RECONNECT_ACK"
      <4>1. Tail(q) \in Seq(Events) /\ DOMAIN Tail(q) = 1..Len(Tail(q))
        BY <2>2, <3>1
      <4>2. QED
        BY <2>1, <3>2, <4>1 DEF Resuming
    <3>9. q \in Seq(Events) /\ client[s] \in Clients
      BY <2>2
    <3>10. Before(client[s].view, handleFrame(s, client[s], Head(q)).view)
      BY <2>2, <3>1, <3>7, <3>8, <3>9, ChainReceive
    <3>11. QED
      BY <3>2, <3>10
  <2>6. ASSUME NEW x \in Symbols, x # s, receive(x) PROVE client'[s].view = client[s].view
    BY <2>2, <2>6 DEF receive
  <2>7. ASSUME NEW x \in Symbols, makeMove(x) PROVE client'[s].view = client[s].view
    BY <2>2, <2>7 DEF makeMove, Clients
  <2>8. ASSUME \A x \in Symbols : ~receive(x) /\ ~makeMove(x)
        PROVE  client'[s].view = client[s].view
    BY <2>1, <2>8 DEF Next, handleCommand, handleMakeMove, handleSyncRequest,
       handleReconnect, handleRequestRematch, handleAcceptRematch, handleDeclineRematch,
       expireRematch, handleDisconnect, requestRematch, acceptRematch, declineRematch,
       sendRematch, drop, authenticate
  <2>9. QED
    BY <2>4, <2>5, <2>6, <2>7, <2>8
<1>2. QED
  BY <1>1, StreamsTellTheGame, PTL DEF Spec, ViewNeverGoesBack
=============================================================================
