----------------------------- MODULE RateLimiter ------------------------------
(***************************************************************************)
(* The two rate limiters of the server: the fixed-window limiter in front  *)
(* of POST /api/rooms, one bucket per client address with a lazily pruned  *)
(* map (rateLimiter.ts, roomsRouter.ts), and the bucket every WebSocket    *)
(* connection carries (connectionManager.ts, messageRouter.ts).            *)
(*                                                                         *)
(* Time is in milliseconds of Date.now, which is taken not to step back.   *)
(* The log of admitted requests belongs to the specification: the code     *)
(* keeps only a start and a count.                                         *)
(***************************************************************************)
EXTENDS Naturals, FiniteSets, Functions

CONSTANTS
  Keys,                \* client addresses of POST /api/rooms
  Connections,         \* WebSocket connections
  WindowMs, MaxPerWindow, \* windowMs and max of the HTTP limiter
  PruneThreshold,      \* its pruneThreshold
  RateWindowMs,        \* RATE_WINDOW_MS and
  RateMaxMsgs,         \* RATE_MAX_MSGS of a connection
  MaxTime,             \* bound: the clock stops there
  MaxRefused           \* bound: refusals explored in one window

ASSUME LimitsAssumption ==
  /\ {WindowMs, MaxPerWindow, RateWindowMs, RateMaxMsgs} \subseteq Nat \ {0}
  /\ {PruneThreshold, MaxTime, MaxRefused} \subseteq Nat

ASSUME CallersAssumption == Keys \cap Connections = {}

VARIABLES
  now,         \* Date.now()
  buckets,     \* the map of the HTTP limiter: a function on the tracked keys
  rateBucket,  \* ConnectionRecord.rateBucket of the registered connections
  admitted,    \* how many requests of each key or connection passed before each time
  retryAt      \* when a refused key was told to come back; Never if it was not

vars == <<now, buckets, rateBucket, admitted, retryAt>>

Times == 0..MaxTime
Horizon == MaxTime + 1
Never == MaxTime + WindowMs + 1
Callers == Keys \cup Connections

Init ==
  /\ now = 0
  /\ buckets = [k \in {} |-> 0]
  /\ rateBucket = [c \in {} |-> 0]
  /\ admitted = [k \in Callers |-> [t \in 0..Horizon |-> 0]]
  /\ retryAt = [k \in Keys |-> Never]

tick ==
  /\ now < MaxTime
  /\ now' = now + 1
  /\ UNCHANGED <<buckets, rateBucket, admitted, retryAt>>

\* A request passes: it is before all that comes after now.
pass(k) ==
  admitted' = [admitted EXCEPT ![k] = [t \in 0..Horizon |-> IF t > now THEN @[t] + 1 ELSE @[t]]]

-----------------------------------------------------------------------------
\* The limiter of POST /api/rooms.

\* Mistaken variant of Expired: the window is one millisecond longer.
ExpiredLate(bucket) == now - bucket.windowStart > WindowMs

Expired(bucket) == now - bucket.windowStart >= WindowMs

\* Mistaken variant of prune: nothing is ever dropped.
pruneNothing(map) == map

\* Mistaken variant of prune: what is dropped does not depend on its age.
pruneEverything(map) == [k \in {} |-> map[k]]

prune(map) == Restrict(map, {k \in DOMAIN map : ~Expired(map[k])})

Kept == IF Cardinality(DOMAIN buckets) > PruneThreshold THEN prune(buckets)
        ELSE buckets

\* Mistaken variant of BucketOf: it keeps the end of the window, not its start.
BucketOfDeadline(map, k) ==
  IF k \in DOMAIN map /\ ~Expired(map[k]) THEN map[k]
  ELSE [windowStart |-> now + WindowMs, count |-> 0]

\* The bucket a request of k counts in.
BucketOf(map, k) ==
  IF k \in DOMAIN map /\ ~Expired(map[k]) THEN map[k]
  ELSE [windowStart |-> now, count |-> 0]

Admits(count) == count <= MaxPerWindow

check(k) ==
  LET bucket == BucketOf(Kept, k)
      count  == bucket.count + 1
  IN  /\ count <= MaxPerWindow + MaxRefused
      /\ buckets' = [j \in DOMAIN Kept \cup {k} |->
                       IF j = k THEN [bucket EXCEPT !.count = count] ELSE Kept[j]]
      /\ \/ /\ Admits(count)
            /\ pass(k)
            /\ retryAt' = [retryAt EXCEPT ![k] = Never]
         \/ /\ ~Admits(count)
            /\ retryAt' = [retryAt EXCEPT ![k] = bucket.windowStart + WindowMs]
            /\ UNCHANGED admitted
      /\ UNCHANGED <<now, rateBucket>>

-----------------------------------------------------------------------------
\* The bucket of a WebSocket connection.

\* A new connection; its id is fresh, so one that has sent frames stays gone.
register(c) ==
  /\ c \notin DOMAIN rateBucket
  /\ admitted[c][Horizon] = 0
  /\ rateBucket' = [d \in DOMAIN rateBucket \cup {c} |->
                      IF d = c THEN [windowStart |-> now, count |-> 0] ELSE rateBucket[d]]
  /\ UNCHANGED <<now, buckets, admitted, retryAt>>

\* Mistaken variant of RateWindowOver: the window never ends.
RateWindowNeverOver(bucket) == FALSE

RateWindowOver(bucket) == now - bucket.windowStart > RateWindowMs

\* checkRate, as handleFrame calls it for every frame of acceptable size, PING
\* included; a frame that is refused is answered with RATE_LIMITED and dropped.
checkRateLimit(c) ==
  LET old    == rateBucket[c]
      bucket == IF RateWindowOver(old) THEN [windowStart |-> now, count |-> 0] ELSE old
      count  == bucket.count + 1
  IN  /\ c \in DOMAIN rateBucket
      /\ count <= RateMaxMsgs + MaxRefused
      /\ rateBucket' = [rateBucket EXCEPT ![c] = [bucket EXCEPT !.count = count]]
      /\ \/ count <= RateMaxMsgs /\ pass(c)
         \/ count > RateMaxMsgs /\ UNCHANGED admitted
      /\ UNCHANGED <<now, buckets, retryAt>>

unregister(c) ==
  /\ c \in DOMAIN rateBucket
  /\ rateBucket' = Restrict(rateBucket, DOMAIN rateBucket \ {c})
  /\ UNCHANGED <<now, buckets, admitted, retryAt>>

-----------------------------------------------------------------------------
Next ==
  \/ tick
  \/ \E k \in Keys : check(k)
  \/ \E c \in Connections : register(c) \/ checkRateLimit(c) \/ unregister(c)

Spec == Init /\ [][Next]_vars

-----------------------------------------------------------------------------
\* Properties.

BucketType(max) == [windowStart : Times, count : 1..(max + MaxRefused)]

TypeOK ==
  /\ now \in Times
  /\ DOMAIN buckets \subseteq Keys
  /\ \A k \in DOMAIN buckets : buckets[k] \in BucketType(MaxPerWindow)
  /\ DOMAIN rateBucket \subseteq Connections
  /\ \A c \in DOMAIN rateBucket :
       rateBucket[c] \in [windowStart : Times, count : 0..(RateMaxMsgs + MaxRefused)]
  /\ admitted \in [Callers -> [0..Horizon -> Nat]]
  /\ retryAt \in [Keys -> WindowMs..(MaxTime + WindowMs) \cup {Never}]

Later(t, ms) == IF t + ms > Horizon THEN Horizon ELSE t + ms

\* How many passed from time t on, for ms milliseconds.
Passed(k, t, ms) == admitted[k][Later(t, ms)] - admitted[k][t]

Earlier(ms) == IF now < ms THEN 0 ELSE now - ms

\* No address or connection ever gets more than twice its budget through in any
\* stretch of one window's length, wherever the fixed windows happen to lie and
\* whatever pruning drops in between.
BurstIsBounded ==
  \A t \in Times :
    /\ \A k \in Keys : Passed(k, t, WindowMs) <= 2 * MaxPerWindow
    /\ \A c \in Connections : Passed(c, t, RateWindowMs) <= 2 * RateMaxMsgs

\* Refusals are fair.  Only those are refused that have had their whole budget
\* within the last window: other addresses and old requests do not count.  And
\* Retry-After is enough: the first request of an address that comes back when it
\* was told to is not refused.
RefusalsAreFair ==
  [][/\ \A k \in Keys : check(k) =>
          /\ UNCHANGED admitted => Passed(k, Earlier(WindowMs - 1), WindowMs) >= MaxPerWindow
          /\ now >= retryAt[k] => retryAt'[k] = Never
     /\ \A c \in Connections : checkRateLimit(c) /\ UNCHANGED admitted =>
          Passed(c, Earlier(RateWindowMs), RateWindowMs + 1) >= RateMaxMsgs]_vars

\* Addresses that went away are forgotten: after a request the map holds at most
\* PruneThreshold buckets whose window is over, however many addresses there were.
MapIsBounded ==
  [][\A k \in Keys : check(k) =>
       LET open == {j \in DOMAIN buckets' : ~Expired(buckets'[j])} IN
       Cardinality(DOMAIN buckets' \ open) <= PruneThreshold]_vars
===============================================================================
