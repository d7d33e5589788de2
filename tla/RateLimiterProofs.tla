--------------------------- MODULE RateLimiterProofs ---------------------------
(***************************************************************************)
(* Theorems about RateLimiter for any addresses, connections, limits and   *)
(* windows.                                                                *)
(***************************************************************************)
EXTENDS RateLimiter, FiniteSetTheorems, TLAPS

USE LimitsAssumption

\* Time can be told until the end of it.
LEMMA HorizonFacts == Horizon \in Nat /\ Times \subseteq 0..Horizon /\ Horizon \in 0..Horizon
BY DEF Horizon, Times

-----------------------------------------------------------------------------
\* The map has finitely many entries.
MapIsFinite == IsFiniteSet(DOMAIN buckets)

\* An address that was refused has been told the end of its window, or of a
\* later one than it is in now.
RetryCoversWindow ==
  \A k \in Keys :
    retryAt[k] # Never /\ k \in DOMAIN buckets =>
      buckets[k].windowStart + WindowMs <= retryAt[k]

IInv == TypeOK /\ MapIsFinite /\ RetryCoversWindow

-----------------------------------------------------------------------------
\* Pruning keeps some entries as they are.
LEMMA KeptFacts ==
  ASSUME TypeOK
  PROVE  /\ DOMAIN Kept \subseteq DOMAIN buckets
         /\ \A j \in DOMAIN Kept : Kept[j] = buckets[j]
         /\ Cardinality(DOMAIN buckets) > PruneThreshold =>
              \A j \in DOMAIN Kept : ~Expired(Kept[j])
         /\ \A j \in DOMAIN buckets \ DOMAIN Kept : Expired(buckets[j])
<1>1. CASE Cardinality(DOMAIN buckets) > PruneThreshold
  <2>1. Kept = [j \in {k \in DOMAIN buckets : ~Expired(buckets[k])} |-> buckets[j]]
    BY <1>1 DEF Kept, prune, Restrict
  <2>2. QED
    BY <1>1, <2>1
<1>2. CASE ~(Cardinality(DOMAIN buckets) > PruneThreshold)
  BY <1>2 DEF Kept
<1>3. QED
  BY <1>1, <1>2

\* The bucket a request counts in is of an open window.
LEMMA BucketFacts ==
  ASSUME TypeOK, NEW k \in Keys
  PROVE  LET bucket == BucketOf(Kept, k) IN
         /\ bucket.windowStart \in Times
         /\ bucket.count \in 0..(MaxPerWindow + MaxRefused)
         /\ bucket = [windowStart |-> bucket.windowStart, count |-> bucket.count]
         /\ ~Expired(bucket)
         /\ \/ k \in DOMAIN buckets /\ bucket = buckets[k]
            \/ /\ bucket = [windowStart |-> now, count |-> 0]
               /\ k \in DOMAIN buckets => Expired(buckets[k])
<1>1. CASE k \in DOMAIN Kept /\ ~Expired(Kept[k])
  <2>1. k \in DOMAIN buckets /\ Kept[k] = buckets[k] /\ BucketOf(Kept, k) = buckets[k]
    BY <1>1, KeptFacts DEF BucketOf
  <2>2. buckets[k] \in BucketType(MaxPerWindow)
    BY <2>1 DEF TypeOK
  <2>3. QED
    BY <1>1, <2>1, <2>2 DEF BucketType
<1>2. CASE ~(k \in DOMAIN Kept /\ ~Expired(Kept[k]))
  <2>1. BucketOf(Kept, k) = [windowStart |-> now, count |-> 0]
    BY <1>2 DEF BucketOf
  <2>2. now \in Times /\ ~Expired([windowStart |-> now, count |-> 0])
    BY DEF TypeOK, Times, Expired
  <2>3. k \in DOMAIN buckets => Expired(buckets[k])
    BY <1>2, KeptFacts
  <2>4. QED
    BY <2>1, <2>2, <2>3
<1>3. QED
  BY <1>1, <1>2

\* What a request leaves in the map.
LEMMA CheckFacts ==
  ASSUME TypeOK, NEW k \in Keys, check(k)
  PROVE  /\ DOMAIN buckets' = DOMAIN Kept \cup {k}
         /\ \A j \in DOMAIN Kept \ {k} : buckets'[j] = buckets[j]
         /\ buckets'[k].windowStart = BucketOf(Kept, k).windowStart
         /\ buckets'[k] = [windowStart |-> BucketOf(Kept, k).windowStart,
                           count |-> BucketOf(Kept, k).count + 1]
<1> DEFINE bucket == BucketOf(Kept, k)
<1>1. buckets' = [j \in DOMAIN Kept \cup {k} |->
                    IF j = k THEN [bucket EXCEPT !.count = bucket.count + 1] ELSE Kept[j]]
  BY DEF check
<1>2. [bucket EXCEPT !.count = bucket.count + 1]
        = [windowStart |-> bucket.windowStart, count |-> bucket.count + 1]
  BY BucketFacts
<1>3. buckets'[k] = [windowStart |-> bucket.windowStart, count |-> bucket.count + 1]
  BY <1>1, <1>2
<1>4. buckets'[k].windowStart = bucket.windowStart
  BY <1>3
<1> HIDE DEF bucket
<1>5. QED
  BY <1>1, <1>3, <1>4, KeptFacts DEF bucket

\* What a request is answered.
LEMMA CheckAnswers ==
  ASSUME TypeOK, NEW k \in Keys, check(k)
  PROVE  /\ BucketOf(Kept, k).count + 1 <= MaxPerWindow + MaxRefused
         /\ \/ /\ BucketOf(Kept, k).count + 1 <= MaxPerWindow
               /\ pass(k)
               /\ retryAt' = [retryAt EXCEPT ![k] = Never]
            \/ /\ BucketOf(Kept, k).count + 1 > MaxPerWindow
               /\ retryAt' = [retryAt EXCEPT ![k] = BucketOf(Kept, k).windowStart + WindowMs]
               /\ UNCHANGED admitted
         /\ UNCHANGED <<now, rateBucket>>
BY BucketFacts DEF check, Admits

\* Logging an admitted request keeps the type of the log.
LEMMA LogType ==
  ASSUME TypeOK, NEW c \in Callers, pass(c)
  PROVE  /\ admitted' \in [Callers -> [0..Horizon -> Nat]]
         /\ \A d \in Callers \ {c} : admitted'[d] = admitted[d]
         /\ \A t \in 0..Horizon :
              admitted'[c][t] = IF t > now THEN admitted[c][t] + 1 ELSE admitted[c][t]
<1> DEFINE log == [t \in 0..Horizon |-> IF t > now THEN admitted[c][t] + 1 ELSE admitted[c][t]]
<1>1. admitted \in [Callers -> [0..Horizon -> Nat]]
  BY DEF TypeOK
<1>2. log \in [0..Horizon -> Nat]
  <2>1. admitted[c] \in [0..Horizon -> Nat]
    BY <1>1
  <2>2. ASSUME NEW t \in 0..Horizon
        PROVE  (IF t > now THEN admitted[c][t] + 1 ELSE admitted[c][t]) \in Nat
    <3>1. admitted[c][t] \in Nat
      BY <2>1, <2>2
    <3>2. QED
      BY <3>1
  <2>3. QED
    BY <2>2
<1>3. admitted' = [admitted EXCEPT ![c] = log]
  BY DEF pass
<1>4. \A t \in 0..Horizon :
        log[t] = IF t > now THEN admitted[c][t] + 1 ELSE admitted[c][t]
  OBVIOUS
<1> HIDE DEF log
<1>5. QED
  BY <1>1, <1>2, <1>3, <1>4

-----------------------------------------------------------------------------
\* What an address or a connection k has had, with windows of ms milliseconds and
\* a budget of max in each.
Since(k, t) == admitted[k][Horizon] - admitted[k][t]

\* The log counts up.
Grows(k) == \A t, u \in 0..Horizon : t <= u => admitted[k][t] <= admitted[k][u]

\* No stretch of a window's length holds more than two budgets.
Bounded(k, ms, max) == \A t \in Times : Passed(k, t, ms) <= 2 * max

\* In a window that started at s, with count requests so far: those up to max have
\* passed; so have at most max in what was left of earlier windows; and whoever
\* passes once the window is over does not pass in it.
Open(k, ms, max, s, count) ==
  /\ s \in Times /\ s <= now
  /\ Since(k, s) = IF count > max THEN max ELSE count
  /\ \A t \in Times : t <= s /\ t + ms > s => admitted[k][s] - admitted[k][t] <= max
  /\ \A t \in 0..Horizon : t >= s + ms => Since(k, t) = 0

\* Without a window, or with one that is over: at most max have passed so lately
\* that they share a stretch with a request of now, and none right now.
Fresh(k, ms, max) ==
  /\ Since(k, now) = 0
  /\ \A t \in Times : t + ms > now => Since(k, t) <= max

\* The log has a type, counts up, and ends now.
LogOK(k) ==
  /\ admitted[k] \in [0..Horizon -> Nat]
  /\ Grows(k)
  /\ \A t \in 0..Horizon : t > now => admitted[k][t] = admitted[k][Horizon]

\* A window that is over leaves little behind.
LEMMA OverIsFresh ==
  ASSUME now \in Times, NEW k, LogOK(k), NEW ms \in Nat \ {0}, NEW max \in Nat,
         NEW s, NEW count \in Nat, Open(k, ms, max, s, count), now - s >= ms
  PROVE  Fresh(k, ms, max)
<1>1. s \in Times /\ s + ms <= now /\ Since(k, now) = 0
  BY HorizonFacts DEF Open, Times
<1>2. Since(k, s) <= max
  BY DEF Open
<1>3. ASSUME NEW t \in Times, t + ms > now PROVE Since(k, t) <= max
  <2>1. s <= t
    BY <1>1, <1>3 DEF Times
  <2>2. admitted[k][s] <= admitted[k][t]
    BY <1>1, <2>1, HorizonFacts DEF LogOK, Grows
  <2>3. admitted[k][s] \in Nat /\ admitted[k][t] \in Nat /\ admitted[k][Horizon] \in Nat
    BY <1>1, HorizonFacts DEF LogOK
  <2>4. QED
    BY <1>2, <2>2, <2>3 DEF Since
<1>4. QED
  BY <1>1, <1>3 DEF Fresh

\* A window may start then.
LEMMA FreshOpens ==
  ASSUME now \in Times, NEW k, LogOK(k), NEW ms \in Nat \ {0}, NEW max \in Nat,
         Fresh(k, ms, max)
  PROVE  Open(k, ms, max, now, 0)
<1>1. \A t \in 0..Horizon : admitted[k][t] \in Nat
  BY DEF LogOK
<1>2. now \in 0..Horizon /\ now \in Nat /\ Horizon \in 0..Horizon
  BY HorizonFacts DEF Times
<1>3. Since(k, now) = 0
  BY DEF Fresh
<1>4. ASSUME NEW t \in Times, t <= now, t + ms > now
      PROVE  admitted[k][now] - admitted[k][t] <= max
  <2>1. Since(k, t) <= max
    BY <1>4 DEF Fresh
  <2>2. t \in 0..Horizon
    BY HorizonFacts
  <2>3. QED
    BY <1>1, <1>2, <1>3, <2>1, <2>2 DEF Since
<1>5. ASSUME NEW t \in 0..Horizon, t >= now + ms PROVE Since(k, t) = 0
  <2>1. admitted[k][now] <= admitted[k][t] /\ admitted[k][t] <= admitted[k][Horizon]
    BY <1>2, <1>5, HorizonFacts DEF LogOK, Grows
  <2>2. QED
    BY <1>1, <1>2, <1>3, <2>1 DEF Since
<1>6. QED
  BY <1>2, <1>3, <1>4, <1>5 DEF Open

\* The next request in a window: it passes while there is budget.
LEMMA WindowStep ==
  ASSUME TypeOK, NEW k \in Callers, LogOK(k), now' = now,
         NEW ms \in Nat \ {0}, NEW max \in Nat, NEW s, NEW count \in Nat,
         Open(k, ms, max, s, count), ~(now - s >= ms), Bounded(k, ms, max),
         \/ count + 1 <= max /\ pass(k)
         \/ count + 1 > max /\ UNCHANGED admitted
  PROVE  LogOK(k)' /\ Open(k, ms, max, s, count + 1)' /\ Bounded(k, ms, max)'
<1>1. now \in Times /\ s \in Times /\ s <= now /\ now < s + ms
  BY DEF TypeOK, Open, Times
<1>2. CASE count + 1 > max /\ UNCHANGED admitted
  <2>1. Since(k, s) = max
    BY <1>2 DEF Open
  <2>2. QED
    BY <1>1, <1>2, <2>1 DEF LogOK, Grows, Open, Bounded, Passed, Since
<1>3. CASE count + 1 <= max /\ pass(k)
  <2> DEFINE A == admitted[k]
             B == admitted'[k]
  <2>1. /\ A \in [0..Horizon -> Nat] /\ B \in [0..Horizon -> Nat]
        /\ \A t \in 0..Horizon : B[t] = IF t > now THEN A[t] + 1 ELSE A[t]
    BY <1>3, LogType DEF LogOK
  <2>0. \A t \in 0..Horizon : A[t] \in Nat /\ B[t] \in Nat
    BY <2>1
  <2>2. \A t, u \in 0..Horizon : t <= u => A[t] <= A[u]
    BY DEF LogOK, Grows
  <2>3. /\ A[Horizon] - A[s] = count
        /\ \A t \in Times : t <= s /\ t + ms > s => A[s] - A[t] <= max
        /\ \A t \in 0..Horizon : t >= s + ms => A[Horizon] - A[t] = 0
    BY <1>3 DEF Open, Since
  <2>4. \A t \in Times : A[Later(t, ms)] - A[t] <= 2 * max
    BY DEF Bounded, Passed
  <2> HIDE DEF A, B
  <2>5. Horizon \in Nat /\ Times \subseteq 0..Horizon /\ Horizon > now /\ Times \subseteq Nat
    BY <1>1, HorizonFacts DEF Horizon, Times
  <2>6. ASSUME NEW t \in 0..Horizon, NEW u \in 0..Horizon, t <= u PROVE B[t] <= B[u]
    <3>1. A[t] \in Nat /\ A[u] \in Nat /\ A[t] <= A[u]
      BY <2>0, <2>2, <2>6
    <3>2. /\ B[t] = IF t > now THEN A[t] + 1 ELSE A[t]
          /\ B[u] = IF u > now THEN A[u] + 1 ELSE A[u]
      BY <2>1
    <3>3. now \in Nat /\ t \in Nat /\ u \in Nat
      BY <1>1, <2>5
    <3>4. QED
      BY <2>6, <3>1, <3>2, <3>3
  <2>7. B[Horizon] = A[Horizon] + 1 /\ B[s] = A[s]
    BY <1>1, <2>1, <2>5
  <2>8. B[Horizon] - B[s] = count + 1
    <3>1. A[Horizon] \in Nat /\ A[s] \in Nat
      BY <1>1, <2>0, <2>5, HorizonFacts
    <3>2. QED
      BY <2>3, <2>7, <3>1
  <2>9. \A t \in Times : t <= s => B[t] = A[t]
    BY <1>1, <2>1, <2>5
  <2>10. ASSUME NEW t \in 0..Horizon, t >= s + ms PROVE B[Horizon] - B[t] = 0
    <3>1. A[t] \in Nat /\ A[Horizon] \in Nat /\ A[Horizon] - A[t] = 0
      BY <2>0, <2>3, <2>5, <2>10
    <3>2. t > now
      BY <1>1, <2>5, <2>10
    <3>3. B[t] = A[t] + 1
      BY <2>1, <3>2
    <3>4. QED
      BY <2>7, <3>1, <3>3
  <2>11. ASSUME NEW t \in Times PROVE B[Later(t, ms)] - B[t] <= 2 * max
    <3> DEFINE e == Later(t, ms)
    <3>1. e \in 0..Horizon /\ t \in 0..Horizon /\ t \in Nat /\ e <= t + ms
      BY <2>5 DEF Later
    <3>2. e > now => t + ms > now
      BY <1>1, <2>5, <3>1
    <3>3. A[e] - A[t] <= 2 * max
      BY <2>4
    <3> HIDE DEF e
    <3>4. CASE ~(e > now /\ t <= now)
      <4>1. /\ B[t] = IF t > now THEN A[t] + 1 ELSE A[t]
            /\ B[e] = IF e > now THEN A[e] + 1 ELSE A[e]
        BY <2>1, <3>1
      <4>2. A[e] \in Nat /\ A[t] \in Nat
        BY <2>0, <3>1
      <4>3. B[e] - B[t] <= A[e] - A[t]
        BY <1>1, <2>5, <3>1, <3>4, <4>1, <4>2
      <4>4. B[e] - B[t] \in Int /\ A[e] - A[t] \in Int
        BY <2>0, <3>1
      <4>5. B[e] - B[t] <= 2 * max
        BY <3>3, <4>3, <4>4
      <4>6. QED
        BY <4>5 DEF e
    <3>5. CASE e > now /\ t <= now /\ t >= s
      <4>1. B[e] <= B[Horizon] /\ B[s] <= B[t]
        BY <1>1, <2>5, <2>6, <3>1, <3>5
      <4>2. B[e] \in Nat /\ B[t] \in Nat /\ B[s] \in Nat /\ B[Horizon] \in Nat
        BY <1>1, <2>0, <2>5, <3>1
      <4>3. B[e] - B[t] <= 2 * max
        BY <1>3, <2>8, <4>1, <4>2
      <4>4. QED
        BY <4>3 DEF e
    <3>6. CASE e > now /\ t < s
      <4>1. B[e] <= B[Horizon]
        BY <2>5, <2>6, <3>1
      <4>2. B[s] - B[t] <= max
        <5>1. t <= s /\ t + ms > s
          BY <1>1, <2>5, <3>1, <3>2, <3>6
        <5>2. QED
          BY <2>3, <2>7, <2>9, <5>1
      <4>3. B[e] \in Nat /\ B[t] \in Nat /\ B[s] \in Nat /\ B[Horizon] \in Nat
        BY <1>1, <2>0, <2>5, <3>1
      <4>4. B[e] - B[t] <= 2 * max
        BY <1>3, <2>8, <4>1, <4>2, <4>3
      <4>5. QED
        BY <4>4 DEF e
    <3>7. QED
      <4>1. t < s \/ t >= s
        BY <1>1, <2>5, <3>1
      <4>2. t < s => t <= now
        BY <1>1, <2>5, <3>1
      <4>3. QED
        BY <3>4, <3>5, <3>6, <4>1, <4>2
  <2>12. LogOK(k)'
    <3>1. \A t \in 0..Horizon : t > now => A[t] = A[Horizon]
      BY DEF LogOK, A
    <3>2. \A t \in 0..Horizon : t > now => B[t] = B[Horizon]
      BY <2>1, <2>7, <3>1
    <3>3. QED
      BY <2>1, <2>6, <3>2 DEF LogOK, Grows, B, Horizon
  <2>13. Bounded(k, ms, max)'
    BY <2>11 DEF Bounded, Passed, B, Later, Horizon, Times
  <2>14. Open(k, ms, max, s, count + 1)'
    BY <1>1, <1>3, <2>3, <2>7, <2>8, <2>9, <2>10 DEF Open, Since, A, B, Horizon, Times
  <2>15. QED
    BY <2>12, <2>13, <2>14
<1>4. QED
  BY <1>2, <1>3

\* Time goes by, or others act: windows stay as they are, or stay over.
LEMMA TimeStep ==
  ASSUME now \in Times, now' \in Times, now' >= now,
         NEW k, admitted'[k] = admitted[k], LogOK(k), NEW ms \in Nat \ {0}, NEW max \in Nat
  PROVE  /\ LogOK(k)'
         /\ Bounded(k, ms, max) => Bounded(k, ms, max)'
         /\ Fresh(k, ms, max) => Fresh(k, ms, max)'
         /\ \A s, count : Open(k, ms, max, s, count) => Open(k, ms, max, s, count)'
<1>1. LogOK(k)' /\ (Bounded(k, ms, max) => Bounded(k, ms, max)')
  BY DEF LogOK, Grows, Bounded, Passed, Times, Horizon
<1>2. \A s, count : Open(k, ms, max, s, count) => Open(k, ms, max, s, count)'
  BY DEF Open, Since, Times
<1>3. ASSUME Fresh(k, ms, max) PROVE Fresh(k, ms, max)'
  <2>1. now \in 0..Horizon /\ now' \in 0..Horizon /\ Horizon \in 0..Horizon
    BY HorizonFacts
  <2>2. admitted[k][now] <= admitted[k][now'] /\ admitted[k][now'] <= admitted[k][Horizon]
    BY <2>1 DEF LogOK, Grows, Times
  <2>3. admitted[k][now] \in Nat /\ admitted[k][now'] \in Nat /\ admitted[k][Horizon] \in Nat
    BY <2>1 DEF LogOK
  <2>4. admitted[k][Horizon] - admitted[k][now'] = 0
    BY <1>3, <2>2, <2>3 DEF Fresh, Since
  <2>5. \A t \in Times : t + ms > now' => Since(k, t) <= max
    BY <1>3 DEF Fresh, Times
  <2>6. QED
    BY <2>4, <2>5 DEF Fresh, Since
<1>4. QED
  BY <1>1, <1>2, <1>3

-----------------------------------------------------------------------------
\* At the start nobody has come.
LEMMA InvInit == Init => IInv
<1> SUFFICES ASSUME Init PROVE IInv
  OBVIOUS
<1>1. DOMAIN buckets = {} /\ DOMAIN rateBucket = {}
  BY DEF Init
<1>2. TypeOK
  BY <1>1 DEF Init, TypeOK, Times, Never
<1>3. QED
  BY <1>1, <1>2, FS_EmptySet DEF IInv, MapIsFinite, RetryCoversWindow

\* A request of an address keeps the types.
LEMMA CheckType ==
  ASSUME TypeOK, NEW k \in Keys, check(k)
  PROVE  TypeOK'
<1> DEFINE bucket == BucketOf(Kept, k)
<1>1. /\ bucket.windowStart \in Times
      /\ bucket.count \in 0..(MaxPerWindow + MaxRefused)
  BY BucketFacts
<1>2. DOMAIN buckets' \subseteq Keys
  BY CheckFacts, KeptFacts DEF TypeOK
<1>3. \A j \in DOMAIN buckets' : buckets'[j] \in BucketType(MaxPerWindow)
  <2>1. buckets'[k] \in BucketType(MaxPerWindow)
    <3>1. bucket.count + 1 \in 1..(MaxPerWindow + MaxRefused)
      BY <1>1, CheckAnswers
    <3>2. buckets'[k] = [windowStart |-> bucket.windowStart, count |-> bucket.count + 1]
      BY CheckFacts
    <3>3. QED
      BY <1>1, <3>1, <3>2 DEF BucketType
  <2>2. QED
    BY <2>1, CheckFacts, KeptFacts DEF TypeOK
<1>4. admitted' \in [Callers -> [0..Horizon -> Nat]]
  <2>1. k \in Callers /\ admitted \in [Callers -> [0..Horizon -> Nat]]
    BY DEF Callers, TypeOK
  <2>2. QED
    BY <2>1, CheckAnswers, LogType
<1>5. retryAt' \in [Keys -> WindowMs..(MaxTime + WindowMs) \cup {Never}]
  <2>1. bucket.windowStart + WindowMs \in WindowMs..(MaxTime + WindowMs)
    BY <1>1 DEF Times
  <2>2. QED
    BY <2>1, CheckAnswers DEF TypeOK
<1>6. QED
  BY <1>2, <1>3, <1>4, <1>5, CheckAnswers DEF TypeOK

\* The steps of connections leave the map of addresses alone.
LEMMA ConnectionSteps ==
  ASSUME TypeOK, NEW c \in Connections, register(c) \/ checkRateLimit(c) \/ unregister(c)
  PROVE  TypeOK' /\ UNCHANGED <<now, buckets, retryAt>>
<1>1. CASE register(c)
  <2>1. /\ DOMAIN rateBucket' = DOMAIN rateBucket \cup {c}
        /\ \A d \in DOMAIN rateBucket' :
             rateBucket'[d] = IF d = c THEN [windowStart |-> now, count |-> 0] ELSE rateBucket[d]
    BY <1>1 DEF register
  <2>2. QED
    BY <1>1, <2>1 DEF register, TypeOK, BucketType, Times
<1>2. CASE checkRateLimit(c)
  <2> DEFINE old    == rateBucket[c]
             bucket == IF RateWindowOver(old) THEN [windowStart |-> now, count |-> 0] ELSE old
  <2>1. /\ c \in DOMAIN rateBucket
        /\ bucket.count + 1 <= RateMaxMsgs + MaxRefused
        /\ rateBucket' = [rateBucket EXCEPT ![c] = [bucket EXCEPT !.count = bucket.count + 1]]
        /\ \/ pass(c)
           \/ UNCHANGED admitted
        /\ UNCHANGED <<now, buckets, retryAt>>
    BY <1>2 DEF checkRateLimit
  <2>2. bucket \in [windowStart : Times, count : 0..(RateMaxMsgs + MaxRefused)]
    BY <2>1 DEF TypeOK
  <2>3. [bucket EXCEPT !.count = bucket.count + 1]
          \in [windowStart : Times, count : 0..(RateMaxMsgs + MaxRefused)]
    BY <2>1, <2>2
  <2>4. /\ DOMAIN rateBucket' = DOMAIN rateBucket
        /\ \A d \in DOMAIN rateBucket :
             rateBucket'[d] = IF d = c THEN [bucket EXCEPT !.count = bucket.count + 1]
                              ELSE rateBucket[d]
    BY <2>1
  <2>5. admitted' \in [Callers -> [0..Horizon -> Nat]]
    <3>1. c \in Callers /\ admitted \in [Callers -> [0..Horizon -> Nat]]
      BY DEF Callers, TypeOK
    <3>2. QED
      BY <2>1, <3>1, LogType
  <2> HIDE DEF bucket
  <2>6. QED
    BY <2>1, <2>3, <2>4, <2>5 DEF TypeOK, BucketType
<1>3. CASE unregister(c)
  <2>1. /\ DOMAIN rateBucket' = DOMAIN rateBucket \ {c}
        /\ \A d \in DOMAIN rateBucket' : rateBucket'[d] = rateBucket[d]
    BY <1>3 DEF unregister, Restrict
  <2>2. QED
    BY <1>3, <2>1 DEF unregister, TypeOK, BucketType
<1>4. QED
  BY <1>1, <1>2, <1>3

\* Every step keeps the invariant.
LEMMA InvStep == IInv /\ [Next]_vars => IInv'
<1> SUFFICES ASSUME IInv, [Next]_vars PROVE IInv'
  OBVIOUS
<1>0. TypeOK /\ MapIsFinite /\ RetryCoversWindow
  BY DEF IInv
<1>1. ASSUME TypeOK', UNCHANGED <<buckets, retryAt>> PROVE IInv'
  BY <1>0, <1>1 DEF IInv, MapIsFinite, RetryCoversWindow, Never
<1>2. CASE tick
  BY <1>0, <1>1, <1>2 DEF tick, TypeOK, Times, BucketType
<1>3. ASSUME NEW k \in Keys, check(k) PROVE IInv'
  <2> DEFINE bucket == BucketOf(Kept, k)
  <2>1. TypeOK'
    BY <1>0, <1>3, CheckType
  <2>2. MapIsFinite'
    <3>1. IsFiniteSet(DOMAIN Kept)
      BY <1>0, KeptFacts, FS_Subset DEF MapIsFinite
    <3>2. QED
      <4>1. DOMAIN buckets' = DOMAIN Kept \cup {k}
        BY <1>0, <1>3, CheckFacts
      <4>2. IsFiniteSet(DOMAIN Kept \cup {k})
        BY <3>1, FS_AddElement
      <4>3. QED
        BY <4>1, <4>2 DEF MapIsFinite
  <2>3. RetryCoversWindow'
    <3>1. /\ retryAt'[k] \in {Never, bucket.windowStart + WindowMs}
          /\ \A j \in Keys \ {k} : retryAt'[j] = retryAt[j]
      BY <1>0, <1>3, CheckAnswers DEF TypeOK
    <3>2. /\ buckets'[k].windowStart = bucket.windowStart
          /\ \A j \in DOMAIN buckets' \ {k} : j \in DOMAIN buckets /\ buckets'[j] = buckets[j]
      <4>1. /\ DOMAIN buckets' = DOMAIN Kept \cup {k}
            /\ \A j \in DOMAIN Kept \ {k} : buckets'[j] = buckets[j]
            /\ buckets'[k].windowStart = bucket.windowStart
        BY <1>0, <1>3, CheckFacts
      <4>2. QED
        BY <1>0, <4>1, KeptFacts
    <3>3. bucket.windowStart \in Times
      BY <1>0, BucketFacts
    <3>4. ASSUME NEW j \in Keys, retryAt'[j] # Never, j \in DOMAIN buckets'
          PROVE  buckets'[j].windowStart + WindowMs <= retryAt'[j]
      <4>1. CASE j = k
        BY <3>1, <3>2, <3>3, <3>4, <4>1 DEF Times
      <4>2. CASE j # k
        BY <1>0, <3>1, <3>2, <3>4, <4>2 DEF RetryCoversWindow
      <4>3. QED
        BY <4>1, <4>2
    <3>5. QED
      BY <3>4 DEF RetryCoversWindow, Never
  <2>4. QED
    BY <2>1, <2>2, <2>3 DEF IInv
<1>4. ASSUME NEW c \in Connections, register(c) \/ checkRateLimit(c) \/ unregister(c)
      PROVE  IInv'
  BY <1>0, <1>1, <1>4, ConnectionSteps
<1>5. CASE UNCHANGED vars
  BY <1>0, <1>1, <1>5 DEF vars, TypeOK, BucketType
<1>6. QED
  BY <1>2, <1>3, <1>4, <1>5 DEF Next

LEMMA Invariant == Spec => []IInv
<1>1. QED
  BY InvInit, InvStep, PTL DEF Spec

-----------------------------------------------------------------------------
\* The clock, both maps of buckets, the log and the answers keep their types.
THEOREM TypeCorrect == Spec => []TypeOK
<1>1. IInv => TypeOK
  BY DEF IInv
<1>2. QED
  BY <1>1, Invariant, PTL

\* After a request the map holds at most PruneThreshold buckets whose window is
\* over: rateLimiter.ts prunes lazily and yet does not leak.
THEOREM MapStaysBounded == Spec => MapIsBounded
<1>1. ASSUME IInv, NEW k \in Keys, check(k)
      PROVE  LET open == {j \in DOMAIN buckets' : ~Expired(buckets'[j])} IN
             Cardinality(DOMAIN buckets' \ open) <= PruneThreshold
  <2> DEFINE over == {j \in DOMAIN buckets' : Expired(buckets'[j])}
  <2>0. TypeOK /\ MapIsFinite
    BY <1>1 DEF IInv
  <2>1. ~Expired(buckets'[k])
    <3>1. ~Expired(BucketOf(Kept, k))
      BY <2>0, BucketFacts
    <3>2. buckets'[k].windowStart = BucketOf(Kept, k).windowStart
      BY <1>1, <2>0, CheckFacts
    <3>3. QED
      BY <3>1, <3>2 DEF Expired
  <2>2. \A j \in over : j \in DOMAIN Kept /\ Expired(Kept[j])
    <3>1. /\ DOMAIN buckets' = DOMAIN Kept \cup {k}
          /\ \A j \in DOMAIN Kept \ {k} : buckets'[j] = buckets[j]
      BY <1>1, <2>0, CheckFacts
    <3>2. \A j \in DOMAIN Kept : Kept[j] = buckets[j]
      BY <2>0, KeptFacts
    <3>3. QED
      BY <2>1, <3>1, <3>2
  <2>3. Cardinality(over) <= PruneThreshold
    <3>1. CASE Cardinality(DOMAIN buckets) > PruneThreshold
      <4>1. over = {}
        BY <2>0, <2>2, <3>1, KeptFacts
      <4>2. QED
        BY <4>1, FS_EmptySet
    <3>2. CASE ~(Cardinality(DOMAIN buckets) > PruneThreshold)
      <4>1. over \subseteq DOMAIN buckets
        BY <2>0, <2>2, KeptFacts
      <4>2. Cardinality(over) <= Cardinality(DOMAIN buckets)
        BY <2>0, <4>1, FS_Subset DEF MapIsFinite
      <4>3. Cardinality(DOMAIN buckets) \in Nat /\ Cardinality(over) \in Nat
        BY <2>0, <4>1, FS_Subset, FS_CardinalityType DEF MapIsFinite
      <4>4. QED
        BY <3>2, <4>2, <4>3
    <3>3. QED
      BY <3>1, <3>2
  <2>4. DOMAIN buckets' \ {j \in DOMAIN buckets' : ~Expired(buckets'[j])} = over
    OBVIOUS
  <2>5. QED
    BY <2>3, <2>4
<1>2. QED
  <2>1. IInv =>
          [\A k \in Keys : check(k) =>
             LET open == {j \in DOMAIN buckets' : ~Expired(buckets'[j])} IN
             Cardinality(DOMAIN buckets' \ open) <= PruneThreshold]_vars
    BY <1>1
  <2>2. QED
    BY <2>1, Invariant, PTL DEF MapIsBounded

\* Retry-After is enough: who comes back when it was told to is not refused,
\* whatever else was asked or pruned in between.
THEOREM RetryIsEnough ==
  Spec => [][\A k \in Keys : check(k) /\ now >= retryAt[k] => retryAt'[k] = Never]_vars
<1>1. ASSUME IInv, NEW k \in Keys, check(k), now >= retryAt[k]
      PROVE  retryAt'[k] = Never
  <2> DEFINE bucket == BucketOf(Kept, k)
  <2>0. TypeOK /\ RetryCoversWindow
    BY <1>1 DEF IInv
  <2>1. now \in Nat /\ now <= MaxTime /\ retryAt[k] # Never
    BY <1>1, <2>0 DEF TypeOK, Times, Never
  <2>2. bucket = [windowStart |-> now, count |-> 0]
    <3>1. ASSUME k \in DOMAIN buckets, bucket = buckets[k] PROVE FALSE
      <4>1. buckets[k].windowStart + WindowMs <= retryAt[k]
        BY <2>0, <2>1, <3>1 DEF RetryCoversWindow
      <4>2. buckets[k].windowStart \in Nat /\ retryAt[k] \in Nat
        BY <2>0, <3>1 DEF TypeOK, BucketType, Times, Never
      <4>3. Expired(buckets[k])
        BY <1>1, <2>1, <4>1, <4>2 DEF Expired
      <4>4. QED
        BY <2>0, <3>1, <4>3, BucketFacts
    <3>2. QED
      BY <2>0, <3>1, BucketFacts
  <2>3. bucket.count + 1 <= MaxPerWindow
    BY <2>2
  <2>4. QED
    <3>1. retryAt' = [retryAt EXCEPT ![k] = Never]
      <4>1. ~(bucket.count + 1 > MaxPerWindow)
        BY <2>2, <2>3
      <4>2. QED
        BY <1>1, <2>0, <4>1, CheckAnswers
    <3>2. QED
      BY <2>0, <3>1 DEF TypeOK
<1>2. QED
  <2>1. IInv => [\A k \in Keys : check(k) /\ now >= retryAt[k] => retryAt'[k] = Never]_vars
    BY <1>1
  <2>2. QED
    BY <2>1, Invariant, PTL

-----------------------------------------------------------------------------
(***************************************************************************)
(* Budgets.  A request may share a stretch of a window's length with those *)
(* of the window before its own only; the invariant says how much of that  *)
(* one is left.                                                            *)
(***************************************************************************)
KeyBudget(k) ==
  /\ Bounded(k, WindowMs, MaxPerWindow)
  /\ k \in DOMAIN buckets =>
       Open(k, WindowMs, MaxPerWindow, buckets[k].windowStart, buckets[k].count)
  /\ k \notin DOMAIN buckets => Fresh(k, WindowMs, MaxPerWindow)

\* The window of a connection is over after RATE_WINDOW_MS, not at it.
RateMs == RateWindowMs + 1

ConnectionBudget(c) ==
  /\ Bounded(c, RateMs, RateMaxMsgs)
  /\ c \in DOMAIN rateBucket =>
       Open(c, RateMs, RateMaxMsgs, rateBucket[c].windowStart, rateBucket[c].count)

BudgetInv ==
  /\ TypeOK
  /\ \A k \in Callers : LogOK(k)
  /\ \A k \in Keys : KeyBudget(k)
  /\ \A c \in Connections : ConnectionBudget(c)

\* Windows are at least a millisecond.
LEMMA WindowFacts ==
  /\ WindowMs \in Nat \ {0} /\ RateMs \in Nat \ {0}
  /\ MaxPerWindow \in Nat \ {0} /\ RateMaxMsgs \in Nat \ {0}
BY DEF RateMs

\* Nobody has come yet.
LEMMA NoneIsFresh ==
  ASSUME TypeOK, NEW k \in Callers, \A t \in 0..Horizon : admitted[k][t] = 0,
         NEW ms \in Nat \ {0}, NEW max \in Nat
  PROVE  LogOK(k) /\ Bounded(k, ms, max) /\ Fresh(k, ms, max)
<1>1. LogOK(k)
  BY HorizonFacts DEF TypeOK, LogOK, Grows
<1>2. \A t \in Times : Later(t, ms) \in 0..Horizon /\ t \in 0..Horizon
  BY HorizonFacts DEF Later, Times
<1>3. Bounded(k, ms, max)
  BY <1>2 DEF Bounded, Passed
<1>4. now \in 0..Horizon /\ Horizon \in 0..Horizon
  BY HorizonFacts DEF TypeOK
<1>5. Fresh(k, ms, max)
  BY <1>2, <1>4 DEF Fresh, Since
<1>6. QED
  BY <1>1, <1>3, <1>5

LEMMA BudgetInit == Init => BudgetInv
<1> SUFFICES ASSUME Init PROVE BudgetInv
  OBVIOUS
<1>1. TypeOK
  BY InvInit DEF IInv
<1>2. \A k \in Callers : \A t \in 0..Horizon : admitted[k][t] = 0
  BY DEF Init
<1>3. \A k \in Callers : LogOK(k)
  BY <1>1, <1>2, NoneIsFresh, WindowFacts
<1>4. Keys \subseteq Callers /\ Connections \subseteq Callers
  BY DEF Callers
<1>5. DOMAIN buckets = {} /\ DOMAIN rateBucket = {}
  BY DEF Init
<1>6. \A k \in Keys : KeyBudget(k)
  BY <1>1, <1>2, <1>4, <1>5, NoneIsFresh, WindowFacts DEF KeyBudget
<1>7. \A c \in Connections : ConnectionBudget(c)
  BY <1>1, <1>2, <1>4, <1>5, NoneIsFresh, WindowFacts DEF ConnectionBudget
<1>8. QED
  BY <1>1, <1>3, <1>6, <1>7 DEF BudgetInv

\* A key whose log and bucket stay as they are.
LEMMA KeyStays ==
  ASSUME BudgetInv, TypeOK', now' >= now, NEW k \in Keys, admitted'[k] = admitted[k],
         \/ /\ k \in DOMAIN buckets' <=> k \in DOMAIN buckets
            /\ k \in DOMAIN buckets => buckets'[k] = buckets[k]
         \/ k \in DOMAIN buckets /\ k \notin DOMAIN buckets' /\ Expired(buckets[k])
  PROVE  LogOK(k)' /\ KeyBudget(k)'
<1>1. /\ now \in Times /\ now' \in Times /\ LogOK(k) /\ KeyBudget(k)
  BY DEF BudgetInv, TypeOK, Callers, Times
<1>2. /\ LogOK(k)'
      /\ Bounded(k, WindowMs, MaxPerWindow)'
      /\ Fresh(k, WindowMs, MaxPerWindow) => Fresh(k, WindowMs, MaxPerWindow)'
      /\ \A s, count : Open(k, WindowMs, MaxPerWindow, s, count) =>
                         Open(k, WindowMs, MaxPerWindow, s, count)'
  BY <1>1, TimeStep, WindowFacts DEF KeyBudget
<1>3. ASSUME k \in DOMAIN buckets, Expired(buckets[k])
      PROVE  Fresh(k, WindowMs, MaxPerWindow)
  <2>1. buckets[k].count \in Nat
    BY <1>3 DEF BudgetInv, TypeOK, BucketType
  <2>2. Open(k, WindowMs, MaxPerWindow, buckets[k].windowStart, buckets[k].count)
    BY <1>1, <1>3 DEF KeyBudget
  <2>3. QED
    BY <1>1, <1>3, <2>1, <2>2, OverIsFresh, WindowFacts DEF Expired
<1>4. QED
  BY <1>1, <1>2, <1>3 DEF KeyBudget

\* A connection that sends no frame.
LEMMA ConnectionStays ==
  ASSUME BudgetInv, TypeOK', now' >= now, NEW c \in Connections, admitted'[c] = admitted[c],
         c \in DOMAIN rateBucket' =>
           c \in DOMAIN rateBucket /\ rateBucket'[c] = rateBucket[c]
  PROVE  LogOK(c)' /\ ConnectionBudget(c)'
<1>1. /\ now \in Times /\ now' \in Times /\ LogOK(c) /\ ConnectionBudget(c)
  BY DEF BudgetInv, TypeOK, Callers, Times
<1>2. /\ LogOK(c)'
      /\ Bounded(c, RateMs, RateMaxMsgs)'
      /\ \A s, count : Open(c, RateMs, RateMaxMsgs, s, count) =>
                         Open(c, RateMs, RateMaxMsgs, s, count)'
  BY <1>1, TimeStep, WindowFacts DEF ConnectionBudget
<1>3. QED
  BY <1>1, <1>2 DEF ConnectionBudget

\* The bucket a request counts in is one of an open window.
LEMMA BucketIsOpen ==
  ASSUME BudgetInv, NEW k \in Keys
  PROVE  LET bucket == BucketOf(Kept, k) IN
         Open(k, WindowMs, MaxPerWindow, bucket.windowStart, bucket.count)
<1>1. TypeOK /\ LogOK(k) /\ KeyBudget(k) /\ now \in Times
  BY DEF BudgetInv, TypeOK, Callers
<1> DEFINE bucket == BucketOf(Kept, k)
<1>2. CASE k \in DOMAIN buckets /\ bucket = buckets[k]
  BY <1>1, <1>2 DEF KeyBudget
<1>3. CASE /\ bucket = [windowStart |-> now, count |-> 0]
           /\ k \in DOMAIN buckets => Expired(buckets[k])
  <2>1. ASSUME k \in DOMAIN buckets PROVE Fresh(k, WindowMs, MaxPerWindow)
    <3>1. buckets[k].count \in Nat
      BY <1>1, <2>1 DEF TypeOK, BucketType
    <3>2. Open(k, WindowMs, MaxPerWindow, buckets[k].windowStart, buckets[k].count)
      BY <1>1, <2>1 DEF KeyBudget
    <3>3. QED
      BY <1>1, <1>3, <2>1, <3>1, <3>2, OverIsFresh, WindowFacts DEF Expired
  <2>2. Fresh(k, WindowMs, MaxPerWindow)
    BY <1>1, <2>1 DEF KeyBudget
  <2>3. Open(k, WindowMs, MaxPerWindow, now, 0)
    BY <1>1, <2>2, FreshOpens, WindowFacts
  <2>4. QED
    BY <1>3, <2>3
<1>4. QED
  BY <1>1, <1>2, <1>3, BucketFacts

\* A request of an address.
LEMMA CheckBudget ==
  ASSUME BudgetInv, TypeOK', NEW k \in Keys, check(k)
  PROVE  BudgetInv'
<1> DEFINE bucket == BucketOf(Kept, k)
<1>1. TypeOK /\ k \in Callers /\ LogOK(k) /\ KeyBudget(k) /\ now \in Times
  BY DEF BudgetInv, TypeOK, Callers
<1>2. PICK s \in Times, count \in Nat : bucket.windowStart = s /\ bucket.count = count
  BY <1>1, BucketFacts
<1>3. /\ Open(k, WindowMs, MaxPerWindow, s, count)
      /\ ~(now - s >= WindowMs)
  BY <1>2, <1>1, BucketIsOpen, BucketFacts DEF Expired
<1>4. /\ now' = now /\ rateBucket' = rateBucket
      /\ \/ count + 1 <= MaxPerWindow /\ pass(k)
         \/ count + 1 > MaxPerWindow /\ UNCHANGED admitted
  BY <1>2, <1>1, CheckAnswers
<1>5. /\ k \in DOMAIN buckets'
      /\ buckets'[k] = [windowStart |-> s, count |-> count + 1]
      /\ DOMAIN buckets' = DOMAIN Kept \cup {k}
      /\ \A j \in DOMAIN Kept \ {k} : buckets'[j] = buckets[j]
  <2>1. /\ DOMAIN buckets' = DOMAIN Kept \cup {k}
        /\ \A j \in DOMAIN Kept \ {k} : buckets'[j] = buckets[j]
        /\ buckets'[k] = [windowStart |-> bucket.windowStart, count |-> bucket.count + 1]
    BY <1>1, CheckFacts
  <2> HIDE DEF bucket
  <2>2. QED
    BY <1>2, <2>1
<1>6. \A d \in Callers \ {k} : admitted'[d] = admitted[d]
  BY <1>1, <1>4, LogType
<1> HIDE DEF bucket
<1>7. LogOK(k)' /\ KeyBudget(k)'
  <2>1. /\ LogOK(k)' /\ Bounded(k, WindowMs, MaxPerWindow)'
        /\ Open(k, WindowMs, MaxPerWindow, s, count + 1)'
    BY <1>1, <1>3, <1>4, WindowStep, WindowFacts DEF KeyBudget
  <2>2. Open(k, WindowMs, MaxPerWindow, buckets[k].windowStart, buckets[k].count)'
    <3>1. buckets'[k].windowStart = s /\ buckets'[k].count = count + 1
      BY <1>5
    <3>2. QED
      BY <2>1, <3>1
  <2>3. QED
    BY <1>5, <2>1, <2>2 DEF KeyBudget
<1>8. now' >= now
  BY <1>1, <1>4 DEF Times
<1>9. ASSUME NEW j \in Keys, j # k PROVE LogOK(j)' /\ KeyBudget(j)'
  <2>1. admitted'[j] = admitted[j]
    BY <1>6, <1>9 DEF Callers
  <2>2. \/ /\ j \in DOMAIN buckets' <=> j \in DOMAIN buckets
           /\ j \in DOMAIN buckets => buckets'[j] = buckets[j]
        \/ j \in DOMAIN buckets /\ j \notin DOMAIN buckets' /\ Expired(buckets[j])
    BY <1>1, <1>5, <1>9, KeptFacts
  <2>3. QED
    BY <1>8, <2>1, <2>2, KeyStays
<1>10. ASSUME NEW c \in Connections PROVE LogOK(c)' /\ ConnectionBudget(c)'
  <2>1. admitted'[c] = admitted[c]
    BY <1>6, <1>10, CallersAssumption DEF Callers
  <2>2. QED
    BY <1>4, <1>8, <2>1, ConnectionStays
<1>11. QED
  BY <1>7, <1>9, <1>10 DEF BudgetInv, Callers

\* A frame of a connection, which has a budget for each of its windows.
LEMMA FrameFacts ==
  ASSUME BudgetInv, TypeOK', NEW c \in Connections, checkRateLimit(c)
  PROVE  \E s \in Times, count \in Nat :
           /\ Open(c, RateMs, RateMaxMsgs, s, count) /\ ~(now - s >= RateMs)
           /\ \/ count + 1 <= RateMaxMsgs /\ pass(c)
              \/ count + 1 > RateMaxMsgs /\ UNCHANGED admitted
           /\ c \in DOMAIN rateBucket /\ DOMAIN rateBucket' = DOMAIN rateBucket
           /\ rateBucket'[c].windowStart = s /\ rateBucket'[c].count = count + 1
           /\ \A d \in DOMAIN rateBucket \ {c} : rateBucket'[d] = rateBucket[d]
<1> DEFINE old    == rateBucket[c]
           bucket == IF RateWindowOver(old) THEN [windowStart |-> now, count |-> 0] ELSE old
<1>1. TypeOK /\ LogOK(c) /\ ConnectionBudget(c) /\ now \in Times
  BY DEF BudgetInv, TypeOK, Callers
<1>2. /\ c \in DOMAIN rateBucket
      /\ rateBucket' = [rateBucket EXCEPT ![c] = [bucket EXCEPT !.count = bucket.count + 1]]
      /\ \/ bucket.count + 1 <= RateMaxMsgs /\ pass(c)
         \/ bucket.count + 1 > RateMaxMsgs /\ UNCHANGED admitted
  BY DEF checkRateLimit
<1>3. old \in [windowStart : Times, count : 0..(RateMaxMsgs + MaxRefused)]
  BY <1>1, <1>2 DEF TypeOK
<1>4. Open(c, RateMs, RateMaxMsgs, old.windowStart, old.count)
  BY <1>1, <1>2 DEF ConnectionBudget
<1>5. RateWindowOver(old) <=> now - old.windowStart >= RateMs
  BY <1>1, <1>3 DEF RateWindowOver, RateMs, Times
<1>6. PICK s \in Times, count \in Nat :
        /\ bucket = [windowStart |-> s, count |-> count]
        /\ Open(c, RateMs, RateMaxMsgs, s, count) /\ ~(now - s >= RateMs)
  <2>1. CASE RateWindowOver(old)
    <3>1. Fresh(c, RateMs, RateMaxMsgs)
      BY <1>1, <1>3, <1>4, <1>5, <2>1, OverIsFresh, WindowFacts
    <3>2. Open(c, RateMs, RateMaxMsgs, now, 0)
      BY <1>1, <3>1, FreshOpens, WindowFacts
    <3>3. ~(now - now >= RateMs)
      BY <1>1, WindowFacts DEF Times
    <3>4. bucket = [windowStart |-> now, count |-> 0] /\ 0 \in Nat
      BY <2>1
    <3> HIDE DEF bucket
    <3>5. QED
      BY <1>1, <3>2, <3>3, <3>4
  <2>2. CASE ~RateWindowOver(old)
    <3>1. bucket = old /\ old = [windowStart |-> old.windowStart, count |-> old.count]
      BY <1>3, <2>2
    <3>2. old.windowStart \in Times /\ old.count \in Nat
      BY <1>3
    <3> HIDE DEF bucket, old
    <3>3. QED
      BY <1>4, <1>5, <2>2, <3>1, <3>2
  <2>3. QED
    BY <2>1, <2>2
<1>7. /\ DOMAIN rateBucket' = DOMAIN rateBucket
      /\ rateBucket'[c] = [bucket EXCEPT !.count = bucket.count + 1]
      /\ \A d \in DOMAIN rateBucket \ {c} : rateBucket'[d] = rateBucket[d]
  BY <1>2
<1> HIDE DEF bucket
<1>8. bucket.count = count /\ rateBucket'[c] = [windowStart |-> s, count |-> count + 1]
  BY <1>6, <1>7
<1>9. rateBucket'[c].windowStart = s /\ rateBucket'[c].count = count + 1
  BY <1>8
<1>10. QED
  BY <1>2, <1>6, <1>7, <1>8, <1>9

LEMMA FrameBudget ==
  ASSUME BudgetInv, TypeOK', NEW c \in Connections, checkRateLimit(c)
  PROVE  BudgetInv'
<1>1. /\ TypeOK /\ c \in Callers /\ LogOK(c) /\ ConnectionBudget(c) /\ now \in Times
      /\ now' = now /\ buckets' = buckets
  BY DEF BudgetInv, TypeOK, Callers, checkRateLimit
<1>2. PICK s \in Times, count \in Nat :
           /\ Open(c, RateMs, RateMaxMsgs, s, count) /\ ~(now - s >= RateMs)
           /\ \/ count + 1 <= RateMaxMsgs /\ pass(c)
              \/ count + 1 > RateMaxMsgs /\ UNCHANGED admitted
           /\ c \in DOMAIN rateBucket /\ DOMAIN rateBucket' = DOMAIN rateBucket
           /\ rateBucket'[c].windowStart = s /\ rateBucket'[c].count = count + 1
           /\ \A d \in DOMAIN rateBucket \ {c} : rateBucket'[d] = rateBucket[d]
  BY FrameFacts
<1>3. LogOK(c)' /\ ConnectionBudget(c)'
  <2>1. /\ LogOK(c)' /\ Bounded(c, RateMs, RateMaxMsgs)'
        /\ Open(c, RateMs, RateMaxMsgs, s, count + 1)'
    BY <1>1, <1>2, WindowStep, WindowFacts DEF ConnectionBudget
  <2>2. Open(c, RateMs, RateMaxMsgs, rateBucket[c].windowStart, rateBucket[c].count)'
    BY <1>2, <2>1
  <2>3. QED
    BY <2>1, <2>2 DEF ConnectionBudget
<1>4. \A d \in Callers \ {c} : admitted'[d] = admitted[d]
  BY <1>1, <1>2, LogType
<1>5. now' >= now
  BY <1>1 DEF Times
<1>6. ASSUME NEW k \in Keys PROVE LogOK(k)' /\ KeyBudget(k)'
  <2>1. admitted'[k] = admitted[k]
    BY <1>4, <1>6, CallersAssumption DEF Callers
  <2>2. QED
    BY <1>1, <1>5, <2>1, KeyStays
<1>7. ASSUME NEW d \in Connections, d # c PROVE LogOK(d)' /\ ConnectionBudget(d)'
  <2>1. admitted'[d] = admitted[d]
    BY <1>4, <1>7 DEF Callers
  <2>2. d \in DOMAIN rateBucket' => d \in DOMAIN rateBucket /\ rateBucket'[d] = rateBucket[d]
    BY <1>2, <1>7
  <2>3. QED
    BY <1>5, <2>1, <2>2, ConnectionStays
<1>8. QED
  BY <1>3, <1>6, <1>7 DEF BudgetInv, Callers

\* A new connection has sent nothing, and its window starts with it.
LEMMA RegisterBudget ==
  ASSUME BudgetInv, TypeOK', NEW c \in Connections, register(c)
  PROVE  BudgetInv'
<1>1. /\ TypeOK /\ c \in Callers /\ LogOK(c) /\ now \in Times
      /\ now' = now /\ buckets' = buckets /\ admitted' = admitted
      /\ admitted[c][Horizon] = 0 /\ c \notin DOMAIN rateBucket
  BY DEF BudgetInv, TypeOK, Callers, register
<1>2. /\ DOMAIN rateBucket' = DOMAIN rateBucket \cup {c}
      /\ rateBucket'[c] = [windowStart |-> now, count |-> 0]
      /\ \A d \in DOMAIN rateBucket : rateBucket'[d] = rateBucket[d]
  BY <1>1 DEF register
<1>3. \A t \in 0..Horizon : admitted[c][t] = 0
  <2> TAKE t \in 0..Horizon
  <2>1. admitted[c][t] \in Nat /\ admitted[c][t] <= admitted[c][Horizon]
    BY <1>1, HorizonFacts DEF LogOK, Grows
  <2>2. QED
    BY <1>1, <2>1
<1>4. PICK s \in Times : s = now
  BY <1>1
<1>5. Bounded(c, RateMs, RateMaxMsgs) /\ Fresh(c, RateMs, RateMaxMsgs)
  BY <1>1, <1>3, NoneIsFresh, WindowFacts
<1>6. Open(c, RateMs, RateMaxMsgs, s, 0)
  BY <1>1, <1>4, <1>5, FreshOpens, WindowFacts
<1>7. now' >= now
  BY <1>1 DEF Times
<1>8. LogOK(c)' /\ ConnectionBudget(c)'
  <2>1. /\ LogOK(c)' /\ Bounded(c, RateMs, RateMaxMsgs)'
        /\ Open(c, RateMs, RateMaxMsgs, s, 0)'
    BY <1>1, <1>5, <1>6, <1>7, TimeStep, WindowFacts
  <2>2. rateBucket'[c].windowStart = s /\ rateBucket'[c].count = 0
    BY <1>2, <1>4
  <2>3. Open(c, RateMs, RateMaxMsgs, rateBucket[c].windowStart, rateBucket[c].count)'
    BY <2>1, <2>2
  <2>4. QED
    BY <2>1, <2>3 DEF ConnectionBudget
<1>9. \A k \in Keys : LogOK(k)' /\ KeyBudget(k)'
  BY <1>1, <1>7, KeyStays
<1>10. ASSUME NEW d \in Connections, d # c PROVE LogOK(d)' /\ ConnectionBudget(d)'
  <2>1. d \in DOMAIN rateBucket' => d \in DOMAIN rateBucket /\ rateBucket'[d] = rateBucket[d]
    BY <1>2, <1>10
  <2>2. QED
    BY <1>1, <1>7, <2>1, ConnectionStays
<1>11. QED
  BY <1>8, <1>9, <1>10 DEF BudgetInv, Callers

LEMMA BudgetStep == BudgetInv /\ [Next]_vars /\ TypeOK' => BudgetInv'
<1> SUFFICES ASSUME BudgetInv, [Next]_vars, TypeOK' PROVE BudgetInv'
  OBVIOUS
<1>1. ASSUME now' >= now, UNCHANGED <<buckets, admitted>>,
             \A c \in DOMAIN rateBucket' :
               c \in DOMAIN rateBucket /\ rateBucket'[c] = rateBucket[c]
      PROVE  BudgetInv'
  <2>1. \A k \in Keys : LogOK(k)' /\ KeyBudget(k)'
    BY <1>1, KeyStays
  <2>2. \A c \in Connections : LogOK(c)' /\ ConnectionBudget(c)'
    BY <1>1, ConnectionStays
  <2>3. QED
    BY <2>1, <2>2 DEF BudgetInv, Callers
<1>2. now \in Nat /\ now >= now /\ now + 1 >= now
  BY DEF BudgetInv, TypeOK, Times
<1>3. CASE tick \/ UNCHANGED vars
  BY <1>1, <1>2, <1>3 DEF tick, vars
<1>4. CASE \E c \in Connections : unregister(c)
  <2>1. PICK c \in Connections : unregister(c)
    BY <1>4
  <2>2. \A d \in DOMAIN rateBucket' :
          d \in DOMAIN rateBucket /\ rateBucket'[d] = rateBucket[d]
    BY <2>1 DEF unregister, Restrict
  <2>3. QED
    BY <1>1, <1>2, <2>1, <2>2 DEF unregister
<1>5. QED
  BY <1>3, <1>4, CheckBudget, FrameBudget, RegisterBudget DEF Next

\* The budgets are kept in every reachable state.
LEMMA BudgetInvariant == Spec => []BudgetInv
<1>1. IInv => TypeOK
  BY DEF IInv
<1>2. QED
  BY <1>1, BudgetInit, BudgetStep, Invariant, PTL DEF Spec

\* However the fixed windows lie, and whatever pruning drops in between, nobody
\* gets more than two budgets through rateLimiter.ts or checkRate in any stretch of
\* a window's length.
THEOREM BurstsAreBounded == Spec => []BurstIsBounded
<1>1. ASSUME BudgetInv PROVE BurstIsBounded
  <2>1. \A t \in Times, k \in Keys : Passed(k, t, WindowMs) <= 2 * MaxPerWindow
    BY <1>1 DEF BudgetInv, KeyBudget, Bounded
  <2>2. ASSUME NEW t \in Times, NEW c \in Connections
        PROVE  Passed(c, t, RateWindowMs) <= 2 * RateMaxMsgs
    <3>1. LogOK(c) /\ Passed(c, t, RateMs) <= 2 * RateMaxMsgs
      BY <1>1 DEF BudgetInv, ConnectionBudget, Bounded, Callers
    <3> DEFINE d == Later(t, RateWindowMs)
               e == Later(t, RateMs)
    <3>2. d \in 0..Horizon /\ e \in 0..Horizon /\ d <= e /\ t \in 0..Horizon
      BY HorizonFacts DEF Later, RateMs, Times
    <3>3. /\ Passed(c, t, RateWindowMs) = admitted[c][d] - admitted[c][t]
          /\ Passed(c, t, RateMs) = admitted[c][e] - admitted[c][t]
      BY DEF Passed
    <3> HIDE DEF d, e
    <3>4. /\ admitted[c][d] <= admitted[c][e]
          /\ admitted[c][d] \in Nat /\ admitted[c][e] \in Nat /\ admitted[c][t] \in Nat
      BY <3>1, <3>2 DEF LogOK, Grows
    <3>5. QED
      BY <3>1, <3>3, <3>4
  <2>3. QED
    BY <2>1, <2>2 DEF BurstIsBounded
<1>2. QED
  BY <1>1, BudgetInvariant, PTL

\* Who is in a window with nothing left has had the whole budget lately.
LEMMA SpentLately ==
  ASSUME now \in Times, NEW k, LogOK(k), NEW ms \in Nat \ {0}, NEW max \in Nat,
         NEW s, NEW count \in Nat, Open(k, ms, max, s, count), ~(now - s >= ms),
         count + 1 > max
  PROVE  Passed(k, Earlier(ms - 1), ms) >= max
<1> DEFINE t == Earlier(ms - 1)
           e == Later(t, ms)
<1>1. s \in Times /\ s <= now /\ Since(k, s) = max
  BY DEF Open
<1>2. t \in 0..Horizon /\ t <= s /\ t + ms > now /\ t \in Nat
  BY <1>1, HorizonFacts DEF Earlier, Times
<1>3. e \in 0..Horizon /\ e > now
  BY <1>2, HorizonFacts DEF Later, Horizon, Times
<1> HIDE DEF t, e
<1>4. /\ admitted[k][e] = admitted[k][Horizon] /\ admitted[k][t] <= admitted[k][s]
      /\ admitted[k][t] \in Nat /\ admitted[k][s] \in Nat /\ admitted[k][Horizon] \in Nat
  BY <1>1, <1>2, <1>3, HorizonFacts DEF LogOK, Grows
<1>5. admitted[k][e] - admitted[k][t] >= max
  BY <1>1, <1>4 DEF Since
<1>6. QED
  BY <1>5 DEF Passed, t, e

\* A request that passes is in the log.
LEMMA PassChanges ==
  ASSUME TypeOK, NEW k \in Callers, pass(k)
  PROVE  admitted' # admitted
<1>1. admitted[k][Horizon] \in Nat /\ Horizon > now /\ Horizon \in 0..Horizon
  BY HorizonFacts DEF TypeOK, Horizon, Times
<1>2. admitted'[k][Horizon] = admitted[k][Horizon] + 1
  BY <1>1, LogType
<1>3. QED
  BY <1>1, <1>2

\* Refusals are fair: only who has had the whole budget in the last window is
\* refused, an address by rateLimiter.ts and a connection by checkRate, and an
\* address that comes back when Retry-After said is not.
THEOREM RefusalsFair == Spec => RefusalsAreFair
<1>1. ASSUME BudgetInv, TypeOK', NEW k \in Keys, check(k), UNCHANGED admitted
      PROVE  Passed(k, Earlier(WindowMs - 1), WindowMs) >= MaxPerWindow
  <2> DEFINE bucket == BucketOf(Kept, k)
  <2>1. TypeOK /\ k \in Callers /\ LogOK(k) /\ now \in Times
    BY <1>1 DEF BudgetInv, TypeOK, Callers
  <2>2. /\ Open(k, WindowMs, MaxPerWindow, bucket.windowStart, bucket.count)
        /\ bucket.count \in Nat /\ ~(now - bucket.windowStart >= WindowMs)
    BY <1>1, <2>1, BucketIsOpen, BucketFacts DEF Expired
  <2>3. bucket.count + 1 > MaxPerWindow
    BY <1>1, <2>1, CheckAnswers, PassChanges
  <2> HIDE DEF bucket
  <2>4. QED
    BY <2>1, <2>2, <2>3, SpentLately, WindowFacts
<1>2. ASSUME BudgetInv, TypeOK', NEW c \in Connections, checkRateLimit(c), UNCHANGED admitted
      PROVE  Passed(c, Earlier(RateWindowMs), RateWindowMs + 1) >= RateMaxMsgs
  <2>1. TypeOK /\ c \in Callers /\ LogOK(c) /\ now \in Times
    BY <1>2 DEF BudgetInv, TypeOK, Callers
  <2>2. PICK s \in Times, count \in Nat :
          /\ Open(c, RateMs, RateMaxMsgs, s, count) /\ ~(now - s >= RateMs)
          /\ pass(c) \/ count + 1 > RateMaxMsgs
    BY <1>2, FrameFacts
  <2>3. count + 1 > RateMaxMsgs
    BY <1>2, <2>1, <2>2, PassChanges
  <2>4. Passed(c, Earlier(RateMs - 1), RateMs) >= RateMaxMsgs
    BY <2>1, <2>2, <2>3, SpentLately, WindowFacts
  <2>5. RateMs - 1 = RateWindowMs /\ RateMs = RateWindowMs + 1
    BY DEF RateMs
  <2>6. QED
    BY <2>4, <2>5
<1>3. BudgetInv /\ [Next]_vars /\ TypeOK' =>
        [/\ \A k \in Keys : check(k) /\ UNCHANGED admitted =>
              Passed(k, Earlier(WindowMs - 1), WindowMs) >= MaxPerWindow
         /\ \A c \in Connections : checkRateLimit(c) /\ UNCHANGED admitted =>
              Passed(c, Earlier(RateWindowMs), RateWindowMs + 1) >= RateMaxMsgs]_vars
  BY <1>1, <1>2
<1>4. /\ [\A k \in Keys : check(k) /\ now >= retryAt[k] => retryAt'[k] = Never]_vars
      /\ [/\ \A k \in Keys : check(k) /\ UNCHANGED admitted =>
              Passed(k, Earlier(WindowMs - 1), WindowMs) >= MaxPerWindow
          /\ \A c \in Connections : checkRateLimit(c) /\ UNCHANGED admitted =>
              Passed(c, Earlier(RateWindowMs), RateWindowMs + 1) >= RateMaxMsgs]_vars
      => [/\ \A k \in Keys : check(k) =>
              /\ UNCHANGED admitted =>
                   Passed(k, Earlier(WindowMs - 1), WindowMs) >= MaxPerWindow
              /\ now >= retryAt[k] => retryAt'[k] = Never
          /\ \A c \in Connections : checkRateLimit(c) /\ UNCHANGED admitted =>
              Passed(c, Earlier(RateWindowMs), RateWindowMs + 1) >= RateMaxMsgs]_vars
  OBVIOUS
<1>5. QED
  BY <1>3, <1>4, BudgetInvariant, TypeCorrect, RetryIsEnough, PTL DEF Spec, RefusalsAreFair
================================================================================
