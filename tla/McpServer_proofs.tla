--------------------------- MODULE McpServer_proofs ---------------------------
(***************************************************************************)
(* Theorems about McpServer, for any clients, tokens, calls, limits and    *)
(* lengths of the rate window: the fixed windows bound the rate, what is   *)
(* served is within the token's scopes, and no call writes twice.          *)
(***************************************************************************)
EXTENDS McpServer, SequenceTheorems, FiniteSetTheorems, TLAPS

-----------------------------------------------------------------------------
(* Fixed windows: times at which a caller passed, in order of passing *)

Times(a, t, u) == {i \in DOMAIN a : t <= a[i] /\ a[i] < u}
Since(a, t) == {i \in DOMAIN a : t <= a[i]}

(* The window that began at start has count of the times; it began with one of
   them, in any window's length before it are fewer times than the limit, and in
   any window's length at all fewer than twice the limit. *)
Windowed(a, start, count, limit) ==
    /\ \A i \in DOMAIN a : a[i] < start + Window
    /\ \E i \in DOMAIN a : a[i] = start
    /\ Cardinality(Since(a, start)) = count /\ count <= limit
    /\ \A t \in Nat : start < t + Window => Cardinality(Times(a, t, start)) < limit
    /\ \A t \in Nat : Cardinality(Times(a, t, t + Window)) < 2 * limit

LEMMA WindowType == Window \in Nat \ {0} /\ MaxClock \in Nat
  BY McpAssumption DEF McpAssumption

\* Sets of places are finite.
LEMMA PlacesFinite ==
  ASSUME NEW a \in Seq(Nat), NEW S \in SUBSET DOMAIN a
  PROVE  IsFiniteSet(S) /\ Cardinality(S) \in Nat
  <1>1. DOMAIN a = 1 .. Len(a) /\ Len(a) \in Nat
    BY LenProperties
  <1>2. IsFiniteSet(1 .. Len(a))
    BY <1>1, FS_Interval
  <1>3. IsFiniteSet(S)
    BY <1>1, <1>2, FS_Subset
  <1> QED BY <1>3, FS_CardinalityType

LEMMA TimesType ==
  ASSUME NEW a \in Seq(Nat), NEW t, NEW u
  PROVE  /\ Times(a, t, u) \in SUBSET DOMAIN a /\ Since(a, t) \in SUBSET DOMAIN a
         /\ IsFiniteSet(Times(a, t, u)) /\ Cardinality(Times(a, t, u)) \in Nat
         /\ IsFiniteSet(Since(a, t)) /\ Cardinality(Since(a, t)) \in Nat
  <1>1. Times(a, t, u) \in SUBSET DOMAIN a /\ Since(a, t) \in SUBSET DOMAIN a
    BY DEF Times, Since
  <1> QED BY <1>1, PlacesFinite

\* One more time, now.
LEMMA PassOnce ==
  ASSUME NEW a \in Seq(Nat), NEW now \in Nat
  PROVE  /\ Append(a, now) \in Seq(Nat)
         /\ DOMAIN Append(a, now) = DOMAIN a \cup {Len(a) + 1}
         /\ Len(a) + 1 \notin DOMAIN a
         /\ Append(a, now)[Len(a) + 1] = now
         /\ \A i \in DOMAIN a : Append(a, now)[i] = a[i] /\ a[i] \in Nat
  <1>1. /\ Append(a, now) \in Seq(Nat) /\ Len(Append(a, now)) = Len(a) + 1
        /\ \A i \in 1 .. Len(a) : Append(a, now)[i] = a[i]
        /\ Append(a, now)[Len(a) + 1] = now
    BY AppendProperties
  <1>2. Len(a) \in Nat /\ DOMAIN a = 1 .. Len(a)
    BY LenProperties
  <1>3. DOMAIN Append(a, now) = 1 .. Len(a) + 1
    BY <1>1, LenProperties
  <1>4. 1 .. Len(a) + 1 = 1 .. Len(a) \cup {Len(a) + 1} /\ Len(a) + 1 \notin 1 .. Len(a)
    BY <1>2
  <1>5. \A i \in DOMAIN a : a[i] \in Nat
    BY <1>2, ElementOfSeq
  <1> QED BY <1>1, <1>2, <1>3, <1>4, <1>5

LEMMA PassTimes ==
  ASSUME NEW a \in Seq(Nat), NEW now \in Nat, NEW t \in Nat, NEW u \in Nat
  PROVE  /\ Times(Append(a, now), t, u) =
               IF t <= now /\ now < u THEN Times(a, t, u) \cup {Len(a) + 1}
               ELSE Times(a, t, u)
         /\ Since(Append(a, now), t) =
               IF t <= now THEN Since(a, t) \cup {Len(a) + 1} ELSE Since(a, t)
         /\ Len(a) + 1 \notin Times(a, t, u) /\ Len(a) + 1 \notin Since(a, t)
  <1>1. /\ DOMAIN Append(a, now) = DOMAIN a \cup {Len(a) + 1}
        /\ Len(a) + 1 \notin DOMAIN a /\ Append(a, now)[Len(a) + 1] = now
        /\ \A i \in DOMAIN a : Append(a, now)[i] = a[i]
    BY PassOnce
  <1> DEFINE place == Len(a) + 1
             b == Append(a, now)
  <1> HIDE DEF place, b
  <1>2. /\ DOMAIN b = DOMAIN a \cup {place} /\ place \notin DOMAIN a /\ b[place] = now
        /\ \A i \in DOMAIN a : b[i] = a[i]
    BY <1>1 DEF place, b
  <1>3. /\ Times(b, t, u) = IF t <= now /\ now < u THEN Times(a, t, u) \cup {place}
                            ELSE Times(a, t, u)
        /\ Since(b, t) = IF t <= now THEN Since(a, t) \cup {place} ELSE Since(a, t)
        /\ place \notin Times(a, t, u) /\ place \notin Since(a, t)
    BY <1>2 DEF Times, Since
  <1> QED BY <1>3 DEF place, b

LEMMA PassCounts ==
  ASSUME NEW a \in Seq(Nat), NEW now \in Nat, NEW t \in Nat, NEW u \in Nat
  PROVE  /\ Cardinality(Times(Append(a, now), t, u)) =
               IF t <= now /\ now < u THEN Cardinality(Times(a, t, u)) + 1
               ELSE Cardinality(Times(a, t, u))
         /\ Cardinality(Since(Append(a, now), t)) =
               IF t <= now THEN Cardinality(Since(a, t)) + 1 ELSE Cardinality(Since(a, t))
  <1>1. IsFiniteSet(Times(a, t, u)) /\ IsFiniteSet(Since(a, t))
    BY TimesType
  <1>2. /\ Cardinality(Times(a, t, u) \cup {Len(a) + 1}) = Cardinality(Times(a, t, u)) + 1
        /\ Cardinality(Since(a, t) \cup {Len(a) + 1}) = Cardinality(Since(a, t)) + 1
    BY <1>1, PassTimes, FS_AddElement
  <1>3. CASE t <= now /\ now < u
    BY <1>2, <1>3, PassTimes
  <1>4. CASE t <= now /\ ~(now < u)
    <2>1. Times(Append(a, now), t, u) = Times(a, t, u)
      BY <1>4, PassTimes
    <2>2. Since(Append(a, now), t) = Since(a, t) \cup {Len(a) + 1}
      BY <1>4, PassTimes
    <2> QED BY <1>2, <1>4, <2>1, <2>2
  <1>5. CASE ~(t <= now)
    <2>1. Times(Append(a, now), t, u) = Times(a, t, u)
      BY <1>5, PassTimes
    <2>2. Since(Append(a, now), t) = Since(a, t)
      BY <1>5, PassTimes
    <2> QED BY <1>5, <2>1, <2>2
  <1> QED BY <1>3, <1>4, <1>5

\* Times up to an instant and from it on are all that a longer stretch has.
LEMMA TimesSplit ==
  ASSUME NEW a \in Seq(Nat), NEW t \in Nat, NEW m \in Nat, NEW u \in Nat
  PROVE  Cardinality(Times(a, t, u)) <= Cardinality(Times(a, t, m)) + Cardinality(Since(a, m))
  <1>1. \A i \in DOMAIN a : a[i] \in Nat
    BY PassOnce
  <1>2. Times(a, t, u) \subseteq Times(a, t, m) \cup Since(a, m)
    BY <1>1 DEF Times, Since
  <1>3. Times(a, t, m) \cap Since(a, m) = {}
    BY <1>1 DEF Times, Since
  <1>4. /\ IsFiniteSet(Times(a, t, m)) /\ IsFiniteSet(Since(a, m))
        /\ Cardinality(Times(a, t, m)) \in Nat /\ Cardinality(Since(a, m)) \in Nat
    BY TimesType
  <1>5. /\ IsFiniteSet(Times(a, t, m) \cup Since(a, m))
        /\ Cardinality(Times(a, t, m) \cup Since(a, m)) =
              Cardinality(Times(a, t, m)) + Cardinality(Since(a, m))
              - Cardinality(Times(a, t, m) \cap Since(a, m))
    BY <1>4, FS_Union
  <1>6. Cardinality(Times(a, t, m) \cap Since(a, m)) = 0
    BY <1>3, FS_EmptySet
  <1>7. Cardinality(Times(a, t, u)) <= Cardinality(Times(a, t, m) \cup Since(a, m))
    BY <1>2, <1>5, FS_Subset
  <1> QED BY <1>4, <1>5, <1>6, <1>7

\* A passage in the window.
LEMMA JoinWindow ==
  ASSUME NEW a \in Seq(Nat), NEW start \in Nat, NEW count \in Nat, NEW limit \in Nat,
         NEW now \in Nat, Windowed(a, start, count, limit), start <= now,
         now < start + Window, count < limit
  PROVE  Windowed(Append(a, now), start, count + 1, limit)
  <1> DEFINE b == Append(a, now)
  <1>1. b \in Seq(Nat) /\ DOMAIN b = DOMAIN a \cup {Len(a) + 1} /\ b[Len(a) + 1] = now
        /\ \A i \in DOMAIN a : b[i] = a[i]
    BY PassOnce
  <1>2. Cardinality(Since(b, start)) = count + 1
    BY PassCounts DEF Windowed
  <1>3. ASSUME NEW t \in Nat, start < t + Window
        PROVE  Cardinality(Times(b, t, start)) < limit
    BY <1>3, PassCounts DEF Windowed
  <1>4. ASSUME NEW t \in Nat PROVE Cardinality(Times(b, t, t + Window)) < 2 * limit
    <2>1. t + Window \in Nat
      BY WindowType
    <2>2. CASE ~(t <= now /\ now < t + Window)
      BY <2>1, <2>2, PassCounts DEF Windowed
    <2>3. CASE t <= now /\ now < t + Window
      <3>1. Cardinality(Times(b, t, start)) < limit
        BY <1>3, <2>1, <2>3
      <3>2. Cardinality(Times(b, t, t + Window))
               <= Cardinality(Times(b, t, start)) + Cardinality(Since(b, start))
        BY <1>1, <2>1, TimesSplit
      <3>3. Cardinality(Times(b, t, t + Window)) \in Nat /\ Cardinality(Times(b, t, start)) \in Nat
        BY <1>1, TimesType
      <3> HIDE DEF b
      <3> QED BY <1>2, <3>1, <3>2, <3>3
    <2> QED BY <2>2, <2>3
  <1>5. \A i \in DOMAIN b : b[i] < start + Window
    BY <1>1 DEF Windowed
  <1>6. \E i \in DOMAIN b : b[i] = start
    BY <1>1 DEF Windowed
  <1> QED BY <1>2, <1>3, <1>4, <1>5, <1>6 DEF Windowed

\* A passage that opens a window after one that is over.
LEMMA OpenWindow ==
  ASSUME NEW a \in Seq(Nat), NEW start \in Nat, NEW count \in Nat, NEW limit \in Nat,
         NEW now \in Nat, Windowed(a, start, count, limit), start + Window <= now
  PROVE  Windowed(Append(a, now), now, 1, limit)
  <1> DEFINE b == Append(a, now)
  <1>1. b \in Seq(Nat) /\ DOMAIN b = DOMAIN a \cup {Len(a) + 1} /\ b[Len(a) + 1] = now
        /\ \A i \in DOMAIN a : b[i] = a[i] /\ a[i] \in Nat
    BY PassOnce
  <1>2. PICK first \in DOMAIN a : a[first] = start
    BY DEF Windowed
  <1>3. Since(a, now) = {}
    <2>1. \A i \in DOMAIN a : a[i] < start + Window /\ a[i] \in Nat
      BY <1>1 DEF Windowed
    <2>2. \A i \in DOMAIN a : ~(now <= a[i])
      BY <2>1, WindowType
    <2> QED BY <2>2 DEF Since
  <1>4. Cardinality(Since(b, now)) = 1
    <2>1. Cardinality({}) = 0
      BY FS_EmptySet
    <2>2. Cardinality(Since(b, now)) = Cardinality(Since(a, now)) + 1
      BY PassCounts
    <2> QED BY <1>3, <2>1, <2>2
  <1>5. /\ IsFiniteSet(Since(a, start)) /\ first \in Since(a, start)
        /\ Cardinality(Since(a, start)) = count
    BY <1>2, TimesType DEF Windowed, Since
  <1>6. /\ IsFiniteSet(Since(a, start) \ {first})
        /\ Cardinality(Since(a, start) \ {first}) = count - 1
    BY <1>5, FS_RemoveElement
  <1>7. ASSUME NEW t \in Nat, now < t + Window
        PROVE  Cardinality(Times(a, t, now)) < limit
    <2>1. Times(a, t, now) \subseteq Since(a, start) \ {first}
      BY <1>1, <1>2, <1>7, WindowType DEF Times, Since
    <2>2. Cardinality(Times(a, t, now)) <= count - 1
      BY <1>6, <2>1, FS_Subset
    <2>3. Cardinality(Times(a, t, now)) \in Nat /\ count <= limit
      BY TimesType DEF Windowed
    <2> QED BY <2>2, <2>3
  <1>8. ASSUME NEW t \in Nat, now < t + Window
        PROVE  Cardinality(Times(b, t, now)) < limit
    BY <1>7, <1>8, PassCounts
  <1>9. 1 <= limit
    <2>1. count # 0
      BY <1>5, FS_EmptySet
    <2> QED BY <2>1 DEF Windowed
  <1>10. ASSUME NEW t \in Nat PROVE Cardinality(Times(b, t, t + Window)) < 2 * limit
    <2>1. t + Window \in Nat
      BY WindowType
    <2>2. CASE ~(t <= now /\ now < t + Window)
      BY <2>1, <2>2, PassCounts DEF Windowed
    <2>3. CASE t <= now /\ now < t + Window
      <3>1. Cardinality(Times(b, t, now)) < limit
        BY <1>8, <2>3
      <3>2. Cardinality(Times(b, t, t + Window))
               <= Cardinality(Times(b, t, now)) + Cardinality(Since(b, now))
        BY <1>1, <2>1, TimesSplit
      <3>3. Cardinality(Times(b, t, t + Window)) \in Nat /\ Cardinality(Times(b, t, now)) \in Nat
        BY <1>1, TimesType
      <3> HIDE DEF b
      <3> QED BY <1>4, <1>9, <3>1, <3>2, <3>3
    <2> QED BY <2>2, <2>3
  <1>11. (\A i \in DOMAIN b : b[i] < now + Window) /\ (\E i \in DOMAIN b : b[i] = now)
    <2>1. \A i \in DOMAIN a : a[i] < start + Window /\ b[i] = a[i] /\ a[i] \in Nat
      BY <1>1 DEF Windowed
    <2>2. \A i \in DOMAIN a : b[i] < now + Window
      BY <2>1, WindowType
    <2>3. b[Len(a) + 1] < now + Window
      BY <1>1, WindowType
    <2> HIDE DEF b
    <2> QED BY <1>1, <2>2, <2>3
  <1> QED BY <1>4, <1>8, <1>9, <1>10, <1>11 DEF Windowed

\* The first passage of all.
LEMMA FirstWindow ==
  ASSUME NEW a \in Seq(Nat), DOMAIN a = {}, NEW limit \in Nat \ {0}, NEW now \in Nat
  PROVE  Windowed(Append(a, now), now, 1, limit)
  <1> DEFINE b == Append(a, now)
             place == Len(a) + 1
  <1>1. DOMAIN b = {place} /\ b[place] = now
    BY PassOnce
  <1> HIDE DEF b, place
  <1>2. Since(b, now) = {place} /\ Cardinality({place}) = 1
    <2>1. Cardinality({place}) = 1
      BY FS_Singleton, Zenon
    <2>2. now <= now
      OBVIOUS
    <2> QED BY <1>1, <2>1, <2>2, Zenon DEF Since
  <1>3. \A t : Times(b, t, now) = {}
    BY <1>1 DEF Times
  <1>4. IsFiniteSet({place}) /\ \A t, u : Times(b, t, u) \subseteq {place}
    BY <1>1, FS_Singleton DEF Times
  <1>5. \A t : Cardinality(Times(b, t, now)) = 0
    BY <1>3, FS_EmptySet
  <1>6. ASSUME NEW t \in Nat PROVE Cardinality(Times(b, t, t + Window)) < 2 * limit
    <2>1. /\ Cardinality(Times(b, t, t + Window)) <= 1
          /\ IsFiniteSet(Times(b, t, t + Window))
      BY <1>2, <1>4, FS_Subset
    <2>2. Cardinality(Times(b, t, t + Window)) \in Nat
      BY <2>1, FS_CardinalityType
    <2> QED BY <2>1, <2>2
  <1>7. now < now + Window
    BY WindowType
  <1>8. Windowed(b, now, 1, limit)
    BY <1>1, <1>2, <1>5, <1>6, <1>7 DEF Windowed
  <1> QED BY <1>8 DEF b

LEMMA AllTimes ==
  ASSUME NEW a \in Seq(Nat)
  PROVE  IsFiniteSet(DOMAIN a) /\ Cardinality(DOMAIN a) \in Nat
  BY PlacesFinite

\* A passage that opens a window after the one the clock was set back in is over.
LEMMA OpenAfterCarried ==
  ASSUME NEW a \in Seq(Nat), NEW limit \in Nat, NEW now \in Nat,
         \A i \in DOMAIN a : a[i] < now, Cardinality(DOMAIN a) < limit
  PROVE  Windowed(Append(a, now), now, 1, limit)
  <1> DEFINE b == Append(a, now)
  <1>1. b \in Seq(Nat) /\ DOMAIN b = DOMAIN a \cup {Len(a) + 1} /\ b[Len(a) + 1] = now
        /\ \A i \in DOMAIN a : b[i] = a[i] /\ a[i] \in Nat
    BY PassOnce
  <1>2. Since(a, now) = {}
    BY <1>1 DEF Since
  <1>3. Cardinality(Since(b, now)) = 1
    <2>1. Cardinality({}) = 0
      BY FS_EmptySet
    <2>2. Cardinality(Since(b, now)) = Cardinality(Since(a, now)) + 1
      BY PassCounts
    <2> QED BY <1>2, <2>1, <2>2
  <1>4. \A t \in Nat, u \in Nat : Cardinality(Times(a, t, u)) < limit
    <2> SUFFICES ASSUME NEW t \in Nat, NEW u \in Nat PROVE Cardinality(Times(a, t, u)) < limit
      OBVIOUS
    <2>1. Times(a, t, u) \subseteq DOMAIN a
      BY DEF Times
    <2>2. Cardinality(Times(a, t, u)) <= Cardinality(DOMAIN a)
      BY <2>1, AllTimes, FS_Subset
    <2>3. Cardinality(Times(a, t, u)) \in Nat /\ Cardinality(DOMAIN a) \in Nat
      BY TimesType, AllTimes
    <2> QED BY <2>2, <2>3
  <1>5. ASSUME NEW t \in Nat PROVE Cardinality(Times(b, t, now)) < limit
    BY <1>4, PassCounts
  <1>6. limit \in Nat \ {0}
    BY AllTimes
  <1>7. ASSUME NEW t \in Nat PROVE Cardinality(Times(b, t, t + Window)) < 2 * limit
    <2>1. t + Window \in Nat
      BY WindowType
    <2>2. \/ Cardinality(Times(b, t, t + Window)) = Cardinality(Times(a, t, t + Window)) + 1
          \/ Cardinality(Times(b, t, t + Window)) = Cardinality(Times(a, t, t + Window))
      BY <2>1, PassCounts
    <2>3. /\ Cardinality(Times(a, t, t + Window)) \in Nat
          /\ Cardinality(Times(a, t, t + Window)) < limit
      BY <1>4, <2>1, TimesType
    <2> HIDE DEF b
    <2> QED BY <1>6, <2>2, <2>3
  <1>8. (\A i \in DOMAIN b : b[i] < now + Window) /\ (\E i \in DOMAIN b : b[i] = now)
    <2>1. \A i \in DOMAIN a : b[i] < now + Window
      BY <1>1, WindowType
    <2>2. b[Len(a) + 1] < now + Window
      BY <1>1, WindowType
    <2> HIDE DEF b
    <2> QED BY <1>1, <2>1, <2>2
  <1>9. 1 <= limit
    BY <1>6
  <1> QED BY <1>3, <1>5, <1>7, <1>8, <1>9 DEF Windowed

-----------------------------------------------------------------------------
(* The rate limit *)

Limiting == config # Down /\ config.transport = "http" /\ config.limit > 0

Bucket == [count : Nat, resetAt : Nat]

(* A bucket that was opened before the clock was set back: its count has the passages
   since then, and at least the one that opened it. *)
Carried(a, resetAt, count, limit) ==
    /\ \A i \in DOMAIN a : a[i] < resetAt
    /\ Cardinality(DOMAIN a) < count /\ count <= limit

(* the passages and the bucket of one key *)
InWindow(times, bucket, limit) ==
    \/ bucket = NoBucket /\ DOMAIN times = {}
    \/ /\ bucket # NoBucket
       /\ Window <= bucket.resetAt /\ bucket.resetAt - Window <= clock
       /\ Windowed(times, bucket.resetAt - Window, bucket.count, limit)
    \/ /\ bucket # NoBucket /\ setBack
       /\ Carried(times, bucket.resetAt, bucket.count, limit)

LEMMA JoinCarried ==
  ASSUME NEW a \in Seq(Nat), NEW resetAt \in Nat, NEW count \in Nat, NEW limit \in Nat,
         NEW now \in Nat, Carried(a, resetAt, count, limit), now < resetAt, count < limit
  PROVE  Carried(Append(a, now), resetAt, count + 1, limit)
  <1> DEFINE b == Append(a, now)
             place == Len(a) + 1
  <1>1. DOMAIN b = DOMAIN a \cup {place} /\ place \notin DOMAIN a /\ b[place] = now
        /\ \A i \in DOMAIN a : b[i] = a[i]
    BY PassOnce
  <1> HIDE DEF b, place
  <1>2. Cardinality(DOMAIN b) = Cardinality(DOMAIN a) + 1
    BY <1>1, AllTimes, FS_AddElement
  <1>3. \A i \in DOMAIN b : b[i] < resetAt
    BY <1>1 DEF Carried
  <1>4. Cardinality(DOMAIN a) \in Nat /\ Cardinality(DOMAIN a) < count
    BY AllTimes DEF Carried
  <1>5. Carried(b, resetAt, count + 1, limit)
    BY <1>2, <1>3, <1>4 DEF Carried
  <1> QED BY <1>5 DEF b

(* who was refused had passed often enough of late *)
RefusedRightly ==
    last.answer = "too many" /\ ~setBack =>
    LET key == BucketKey(last.request.token)
    IN key \in BucketKeys
       /\ Cardinality({i \in DOMAIN admitted[key] :
                          admitted[key][i] + Window > clock}) >= config.limit

RateTyping ==
    /\ clock \in Nat /\ setBack \in BOOLEAN
    /\ config # Down => config \in Environments /\ ~ConfigFails(config)
    /\ buckets \in [BucketKeys -> Bucket \cup {NoBucket}]
    /\ admitted \in [BucketKeys -> Seq(Nat)]

Rated ==
    /\ config = Down => buckets = Empty(NoBucket) /\ admitted = Empty(<<>>)
    /\ Limiting => /\ \A key \in BucketKeys :
                         InWindow(admitted[key], buckets[key], config.limit)
                   /\ RefusedRightly

LEMMA LimitType ==
  ASSUME RateTyping, config # Down, config.transport = "http"
  PROVE  /\ config.limit \in Nat /\ config.tokens # Malformed
         /\ \A i \in DOMAIN config.tokens : BucketKey(config.tokens[i]) \in BucketKeys
  <1>1. config \in Environments /\ config.limit \in Nat /\ config.tokens # Malformed
    BY DEF RateTyping, ConfigFails
  <1> QED BY <1>1 DEF BucketKeys

LEMMA BearerKnown ==
  ASSUME RateTyping, config # Down, config.transport = "http", NEW call, Authenticated(call)
  PROVE  /\ BucketKey(Bearer(call)) \in BucketKeys
         /\ \E i \in DOMAIN config.tokens : Bearer(call) = config.tokens[i]
         /\ Bearer(call).token = call.bearer
  <1> DEFINE first == {i \in DOMAIN config.tokens :
                          /\ config.tokens[i].token = call.bearer
                          /\ \A j \in 1 .. i - 1 : config.tokens[j].token # call.bearer}
             chosen == CHOOSE i \in first : TRUE
  <1>1. Bearer(call) = IF first = {} THEN Absent ELSE config.tokens[chosen]
    BY DEF Bearer
  <1>2. first # {}
    BY <1>1 DEF Authenticated
  <1>3. chosen \in first
    BY <1>2
  <1>4. chosen \in DOMAIN config.tokens /\ config.tokens[chosen].token = call.bearer
    BY <1>3
  <1> HIDE DEF first, chosen
  <1> QED BY <1>1, <1>2, <1>4, LimitType

LEMMA RatedInit == McpInit => RateTyping /\ Rated
  <1> SUFFICES ASSUME McpInit PROVE RateTyping /\ Rated
    OBVIOUS
  <1>1. <<>> \in Seq(Nat)
    OBVIOUS
  <1>2. /\ clock = 0 /\ config = Down /\ setBack = FALSE
        /\ buckets = Empty(NoBucket) /\ admitted = Empty(<<>>)
    BY DEF McpInit
  <1>3. clock \in Nat /\ setBack \in BOOLEAN
    BY <1>2
  <1> QED BY <1>1, <1>2, <1>3 DEF RateTyping, Rated, Limiting, Empty

\* A caller that is let through.
LEMMA LetThrough ==
  ASSUME RateTyping, Limiting, NEW key \in BucketKeys, RateAllowed(key),
         InWindow(admitted[key], buckets[key], config.limit)
  PROVE  /\ Counted(key) \in [BucketKeys -> Bucket \cup {NoBucket}]
         /\ InWindow(Append(admitted[key], clock), Counted(key)[key], config.limit)
         /\ \A s \in BucketKeys : s # key => Counted(key)[s] = buckets[s]
  <1> DEFINE times == admitted[key]
             bucket == buckets[key]
             limit == config.limit
             opened == [count |-> 1, resetAt |-> clock + Window]
             joined == [bucket EXCEPT !.count = @ + 1]
  <1>1. /\ times \in Seq(Nat) /\ bucket \in Bucket \cup {NoBucket} /\ clock \in Nat
        /\ limit \in Nat \ {0}
    BY LimitType DEF RateTyping, Limiting
  <1>2. opened \in Bucket /\ opened.count = 1 /\ opened.resetAt = clock + Window
    BY <1>1, WindowType DEF Bucket
  <1>3. Counted(key) = [buckets EXCEPT ![key] = IF Spent(key) THEN opened ELSE joined]
    BY <1>1 DEF Counted, Limiting
  <1>4. Spent(key) <=> bucket = NoBucket \/ bucket.resetAt <= clock
    BY DEF Spent
  <1>5. CASE Spent(key)
    <2>1. Windowed(Append(times, clock), clock, 1, limit)
      <3>1. CASE bucket = NoBucket
        <4>1. DOMAIN times = {}
          BY <3>1 DEF InWindow
        <4> HIDE DEF times, limit
        <4> QED BY <1>1, <4>1, FirstWindow
      <3>2. CASE /\ bucket # NoBucket /\ Window <= bucket.resetAt
                 /\ Windowed(times, bucket.resetAt - Window, bucket.count, limit)
        <4>1. /\ bucket.resetAt \in Nat /\ bucket.count \in Nat /\ Window <= bucket.resetAt
              /\ Windowed(times, bucket.resetAt - Window, bucket.count, limit)
          BY <1>1, <3>2 DEF Bucket
        <4>2. bucket.resetAt - Window \in Nat /\ bucket.resetAt - Window + Window <= clock
          BY <1>4, <1>5, <3>2, <4>1, WindowType
        <4> HIDE DEF times, bucket, limit
        <4> QED BY <1>1, <4>1, <4>2, OpenWindow
      <3>3. CASE /\ bucket # NoBucket
                 /\ Carried(times, bucket.resetAt, bucket.count, limit)
        <4>1. bucket.resetAt \in Nat /\ bucket.count \in Nat /\ bucket.resetAt <= clock
          BY <1>1, <1>4, <1>5, <3>3 DEF Bucket
        <4>2. \A i \in DOMAIN times : times[i] \in Nat
          BY <1>1, PassOnce
        <4>3. \A i \in DOMAIN times : times[i] < clock
          BY <1>1, <3>3, <4>1, <4>2 DEF Carried
        <4>4. Cardinality(DOMAIN times) < limit
          BY <1>1, <3>3, <4>1, AllTimes DEF Carried
        <4> HIDE DEF times, bucket, limit
        <4> QED BY <1>1, <4>3, <4>4, OpenAfterCarried
      <3> QED BY <3>1, <3>2, <3>3 DEF InWindow
    <2>2. Counted(key) = [buckets EXCEPT ![key] = opened]
      BY <1>3, <1>5
    <2>3. /\ Counted(key)[key] = opened
          /\ Counted(key) \in [BucketKeys -> Bucket \cup {NoBucket}]
          /\ \A s \in BucketKeys : s # key => Counted(key)[s] = buckets[s]
      <3> HIDE DEF opened
      <3> QED BY <1>2, <2>2 DEF RateTyping
    <2>4. opened # NoBucket
      BY <1>2, McpAssumption DEF McpAssumption, Bucket
    <2>5. Window <= opened.resetAt /\ opened.resetAt - Window = clock /\ clock <= clock
      <3> HIDE DEF opened
      <3> QED BY <1>1, <1>2, WindowType
    <2>6. InWindow(Append(times, clock), opened, limit)
      <3> HIDE DEF opened, times, limit
      <3> QED BY <1>2, <2>1, <2>4, <2>5 DEF InWindow
    <2> HIDE DEF opened
    <2> QED BY <2>3, <2>6
  <1>6. CASE ~Spent(key)
    <2>1. bucket # NoBucket /\ bucket \in Bucket /\ ~(bucket.resetAt <= clock)
      BY <1>1, <1>4, <1>6
    <2>2. bucket.resetAt \in Nat /\ bucket.count \in Nat /\ bucket.count < limit
      BY <1>1, <1>6, <2>1 DEF RateAllowed, Bucket
    <2>3. /\ joined \in Bucket /\ joined.count = bucket.count + 1
          /\ joined.resetAt = bucket.resetAt
      BY <2>1 DEF Bucket
    <2>4. joined # NoBucket
      BY <2>3, McpAssumption DEF McpAssumption, Bucket
    <2>5. ASSUME Window <= bucket.resetAt, bucket.resetAt - Window <= clock,
                 Windowed(times, bucket.resetAt - Window, bucket.count, limit)
          PROVE  InWindow(Append(times, clock), joined, limit)
      <3>1. bucket.resetAt - Window \in Nat /\ clock < bucket.resetAt - Window + Window
        BY <1>1, <2>1, <2>2, <2>5, WindowType
      <3>2. Windowed(Append(times, clock), bucket.resetAt - Window, bucket.count + 1, limit)
        <4> HIDE DEF times, bucket, limit
        <4> QED BY <1>1, <2>2, <2>5, <3>1, JoinWindow
      <3> HIDE DEF times, bucket, limit, joined
      <3> QED BY <2>3, <2>4, <2>5, <3>2 DEF InWindow
    <2>6. ASSUME setBack, Carried(times, bucket.resetAt, bucket.count, limit)
          PROVE  InWindow(Append(times, clock), joined, limit)
      <3>1. clock < bucket.resetAt
        BY <1>1, <2>1, <2>2
      <3>2. Carried(Append(times, clock), bucket.resetAt, bucket.count + 1, limit)
        <4> HIDE DEF times, bucket, limit
        <4> QED BY <1>1, <2>2, <2>6, <3>1, JoinCarried
      <3> HIDE DEF times, bucket, limit, joined
      <3> QED BY <2>3, <2>4, <2>6, <3>2 DEF InWindow
    <2>8. InWindow(Append(times, clock), joined, limit)
      <3> HIDE DEF joined
      <3> QED BY <2>1, <2>5, <2>6 DEF InWindow
    <2>9. Counted(key) = [buckets EXCEPT ![key] = joined]
      BY <1>3, <1>6
    <2>10. /\ Counted(key)[key] = joined
           /\ Counted(key) \in [BucketKeys -> Bucket \cup {NoBucket}]
           /\ \A s \in BucketKeys : s # key => Counted(key)[s] = buckets[s]
      <3> HIDE DEF joined
      <3> QED BY <2>3, <2>9 DEF RateTyping
    <2> HIDE DEF joined
    <2> QED BY <2>8, <2>10
  <1> QED BY <1>5, <1>6

LEMMA ReplyType == \A message : Reply(message) \in {"error", "accepted", "result"}
  BY DEF Reply

LEMMA EndedAnswer ==
  ASSUME NEW c, NEW request, NEW answer, Ended(c, request, answer), answer # "too many"
  PROVE  last'.answer # "too many"
  BY DEF Ended, NoLast

LEMMA HandledAnswer ==
  ASSUME NEW c, NEW request, HandleMessage(c, request)
  PROVE  last'.answer # "too many"
  <1>1. Reply(request.call.body) # "too many"
    BY ReplyType
  <1>2. Ended(c, request, Reply(request.call.body)) \/ last' = NoLast
    BY DEF HandleMessage
  <1>3. NoLast.answer # "too many"
    BY DEF NoLast
  <1> QED BY <1>1, <1>2, <1>3, EndedAnswer

\* What leaves the rate and the clock alone, and refuses nobody for it.
Unrated ==
    \/ \E c \in Conns : Serve(c) \/ ClientLeaves(c) \/ \E call \in Calls : ReceiveLine(c, call)
    \/ UNCHANGED mcpVars

LEMMA UnratedKeeps ==
  ASSUME Unrated
  PROVE  /\ UNCHANGED <<clock, config, buckets, admitted, setBack>>
         /\ last' = last \/ last'.answer # "too many"
  <1>1. ASSUME NEW c \in Conns, NEW call \in Calls, ReceiveLine(c, call)
        PROVE  /\ UNCHANGED <<clock, config, buckets, admitted, setBack>>
               /\ last'.answer # "too many"
    <2> DEFINE request == Asked(call, Absent)
    <2>1. UNCHANGED <<clock, config, buckets, admitted, setBack>>
      BY <1>1 DEF ReceiveLine
    <2>2. Ended(c, request, "error") \/ HandleMessage(c, request)
      BY <1>1 DEF ReceiveLine
    <2> HIDE DEF request
    <2>3. last'.answer # "too many"
      BY <2>2, EndedAnswer, HandledAnswer
    <2> QED BY <2>1, <2>3
  <1>2. ASSUME NEW c \in Conns, ReceiveBody(c)
        PROVE  /\ UNCHANGED <<clock, config, buckets, admitted, setBack>>
               /\ last'.answer # "too many"
    <2>1. UNCHANGED <<clock, config, buckets, admitted, setBack>>
      BY <1>2 DEF ReceiveBody
    <2>2. \/ Ended(c, conns[c], "error") \/ Ended(c, conns[c], "forbidden")
          \/ HandleMessage(c, conns[c])
      BY <1>2 DEF ReceiveBody
    <2>3. last'.answer # "too many"
      BY <2>2, EndedAnswer, HandledAnswer
    <2> QED BY <2>1, <2>3
  <1>3. ASSUME NEW c \in Conns,
               TakeEffect(c) \/ Respond(c) \/ RespondFailed(c) \/ ClientLeaves(c)
        PROVE  /\ UNCHANGED <<clock, config, buckets, admitted, setBack>>
               /\ last'.answer # "too many"
    <2>1. UNCHANGED <<clock, config, buckets, admitted, setBack>>
      BY <1>3 DEF TakeEffect, Respond, RespondFailed, ClientLeaves
    <2>2. \/ last' = NoLast
          \/ \E request, answer : /\ answer \in {"result", "failed", "lost"}
                                 /\ Ended(c, request, answer)
      <3>1. CASE TakeEffect(c)
        BY <3>1 DEF TakeEffect
      <3>2. CASE Respond(c)
        BY <3>2 DEF Respond
      <3>3. CASE RespondFailed(c)
        BY <3>3 DEF RespondFailed
      <3>4. CASE ClientLeaves(c)
        BY <3>4 DEF ClientLeaves
      <3> QED BY <1>3, <3>1, <3>2, <3>3, <3>4
    <2>3. NoLast.answer # "too many"
      BY DEF NoLast
    <2>4. last'.answer # "too many"
      <3>1. CASE last' = NoLast
        BY <2>3, <3>1
      <3>2. ASSUME NEW request, NEW answer, Ended(c, request, answer),
                   answer \in {"result", "failed", "lost"}
            PROVE  last'.answer # "too many"
        BY <3>2, EndedAnswer
      <3> QED BY <2>2, <3>1, <3>2
    <2> QED BY <2>1, <2>4
  <1>4. CASE UNCHANGED mcpVars
    BY <1>4 DEF mcpVars
  <1> QED BY <1>1, <1>2, <1>3, <1>4 DEF Unrated, Serve

LEMMA RateCases ==
  [McpNext]_mcpVars =>
  \/ Unrated
  \/ \E c \in Conns, call \in Calls : ReceiveHead(c, call)
  \/ \E env \in Environments : StartServer(env)
  \/ StopServer \/ TimePasses \/ ClockSetBack
  BY DEF McpNext, Unrated

\* The head of a request: it is turned away, refused for the rate, or let through.
LEMMA HeadCases ==
  ASSUME NEW c \in Conns, NEW call \in Calls, ReceiveHead(c, call)
  PROVE  /\ config # Down /\ config.transport = "http" /\ UNCHANGED <<clock, config, setBack>>
         /\ \/ /\ UNCHANGED <<buckets, admitted>> /\ last'.answer # "too many"
            \/ /\ UNCHANGED <<buckets, admitted>> /\ Authenticated(call)
               /\ ~RateAllowed(BucketKey(Bearer(call)))
               /\ last'.request.token = Bearer(call)
            \/ /\ Authenticated(call) /\ RateAllowed(BucketKey(Bearer(call)))
               /\ buckets' = Counted(BucketKey(Bearer(call)))
               /\ admitted' = [admitted EXCEPT ![BucketKey(Bearer(call))] = Append(@, clock)]
               /\ last'.answer # "too many"
  <1> DEFINE entry == Bearer(call)
             request == Asked(call, entry)
             answer == IF ~Forthcoming(call) THEN Turned(call)
                       ELSE IF ~Authenticated(call) THEN "unauthorized" ELSE "too many"
             Refused == UNCHANGED <<buckets, admitted>> /\ last'.answer # "too many"
             Limited == /\ UNCHANGED <<buckets, admitted>> /\ Authenticated(call)
                        /\ ~RateAllowed(BucketKey(entry))
                        /\ last'.request.token = entry
             Passed == /\ Authenticated(call) /\ RateAllowed(BucketKey(entry))
                       /\ buckets' = Counted(BucketKey(entry))
                       /\ admitted' = [admitted EXCEPT ![BucketKey(entry)] = Append(@, clock)]
                       /\ last'.answer # "too many"
             Stopped == ~Forthcoming(call) \/ ~Authenticated(call) \/ ~RateAllowed(BucketKey(entry))
  <1>1. config # Down /\ config.transport = "http" /\ UNCHANGED <<clock, config, setBack>>
    <2>1. config # Down /\ config.transport = "http"
      BY DEF ReceiveHead, Send
    <2>2. UNCHANGED <<clock, config, setBack>>
      BY DEF ReceiveHead
    <2> QED BY <2>1, <2>2
  <1>2. Turned(call) # "too many" /\ request.token = entry /\ request.pc = "idle"
    BY DEF Turned, Asked, NoRequest
  <1>3. ASSUME Stopped PROVE Refused \/ Limited
    <2>1. Ended(c, request, answer)
      BY <1>3 DEF ReceiveHead
    <2>2. UNCHANGED <<buckets, admitted>>
      BY <1>3 DEF ReceiveHead
    <2>3. CASE answer # "too many"
      <3>1. last'.answer # "too many"
        <4> HIDE DEF request, answer
        <4> QED BY <2>1, <2>3, EndedAnswer
      <3> QED BY <2>2, <3>1
    <2>4. CASE answer = "too many"
      <3>1. Authenticated(call) /\ ~RateAllowed(BucketKey(entry))
        BY <1>2, <1>3, <2>4
      <3>2. last' = [request |-> request, answer |-> answer]
        <4> HIDE DEF request, answer
        <4> QED BY <2>1, <2>4 DEF Ended
      <3>3. last'.request.token = entry
        <4>1. last'.request = request
          <5> HIDE DEF request, answer
          <5> QED BY <3>2
        <4> QED BY <1>2, <4>1
      <3> QED BY <2>2, <3>1, <3>3
    <2> QED BY <2>3, <2>4
  <1>4. ASSUME ~Stopped PROVE Passed
    <2>1. buckets' = Counted(BucketKey(entry))
      BY <1>4 DEF ReceiveHead
    <2>2. admitted' = [admitted EXCEPT ![BucketKey(entry)] = Append(@, clock)]
      BY <1>4 DEF ReceiveHead
    <2>3. last' = NoLast \/ Ended(c, request, "not acceptable")
      BY <1>4 DEF ReceiveHead
    <2>4. last'.answer # "too many"
      <3>1. CASE last' = NoLast
        BY <3>1 DEF NoLast
      <3>2. CASE Ended(c, request, "not acceptable")
        <4> HIDE DEF request
        <4> QED BY <3>2, EndedAnswer
      <3> QED BY <2>3, <3>1, <3>2
    <2>5. Authenticated(call) /\ RateAllowed(BucketKey(entry))
      BY <1>4
    <2> QED BY <2>1, <2>2, <2>4, <2>5
  <1>5. Refused \/ Limited \/ Passed
    <2> HIDE DEF Refused, Limited, Passed, Stopped
    <2> QED BY <1>3, <1>4
  <1> HIDE DEF answer, request, Stopped
  <1> QED BY <1>1, <1>5

\* A caller whose bucket is full has passed that often within a window's length.
LEMMA FullBucket ==
  ASSUME RateTyping, Limiting, ~setBack, NEW key \in BucketKeys, ~RateAllowed(key),
         InWindow(admitted[key], buckets[key], config.limit)
  PROVE  Cardinality({i \in DOMAIN admitted[key] :
                         admitted[key][i] + Window > clock}) >= config.limit
  <1> DEFINE times == admitted[key]
             bucket == buckets[key]
             recent == {i \in DOMAIN times : times[i] + Window > clock}
             start == bucket.resetAt - Window
  <1>1. /\ times \in Seq(Nat) /\ bucket \in Bucket \cup {NoBucket} /\ clock \in Nat
        /\ config.limit \in Nat /\ config.limit # 0
    BY LimitType DEF RateTyping, Limiting
  <1>2. bucket # NoBucket /\ bucket \in Bucket /\ ~(bucket.resetAt <= clock)
        /\ ~(bucket.count < config.limit)
    BY <1>1 DEF RateAllowed, Spent
  <1>3. bucket.resetAt \in Nat /\ bucket.count \in Nat
    BY <1>2 DEF Bucket
  <1>4. Window <= bucket.resetAt /\ Windowed(times, start, bucket.count, config.limit)
    BY <1>2 DEF InWindow
  <1>5. \A i \in DOMAIN times : times[i] \in Nat
    BY <1>1, PassOnce
  <1> HIDE DEF times, bucket
  <1>6. start \in Nat /\ start + Window > clock
    BY <1>1, <1>2, <1>3, <1>4, WindowType
  <1> HIDE DEF start
  <1>7. Since(times, start) \subseteq recent
    BY <1>1, <1>5, <1>6, WindowType DEF Since
  <1>8. recent \in SUBSET DOMAIN times
    OBVIOUS
  <1> HIDE DEF recent
  <1>9. IsFiniteSet(recent) /\ Cardinality(recent) \in Nat
    BY <1>1, <1>8, PlacesFinite
  <1>10. Cardinality(Since(times, start)) <= Cardinality(recent)
    BY <1>7, <1>9, FS_Subset
  <1>11. Cardinality(Since(times, start)) = bucket.count
    BY <1>4 DEF Windowed
  <1>12. Cardinality(recent) >= config.limit
    BY <1>1, <1>2, <1>3, <1>9, <1>10, <1>11
  <1> QED BY <1>12 DEF recent, times

LEMMA RatedStep ==
  ASSUME RateTyping, Rated, [McpNext]_mcpVars
  PROVE  RateTyping' /\ Rated'
  <1>1. CASE Unrated
    <2>1. /\ UNCHANGED <<clock, config, buckets, admitted, setBack>>
          /\ last' = last \/ last'.answer # "too many"
      BY <1>1, UnratedKeeps
    <2>2. RateTyping'
      BY <2>1 DEF RateTyping
    <2>3. Rated'
      BY <2>1 DEF Rated, Limiting, InWindow, RefusedRightly
    <2> QED BY <2>2, <2>3
  <1>2. ASSUME NEW env \in Environments, StartServer(env) PROVE RateTyping' /\ Rated'
    <2>1. /\ UNCHANGED <<clock, buckets, admitted, setBack>>
          /\ config' = env /\ ~ConfigFails(env) /\ last'.answer # "too many"
          /\ buckets = Empty(NoBucket) /\ admitted = Empty(<<>>)
      BY <1>2 DEF StartServer, NoLast, Rated
    <2>2. \A key \in BucketKeys : /\ buckets'[key] = NoBucket
                                    /\ DOMAIN admitted'[key] = {}
      <3>1. DOMAIN <<>> = {}
        OBVIOUS
      <3> QED BY <2>1, <3>1 DEF Empty
    <2>3. config' # Down
      BY <2>1, McpAssumption DEF McpAssumption
    <2>4. RateTyping'
      BY <2>1 DEF RateTyping
    <2>5. Rated'
      BY <2>1, <2>2, <2>3 DEF Rated, InWindow, RefusedRightly
    <2> QED BY <2>4, <2>5
  <1>3. CASE StopServer
    <2>1. /\ clock' = clock /\ config' = Down /\ setBack' = FALSE
          /\ buckets' = Empty(NoBucket) /\ admitted' = Empty(<<>>)
      BY <1>3 DEF StopServer
    <2>2. <<>> \in Seq(Nat)
      OBVIOUS
    <2>3. RateTyping'
      BY <2>1, <2>2 DEF RateTyping, Empty
    <2>4. Rated'
      BY <2>1 DEF Rated, Limiting
    <2> QED BY <2>3, <2>4
  <1>4. CASE TimePasses
    <2>1. /\ clock' = clock + 1 /\ UNCHANGED <<config, buckets, admitted, setBack>>
          /\ last'.answer # "too many"
      BY <1>4 DEF TimePasses, NoLast
    <2>2. clock \in Nat /\ clock' = clock + 1
      BY <2>1 DEF RateTyping
    <2>3. RateTyping'
      <3>1. clock' \in Nat
        BY <2>2
      <3> QED BY <2>1, <3>1 DEF RateTyping
    <2>4. ASSUME Limiting, NEW key \in BucketKeys
          PROVE  InWindow(admitted[key], buckets[key], config.limit)'
      <3>1. InWindow(admitted[key], buckets[key], config.limit)
        BY <2>4 DEF Rated
      <3>2. CASE /\ buckets[key] # NoBucket /\ Window <= buckets[key].resetAt
                 /\ buckets[key].resetAt - Window <= clock
                 /\ Windowed(admitted[key], buckets[key].resetAt - Window,
                             buckets[key].count, config.limit)
        <4>1. buckets[key].resetAt \in Nat
          BY <3>2 DEF RateTyping, Bucket
        <4>2. buckets[key].resetAt - Window <= clock'
          BY <2>2, <3>2, <4>1, WindowType
        <4> QED BY <2>1, <3>2, <4>2 DEF InWindow
      <3> QED BY <2>1, <3>1, <3>2 DEF InWindow
    <2>5. Rated'
      BY <2>1, <2>4 DEF Rated, Limiting, RefusedRightly
    <2> QED BY <2>3, <2>5
  <1>6. CASE ClockSetBack
    <2>1. /\ clock' \in 0 .. clock - 1 /\ UNCHANGED <<config, buckets>>
          /\ setBack' = (config # Down) /\ admitted' = Empty(<<>>)
          /\ last'.answer # "too many"
      BY <1>6 DEF ClockSetBack, NoLast
    <2>2. <<>> \in Seq(Nat) /\ DOMAIN <<>> = {}
      OBVIOUS
    <2>3. RateTyping'
      <3>1. clock' \in Nat
        <4>1. clock \in Nat /\ clock' \in 0 .. clock - 1
          BY <2>1 DEF RateTyping
        <4> QED BY <4>1
      <3>2. admitted' \in [BucketKeys -> Seq(Nat)]
        BY <2>1, <2>2 DEF Empty
      <3>3. setBack' \in BOOLEAN
        BY <2>1
      <3> QED BY <2>1, <3>1, <3>2, <3>3 DEF RateTyping
    <2>4. ASSUME Limiting, NEW key \in BucketKeys
          PROVE  InWindow(admitted[key], buckets[key], config.limit)'
      <3> DEFINE bucket == buckets[key]
                 limit == config.limit
      <3>1. /\ InWindow(admitted[key], bucket, limit)
            /\ admitted[key] \in Seq(Nat) /\ bucket \in Bucket \cup {NoBucket}
        BY <2>4 DEF Rated, RateTyping
      <3>2. DOMAIN admitted'[key] = {} /\ setBack' /\ bucket' = bucket /\ limit' = limit
        BY <2>1, <2>2, <2>4 DEF Empty, Limiting
      <3>3. CASE bucket = NoBucket
        BY <3>2, <3>3 DEF InWindow
      <3>4. CASE bucket # NoBucket
        <4>1. bucket.count \in Nat
          BY <3>1, <3>4 DEF Bucket
        <4>2. 0 < bucket.count /\ bucket.count <= limit
          <5>1. CASE Windowed(admitted[key], bucket.resetAt - Window, bucket.count, limit)
            <6> DEFINE since == Since(admitted[key], bucket.resetAt - Window)
            <6>1. PICK i \in DOMAIN admitted[key] : admitted[key][i] = bucket.resetAt - Window
              BY <5>1 DEF Windowed
            <6>2. admitted[key][i] \in Nat
              BY <3>1, PassOnce
            <6>3. i \in since
              BY <6>1, <6>2 DEF Since
            <6>4. IsFiniteSet(since) /\ Cardinality(since) = bucket.count
              BY <3>1, <5>1, TimesType DEF Windowed
            <6>5. bucket.count # 0
              <7> HIDE DEF since
              <7> QED BY <6>3, <6>4, FS_EmptySet
            <6> QED BY <4>1, <5>1, <6>5 DEF Windowed
          <5>2. CASE Carried(admitted[key], bucket.resetAt, bucket.count, limit)
            BY <3>1, <4>1, <5>2, AllTimes DEF Carried
          <5> QED BY <3>1, <3>4, <5>1, <5>2 DEF InWindow
        <4>3. Cardinality(DOMAIN admitted'[key]) = 0
          BY <3>2, FS_EmptySet
        <4>4. Carried(admitted'[key], bucket.resetAt, bucket.count, limit)
          BY <3>2, <4>2, <4>3 DEF Carried
        <4> HIDE DEF bucket, limit
        <4>5. InWindow(admitted[key], bucket, limit)'
          BY <3>2, <3>4, <4>4 DEF InWindow
        <4> QED BY <4>5 DEF bucket, limit
      <3> QED BY <3>3, <3>4
    <2>5. Rated'
      <3>1. config = Down => buckets' = Empty(NoBucket)
        BY <2>1 DEF Rated
      <3> QED BY <2>1, <2>4, <3>1 DEF Rated, Limiting, RefusedRightly
    <2> QED BY <2>3, <2>5
  <1>5. ASSUME NEW c \in Conns, NEW call \in Calls, ReceiveHead(c, call)
        PROVE  RateTyping' /\ Rated'
    <2> DEFINE key == BucketKey(Bearer(call))
    <2>1. config # Down /\ config.transport = "http" /\ UNCHANGED <<clock, config, setBack>>
      BY <1>5, HeadCases
    <2>2. CASE UNCHANGED <<buckets, admitted>> /\ last'.answer # "too many"
      <3>1. RateTyping'
        BY <2>1, <2>2 DEF RateTyping
      <3>2. Rated'
        BY <2>1, <2>2 DEF Rated, Limiting, InWindow, RefusedRightly
      <3> QED BY <3>1, <3>2
    <2>3. CASE /\ UNCHANGED <<buckets, admitted>> /\ Authenticated(call)
               /\ ~RateAllowed(key) /\ last'.request.token = Bearer(call)
      <3>1. RateTyping'
        BY <2>1, <2>3 DEF RateTyping
      <3>2. key \in BucketKeys
        BY <2>1, <2>3, BearerKnown
      <3>3. Limiting /\ ~setBack => 
               Cardinality({i \in DOMAIN admitted[key] :
                                 admitted[key][i] + Window > clock}) >= config.limit
        <4> HIDE DEF key
        <4> QED BY <2>3, <3>2, FullBucket DEF Rated
      <3>4. Rated'
        BY <2>1, <2>3, <3>2, <3>3 DEF Rated, Limiting, InWindow, RefusedRightly
      <3> QED BY <3>1, <3>4
    <2>4. CASE /\ Authenticated(call) /\ RateAllowed(key)
               /\ buckets' = Counted(key)
               /\ admitted' = [admitted EXCEPT ![key] = Append(@, clock)]
               /\ last'.answer # "too many"
      <3>1. key \in BucketKeys
        BY <2>1, <2>4, BearerKnown
      <3> HIDE DEF key
      <3>2. /\ admitted' \in [BucketKeys -> Seq(Nat)]
            /\ admitted'[key] = Append(admitted[key], clock)
            /\ \A s \in BucketKeys : s # key => admitted'[s] = admitted[s]
        <4>1. admitted' = [admitted EXCEPT ![key] = Append(@, clock)]
          BY <2>4
        <4>2. admitted \in [BucketKeys -> Seq(Nat)] /\ clock \in Nat
          BY DEF RateTyping
        <4>3. Append(admitted[key], clock) \in Seq(Nat)
          BY <3>1, <4>2, PassOnce
        <4> QED BY <3>1, <4>1, <4>2, <4>3
      <3>3. CASE Limiting
        <4>1. /\ buckets' \in [BucketKeys -> Bucket \cup {NoBucket}]
              /\ InWindow(admitted'[key], buckets'[key], config.limit)
              /\ \A s \in BucketKeys : s # key => buckets'[s] = buckets[s]
          BY <2>4, <3>1, <3>2, <3>3, LetThrough DEF Rated
        <4>2. RateTyping'
          BY <2>1, <3>2, <4>1 DEF RateTyping
        <4>3. \A s \in BucketKeys : InWindow(admitted'[s], buckets'[s], config.limit)
          BY <3>2, <3>3, <4>1 DEF Rated
        <4>4. Rated'
          BY <2>1, <2>4, <4>3 DEF Rated, RefusedRightly, InWindow
        <4> QED BY <4>2, <4>4
      <3>4. CASE ~Limiting
        <4>1. config.limit \in Nat
          BY <2>1, LimitType
        <4>2. config.limit = 0
          BY <2>1, <3>4, <4>1 DEF Limiting
        <4>3. buckets' = buckets
          BY <2>4, <4>2 DEF Counted
        <4>4. RateTyping'
          BY <2>1, <3>2, <4>3 DEF RateTyping
        <4>5. Rated'
          BY <2>1, <3>4 DEF Rated, Limiting
        <4> QED BY <4>4, <4>5
      <3> QED BY <3>3, <3>4
    <2> QED BY <1>5, <2>2, <2>3, <2>4, HeadCases
  <1> QED BY <1>1, <1>2, <1>3, <1>4, <1>5, <1>6, RateCases

LEMMA RatedBounds == RateTyping /\ Rated => RateIsBounded
  <1> SUFFICES ASSUME RateTyping, Rated, Limiting
               PROVE  /\ \A key \in BucketKeys, t \in Clock :
                            Cardinality(Passages(key, t, t + Window)) < 2 * config.limit
                      /\ RefusedRightly
    BY DEF RateIsBounded, Limiting, RefusedRightly
  <1>1. ASSUME NEW key \in BucketKeys, NEW t \in Clock
        PROVE  Cardinality(Passages(key, t, t + Window)) < 2 * config.limit
    <2>1. t \in Nat /\ config.limit \in Nat /\ config.limit # 0
      BY WindowType, LimitType DEF Clock, Limiting
    <2>2. Passages(key, t, t + Window) = Times(admitted[key], t, t + Window)
      BY DEF Passages, Times
    <2>3. InWindow(admitted[key], buckets[key], config.limit)
      BY DEF Rated
    <2>4. CASE DOMAIN admitted[key] = {}
      <3>1. Times(admitted[key], t, t + Window) = {}
        BY <2>4 DEF Times
      <3> QED BY <2>1, <2>2, <3>1, FS_EmptySet
    <2>5. CASE Windowed(admitted[key], buckets[key].resetAt - Window, buckets[key].count,
                        config.limit)
      BY <2>1, <2>2, <2>5 DEF Windowed
    <2>6. CASE /\ buckets[key] # NoBucket
               /\ Carried(admitted[key], buckets[key].resetAt, buckets[key].count, config.limit)
      <3> DEFINE times == admitted[key]
                 some == Times(times, t, t + Window)
      <3>1. times \in Seq(Nat) /\ buckets[key].count \in Nat
        BY <2>6 DEF RateTyping, Bucket
      <3>2. some \subseteq DOMAIN times
        BY DEF Times
      <3> HIDE DEF times
      <3>3. Cardinality(some) <= Cardinality(DOMAIN times)
        BY <3>1, <3>2, AllTimes, FS_Subset
      <3>4. Cardinality(some) \in Nat /\ Cardinality(DOMAIN times) \in Nat
        BY <3>1, AllTimes, TimesType
      <3>5. /\ Cardinality(DOMAIN times) < buckets[key].count
            /\ buckets[key].count <= config.limit
        BY <2>6 DEF Carried, times
      <3> HIDE DEF some
      <3>6. Cardinality(some) < 2 * config.limit
        BY <2>1, <3>1, <3>3, <3>4, <3>5
      <3> QED BY <2>2, <3>6 DEF some, times
    <2> QED BY <2>3, <2>4, <2>5, <2>6 DEF InWindow
  <1> QED BY <1>1 DEF Rated

\* Fixed windows of any length and limit, whatever tokens share a key: never twice the limit
\* within a window's length while the clock is not set back, and, if it was not set back since
\* the start, nobody is refused before those who share the key passed the limit
\* (RateIsBounded).
THEOREM RateBounded == McpSpec => []RateIsBounded
  <1>1. McpInit => RateTyping /\ Rated
    BY RatedInit
  <1>2. RateTyping /\ Rated /\ [McpNext]_mcpVars => RateTyping' /\ Rated'
    BY RatedStep
  <1> QED BY <1>1, <1>2, RatedBounds, PTL DEF McpSpec

-----------------------------------------------------------------------------
(* Scopes: one for each core function, however it is reached *)

ScopeFor ==
    [listRecords |-> "records.read", getRecord |-> "records.read",
     assembleReadContext |-> "records.read", summarizeReadContextStatus |-> "records.read",
     previewMarkdownExport |-> "records.read", suggest |-> "records.read",
     previewMemoryDiff |-> "records.read", getReviewContext |-> "review.read",
     getRecordHistory |-> "review.read", analyzeRelationshipGraph |-> "relationships.read",
     checkLedgerConsistency |-> "consistency.read", loadPolicyConfig |-> "records.admin",
     proposeMemory |-> "proposals.write", proposeSuggestionCandidates |-> "proposals.write",
     updateRecordStatus |-> "review.write", exportMarkdown |-> "export.write",
     syncLiveAdapter |-> "live.write"]

LEMMA ToolTable == \A tool \in Tools : ToolScope[tool] = ScopeFor[ToolCore[tool]]
  <1>1. /\ DOMAIN ProposalToolScope = {"propose", "suggest", "propose_from_observation",
                                       "preview_memory_diff", "request_human_review"}
        /\ DOMAIN RecordToolScope = {"list", "inspect", "history", "context", "context_status"}
        /\ DOMAIN OtherToolScope = {"review", "relationships", "live_sync", "export_preview",
                                    "export", "check"}
    BY DEF ProposalToolScope, RecordToolScope, OtherToolScope
  <1>3. ASSUME NEW tool \in DOMAIN ProposalToolScope
        PROVE  ToolScope[tool] = ProposalToolScope[tool]
    BY <1>1 DEF ToolScope, Tools
  <1>4. ASSUME NEW tool \in DOMAIN RecordToolScope
        PROVE  ToolScope[tool] = RecordToolScope[tool]
    BY <1>1 DEF ToolScope, Tools
  <1>5. ASSUME NEW tool \in DOMAIN OtherToolScope
        PROVE  ToolScope[tool] = OtherToolScope[tool]
    BY <1>1 DEF ToolScope, Tools
  <1>6. ASSUME NEW tool \in DOMAIN ProposalToolScope
        PROVE  ToolScope[tool] = ScopeFor[ToolCore[tool]]
    BY <1>1, <1>3 DEF ProposalToolScope, ToolCore, ScopeFor
  <1>7. ASSUME NEW tool \in DOMAIN RecordToolScope
        PROVE  ToolScope[tool] = ScopeFor[ToolCore[tool]]
    BY <1>1, <1>4 DEF RecordToolScope, ToolCore, ScopeFor
  <1>8. ASSUME NEW tool \in DOMAIN OtherToolScope
        PROVE  ToolScope[tool] = ScopeFor[ToolCore[tool]]
    BY <1>1, <1>5 DEF OtherToolScope, ToolCore, ScopeFor
  <1> QED BY <1>6, <1>7, <1>8 DEF Tools

LEMMA RouteTable == \A route \in Routes : ResourceScope(route) = ScopeFor[ResourceCore[route]]
  BY DEF Routes, ResourceScope, ResourceCore, ScopeFor

\* What message leads to a core function, and what it takes.
LEMMA CoreCases ==
  ASSUME NEW message, CoreOf(message) # "none"
  PROVE  /\ message.valid /\ message.id
         /\ \/ /\ message.method = "tools/call" /\ message.target \in Tools
               /\ ~Refuses(message.target, message.args)
               /\ CoreOf(message) = ToolCore[message.target]
            \/ /\ message.method = "resources/read" /\ message.target \in Routes
               /\ CoreOf(message) = ResourceCore[message.target]
  <1>1. ~(~message.valid \/ ~message.id)
    BY DEF CoreOf
  <1>2. CASE message.method = "tools/call" /\ message.target \in Tools
    BY <1>1, <1>2 DEF CoreOf
  <1>3. CASE message.method = "resources/read" /\ message.target \in Routes
    BY <1>1, <1>3 DEF CoreOf
  <1>4. CASE /\ ~(message.method = "tools/call" /\ message.target \in Tools)
             /\ ~(message.method = "resources/read" /\ message.target \in Routes)
    BY <1>1, <1>4 DEF CoreOf
  <1> QED BY <1>2, <1>3, <1>4

\* A scope that suffices for one way to a core function suffices for all.
LEMMA OneScope ==
  ASSUME NEW message, CoreOf(message) # "none", NEW scopes,
         RequiredScopes(message) \subseteq scopes
  PROVE  \A t \in SameData(message) : ScopeOf(t) \in scopes
  <1>1. ScopeFor[CoreOf(message)] \in scopes
    <2>1. CASE /\ message.method = "tools/call" /\ message.target \in Tools
               /\ CoreOf(message) = ToolCore[message.target]
      <3>1. RequiredScopes(message) = {ToolScope[message.target]}
        BY <2>1 DEF RequiredScopes
      <3> QED BY <2>1, <3>1, ToolTable
    <2>2. CASE /\ message.method = "resources/read" /\ message.target \in Routes
               /\ CoreOf(message) = ResourceCore[message.target]
      <3>1. RequiredScopes(message) = {ResourceScope(message.target)}
        BY <2>2 DEF RequiredScopes
      <3> QED BY <2>2, <3>1, RouteTable
    <2> QED BY <2>1, <2>2, CoreCases
  <1>2. ASSUME NEW t \in SameData(message) PROVE ScopeOf(t) = ScopeFor[CoreOf(message)]
    <2>1. CASE t \in Tools
      <3>1. \/ ToolCore[t] = CoreOf(message)
            \/ ResourceCore[t] = CoreOf(message) /\ t \in Routes
        BY <1>2 DEF SameData
      <3>2. t \notin Routes
        BY <2>1 DEF Tools, ProposalToolScope, RecordToolScope, OtherToolScope, Routes
      <3> QED BY <2>1, <3>1, <3>2, ToolTable DEF ScopeOf
    <2>2. CASE t \notin Tools
      <3>1. t \in Routes /\ ResourceCore[t] = CoreOf(message)
        BY <1>2, <2>2 DEF SameData
      <3> QED BY <2>2, <3>1, RouteTable DEF ScopeOf
    <2> QED BY <2>1, <2>2
  <1> QED BY <1>1, <1>2

\* A write that is not a dry run was confirmed.
LEMMA WriteConfirmed ==
  ASSUME NEW message, CoreOf(message) \in Writes, "dryRun" \notin message.args.given
  PROVE  message.id /\ "confirm" \in message.args.given
  <1>1. CoreOf(message) # "none"
    BY DEF Writes
  <1>2. \A route \in Routes : ResourceCore[route] \notin Writes
    BY DEF Routes, ResourceCore, Writes
  <1>3. /\ message.id /\ message.target \in Tools /\ ToolCore[message.target] \in Writes
        /\ ~Refuses(message.target, message.args)
    BY <1>1, <1>2, CoreCases
  <1>4. message.target \in {"propose", "propose_from_observation", "review", "live_sync",
                            "export"}
    BY <1>3 DEF Tools, ProposalToolScope, RecordToolScope, OtherToolScope, ToolCore, Writes
  <1>5. \/ ~RefusesPropose(message.args) \/ ~RefusesObservation(message.args)
        \/ ~RefusesReview(message.args) \/ ~RefusesSync(message.args)
        \/ ~RefusesExport(message.args)
    BY <1>3, <1>4 DEF Refuses
  <1>6. Confirmed(message.args)
    BY <1>5 DEF RefusesPropose, RefusesObservation, RefusesReview, RefusesSync, RefusesExport
  <1> QED BY <1>3, <1>6 DEF Confirmed

-----------------------------------------------------------------------------
(* Requests in hand *)

Tokens == {Absent} \cup UNION {{env.tokens[i] : i \in DOMAIN env.tokens} :
                                  env \in {e \in Environments : e.tokens # Malformed}}

Requests ==
    [pc : {"idle", "receiving", "running"}, call : Calls \cup {Nothing}, token : Tokens,
     since : Nat, wrote : BOOLEAN, here : BOOLEAN]

(* the token that an HTTP request came with *)
InForce(r) ==
    /\ r.token.token = r.call.bearer
    /\ r.token.expiresAt = Never \/ r.token.expiresAt > r.since

(* What is known of a request: why it has come as far as it has. *)
Held(r) ==
    /\ r.pc # "idle" /\ r.call.transport = "http" => InForce(r)
    /\ r.pc = "running" =>
          /\ CoreOf(r.call.body) # "none"
          /\ r.call.transport = "http" => RequiredScopes(r.call.body) \subseteq r.token.scopes
    /\ r.wrote => /\ r.pc = "running" /\ CoreOf(r.call.body) \in Writes
                  /\ "dryRun" \notin r.call.body.args.given

RequestTyping == conns \in [Conns -> Requests] /\ version \in Nat

InHand == \A c \in Conns : Held(conns[c])

LEMMA NoRequestHeld == NoRequest \in Requests /\ Held(NoRequest)
  BY DEF NoRequest, Requests, Tokens, Held

\* A step that ends the requests, or moves one of them on.
LEMMA RequestsMove ==
  ASSUME RequestTyping, InHand, version' \in Nat,
         \/ UNCHANGED conns
         \/ conns' = [c \in Conns |-> NoRequest]
         \/ \E c \in Conns, r \in Requests : conns' = [conns EXCEPT ![c] = r] /\ Held(r)
  PROVE  RequestTyping' /\ InHand'
  <1>1. \A c \in Conns : \/ conns'[c] = conns[c] \/ conns'[c] = NoRequest
                         \/ conns'[c] \in Requests /\ Held(conns'[c])
    BY DEF RequestTyping
  <1>2. conns' \in [Conns -> Requests]
    BY NoRequestHeld DEF RequestTyping
  <1>3. \A c \in Conns : Held(conns'[c])
    BY <1>1, NoRequestHeld DEF InHand
  <1> QED BY <1>2, <1>3 DEF RequestTyping, InHand

\* What may be said of the request that has just ended.
Answered(request, answer) ==
    answer = "too many" \/ (request \in Requests /\ request.pc = "running" /\ Held(request))

LEMMA AnswerHolds ==
  ASSUME \/ last' = NoLast
         \/ \E request, answer : /\ last' = [request |-> request, answer |-> answer]
                                 /\ Answered(request, answer)
  PROVE  ServedWithinScope'
  <1>1. CASE last' = NoLast
    <2>1. last'.answer = "none"
      BY <1>1 DEF NoLast
    <2> QED BY <2>1 DEF ServedWithinScope
  <1>2. ASSUME NEW request, NEW answer, last' = [request |-> request, answer |-> answer],
               Answered(request, answer)
        PROVE  ServedWithinScope'
    <2>1. last'.request = request /\ last'.answer = answer
      BY <1>2
    <2>2. CASE answer = "too many"
      BY <2>1, <2>2 DEF ServedWithinScope
    <2>3. CASE answer # "too many"
      <3> DEFINE message == request.call.body
      <3>1. /\ request.call.transport = "http" => InForce(request)
            /\ CoreOf(message) # "none"
            /\ request.call.transport = "http"
               => RequiredScopes(message) \subseteq request.token.scopes
            /\ request.wrote => /\ CoreOf(message) \in Writes
                                /\ "dryRun" \notin message.args.given
        BY <1>2, <2>3 DEF Answered, Held
      <3>2. request.call.transport = "http"
            => \A t \in SameData(message) : ScopeOf(t) \in request.token.scopes
        BY <3>1, OneScope
      <3>3. request.wrote => message.id /\ "confirm" \in message.args.given
        BY <3>1, WriteConfirmed
      <3> QED BY <2>1, <3>1, <3>2, <3>3 DEF ServedWithinScope, SameData, ScopeOf, InForce
    <2> QED BY <2>2, <2>3
  <1> QED BY <1>1, <1>2

-----------------------------------------------------------------------------
(* The steps *)

Known == RateTyping /\ RequestTyping /\ InHand

\* What every step does to the requests, the count and the request told of.
Moved(c) ==
    /\ version' \in Nat
    /\ \E r \in Requests : conns' = [conns EXCEPT ![c] = r] /\ Held(r)
    /\ \/ last' = NoLast
       \/ \E request, answer : /\ last' = [request |-> request, answer |-> answer]
                               /\ Answered(request, answer)

LEMMA EndedBefore ==
  ASSUME NEW c \in Conns, NEW request, NEW answer, Ended(c, request, answer),
         request.pc # "running", RequestTyping, version' = version
  PROVE  Moved(c)
  <1>1. conns' = [conns EXCEPT ![c] = NoRequest]
    BY DEF Ended
  <1>2. \/ last' = NoLast
        \/ last' = [request |-> request, answer |-> answer] /\ Answered(request, answer)
    BY DEF Ended, Answered
  <1> QED BY <1>1, <1>2, NoRequestHeld DEF Moved, RequestTyping

LEMMA HandledMoves ==
  ASSUME NEW c \in Conns, NEW request \in Requests, HandleMessage(c, request),
         Held(request), request.pc # "running",
         request.call.transport = "http"
            => InForce(request) /\ RequiredScopes(request.call.body) \subseteq request.token.scopes,
         RequestTyping, version' = version
  PROVE  Moved(c)
  <1>1. CASE CoreOf(request.call.body) = "none"
    <2>1. Ended(c, request, Reply(request.call.body))
      BY <1>1 DEF HandleMessage
    <2> QED BY <2>1, EndedBefore
  <1>2. CASE CoreOf(request.call.body) # "none"
    <2> DEFINE r == [request EXCEPT !.pc = "running"]
    <2>1. conns' = [conns EXCEPT ![c] = r] /\ last' = NoLast
      BY <1>2 DEF HandleMessage
    <2>2. /\ r \in Requests /\ r.pc = "running" /\ r.call = request.call
          /\ r.token = request.token /\ r.since = request.since
          /\ r.wrote = request.wrote
      BY DEF Requests
    <2>3. InForce(request) => InForce(r)
      BY <2>2 DEF InForce
    <2>4. Held(r)
      <3> HIDE DEF r
      <3> QED BY <1>2, <2>2, <2>3 DEF Held
    <2> HIDE DEF r
    <2> QED BY <2>1, <2>2, <2>4 DEF Moved, RequestTyping
  <1> QED BY <1>1, <1>2

LEMMA AskedHeld ==
  ASSUME Known, NEW call \in Calls, NEW token \in Tokens
  PROVE  /\ Asked(call, token) \in Requests
         /\ Asked(call, token).pc = "idle" /\ Asked(call, token).call = call
         /\ Asked(call, token).token = token /\ Asked(call, token).since = clock
         /\ Held(Asked(call, token))
  <1>1. clock \in Nat
    BY DEF Known, RateTyping
  <1> DEFINE r == Asked(call, token)
  <1>2. /\ r \in Requests /\ r.pc = "idle" /\ r.call = call /\ r.token = token
        /\ r.since = clock /\ r.wrote = FALSE
    BY <1>1 DEF Asked, NoRequest, Requests
  <1> HIDE DEF r
  <1>3. Held(r)
    BY <1>2 DEF Held
  <1> QED BY <1>2, <1>3 DEF r

LEMMA LineMoves ==
  ASSUME Known, NEW c \in Conns, NEW call \in Calls, ReceiveLine(c, call)
  PROVE  Moved(c)
  <1> DEFINE request == Asked(call, Absent)
  <1>1. Absent \in Tokens
    BY DEF Tokens
  <1>2. /\ request \in Requests /\ request.pc = "idle" /\ request.call = call
        /\ Held(request)
    BY <1>1, AskedHeld
  <1>3. version' = version /\ call.transport = "stdio"
    BY DEF ReceiveLine
  <1>4. Ended(c, request, "error") \/ HandleMessage(c, request)
    BY DEF ReceiveLine
  <1>5. RequestTyping
    BY DEF Known
  <1> HIDE DEF request
  <1>6. CASE Ended(c, request, "error")
    BY <1>2, <1>3, <1>5, <1>6, EndedBefore
  <1>7. CASE HandleMessage(c, request)
    BY <1>2, <1>3, <1>5, <1>7, HandledMoves
  <1> QED BY <1>4, <1>6, <1>7

LEMMA BearerType ==
  ASSUME RateTyping, config # Down, config.transport = "http", NEW call
  PROVE  /\ Bearer(call) \in Tokens
         /\ Authenticated(call) => \/ Bearer(call).expiresAt = Never
                                   \/ Bearer(call).expiresAt > clock
  <1>1. config \in Environments /\ config.tokens # Malformed
    BY LimitType DEF RateTyping
  <1>2. CASE ~Authenticated(call)
    <2> DEFINE first == {i \in DOMAIN config.tokens :
                            /\ config.tokens[i].token = call.bearer
                            /\ \A j \in 1 .. i - 1 : config.tokens[j].token # call.bearer}
               chosen == CHOOSE i \in first : TRUE
    <2>1. Bearer(call) = IF first = {} THEN Absent ELSE config.tokens[chosen]
      BY DEF Bearer
    <2>2. first # {} => chosen \in DOMAIN config.tokens
      <3>1. \A i \in first : i \in DOMAIN config.tokens
        OBVIOUS
      <3>2. first # {} => chosen \in first
        <4> HIDE DEF first
        <4> QED OBVIOUS
      <3> HIDE DEF first
      <3> QED BY <3>1, <3>2
    <2> HIDE DEF first, chosen
    <2> QED BY <1>1, <1>2, <2>1, <2>2 DEF Tokens
  <1>3. CASE Authenticated(call)
    <2>1. PICK i \in DOMAIN config.tokens : Bearer(call) = config.tokens[i]
      BY <1>3, BearerKnown
    <2>2. Bearer(call).expiresAt \in Nat \cup {Never, Malformed}
      BY <1>1, <2>1, McpAssumption DEF McpAssumption
    <2>3. Bearer(call) \in Tokens
      BY <1>1, <2>1 DEF Tokens
    <2>4. ~TokenExpired(Bearer(call))
      BY <1>3 DEF Authenticated
    <2>5. clock \in Nat
      BY DEF RateTyping
    <2> QED BY <2>2, <2>3, <2>4, <2>5 DEF TokenExpired
  <1> QED BY <1>2, <1>3

LEMMA HeadMoves ==
  ASSUME Known, NEW c \in Conns, NEW call \in Calls, ReceiveHead(c, call)
  PROVE  Moved(c)
  <1> DEFINE entry == Bearer(call)
             request == Asked(call, entry)
             r == [request EXCEPT !.pc = "receiving"]
  <1>1. config # Down /\ config.transport = "http"
    BY DEF ReceiveHead, Send
  <1>2. version' = version
    BY DEF ReceiveHead
  <1>3. \/ \E answer : Ended(c, request, answer)
        \/ /\ Authenticated(call)
           /\ conns' = [conns EXCEPT ![c] = r] /\ last' = NoLast
    BY DEF ReceiveHead
  <1>4. entry \in Tokens
    BY <1>1, BearerType DEF Known
  <1>5. /\ request \in Requests /\ request.pc = "idle" /\ request.call = call
        /\ request.token = entry /\ request.since = clock
        /\ Held(request)
    BY <1>4, AskedHeld
  <1>6. RequestTyping
    BY DEF Known
  <1>7. CASE \E answer : Ended(c, request, answer)
    <2> HIDE DEF request
    <2> QED BY <1>2, <1>5, <1>6, <1>7, EndedBefore
  <1>8. CASE /\ Authenticated(call)
             /\ conns' = [conns EXCEPT ![c] = r] /\ last' = NoLast
    <2>1. /\ entry.token = call.bearer
          /\ entry.expiresAt = Never \/ entry.expiresAt > clock
      BY <1>1, <1>8, BearerKnown, BearerType DEF Known
    <2> HIDE DEF request, entry
    <2>2. /\ r \in Requests /\ r.pc = "receiving" /\ r.call = call /\ r.token = entry
          /\ r.since = clock /\ r.wrote = request.wrote
      BY <1>5 DEF Requests
    <2> HIDE DEF r
    <2>3. InForce(r)
      BY <2>1, <2>2 DEF InForce
    <2>4. Held(r)
      BY <1>5, <2>2, <2>3 DEF Held
    <2> QED BY <1>2, <1>6, <1>8, <2>2, <2>4 DEF Moved, RequestTyping
  <1> HIDE DEF request, r
  <1> QED BY <1>3, <1>7, <1>8

LEMMA BodyMoves ==
  ASSUME Known, NEW c \in Conns, ReceiveBody(c)
  PROVE  Moved(c)
  <1> DEFINE request == conns[c]
  <1>1. /\ request \in Requests /\ Held(request) /\ RequestTyping
    BY DEF Known, RequestTyping, InHand
  <1>2. version' = version /\ request.pc = "receiving"
    BY DEF ReceiveBody
  <1>3. \/ Ended(c, request, "error") \/ Ended(c, request, "forbidden")
        \/ /\ HandleMessage(c, request)
           /\ RequiredScopes(request.call.body) \subseteq request.token.scopes
    BY DEF ReceiveBody
  <1>4. request.call.transport = "http" => InForce(request)
    BY <1>1, <1>2 DEF Held
  <1> HIDE DEF request
  <1>5. CASE Ended(c, request, "error") \/ Ended(c, request, "forbidden")
    BY <1>1, <1>2, <1>5, EndedBefore
  <1>6. CASE /\ HandleMessage(c, request)
             /\ RequiredScopes(request.call.body) \subseteq request.token.scopes
    BY <1>1, <1>2, <1>4, <1>6, HandledMoves
  <1> QED BY <1>3, <1>5, <1>6

LEMMA EffectMoves ==
  ASSUME Known, NEW c \in Conns, TakeEffect(c)
  PROVE  Moved(c)
  <1> DEFINE request == conns[c]
             r == [request EXCEPT !.wrote = TRUE]
  <1>1. /\ request \in Requests /\ Held(request) /\ conns \in [Conns -> Requests]
        /\ version \in Nat
    BY DEF Known, RequestTyping, InHand
  <1>2. version' \in Nat /\ last' = NoLast
    BY <1>1 DEF TakeEffect
  <1>3. /\ request.pc = "running" /\ CoreOf(request.call.body) \in Writes
        /\ "dryRun" \notin request.call.body.args.given
    BY DEF TakeEffect, Pending, Core
  <1>4. conns' = [conns EXCEPT ![c] = r]
    BY <1>1 DEF TakeEffect
  <1> HIDE DEF request
  <1>5. /\ r \in Requests /\ r.pc = request.pc /\ r.call = request.call
        /\ r.token = request.token /\ r.since = request.since
    BY <1>1 DEF Requests
  <1> HIDE DEF r
  <1>6. InForce(request) => InForce(r)
    BY <1>5 DEF InForce
  <1>7. Held(r)
    BY <1>1, <1>3, <1>5, <1>6 DEF Held
  <1> QED BY <1>2, <1>4, <1>5, <1>7 DEF Moved

\* A request that ended while its core function ran.
LEMMA RespondMoves ==
  ASSUME Known, NEW c \in Conns, Respond(c) \/ RespondFailed(c)
  PROVE  Moved(c)
  <1>1. version' \in Nat /\ Answered(conns[c], "lost") /\ \A answer : Answered(conns[c], answer)
    BY DEF Known, RequestTyping, InHand, Respond, RespondFailed, Answered
  <1>2. PICK answer : Ended(c, conns[c], answer)
    BY DEF Respond, RespondFailed
  <1>3. conns' = [conns EXCEPT ![c] = NoRequest]
    BY <1>2 DEF Ended
  <1>4. last' = NoLast \/ last' = [request |-> conns[c], answer |-> answer]
    BY <1>2 DEF Ended
  <1> QED BY <1>1, <1>3, <1>4, NoRequestHeld DEF Moved

LEMMA LeaveMoves ==
  ASSUME Known, NEW c \in Conns, ClientLeaves(c)
  PROVE  Moved(c)
  <1> DEFINE request == conns[c]
             r == [request EXCEPT !.here = FALSE]
  <1>1. /\ request \in Requests /\ Held(request) /\ RequestTyping
        /\ conns \in [Conns -> Requests]
    BY DEF Known, RequestTyping, InHand
  <1>2. version' = version
    BY DEF ClientLeaves
  <1>3. \/ Ended(c, request, "lost") /\ request.pc # "running"
        \/ conns' = [conns EXCEPT ![c].here = FALSE] /\ last' = NoLast
    BY DEF ClientLeaves
  <1>4. CASE Ended(c, request, "lost") /\ request.pc # "running"
    <2> HIDE DEF request
    <2> QED BY <1>1, <1>2, <1>4, EndedBefore
  <1>5. CASE conns' = [conns EXCEPT ![c].here = FALSE] /\ last' = NoLast
    <2>1. conns' = [conns EXCEPT ![c] = r]
      BY <1>1, <1>5
    <2> HIDE DEF request
    <2>2. /\ r \in Requests /\ r.pc = request.pc /\ r.call = request.call
          /\ r.token = request.token /\ r.since = request.since
          /\ r.wrote = request.wrote
      BY <1>1 DEF Requests
    <2> HIDE DEF r
    <2>3. InForce(request) => InForce(r)
      BY <2>2 DEF InForce
    <2>4. Held(r)
      BY <1>1, <2>2, <2>3 DEF Held
    <2> QED BY <1>1, <1>2, <1>5, <2>1, <2>2, <2>4 DEF Moved, RequestTyping
  <1> HIDE DEF request, r
  <1> QED BY <1>3, <1>4, <1>5

LEMMA KnownInit == McpInit => RequestTyping /\ InHand /\ ServedWithinScope
  <1> SUFFICES ASSUME McpInit PROVE RequestTyping /\ InHand /\ ServedWithinScope
    OBVIOUS
  <1>1. conns = [c \in Conns |-> NoRequest] /\ version = 0 /\ last = NoLast
    BY DEF McpInit
  <1>2. RequestTyping
    BY <1>1, NoRequestHeld DEF RequestTyping
  <1>3. InHand
    BY <1>1, NoRequestHeld DEF InHand
  <1>4. last.answer = "none"
    BY <1>1 DEF NoLast
  <1> QED BY <1>2, <1>3, <1>4 DEF ServedWithinScope

LEMMA MovesOrNot ==
  ASSUME Known, [McpNext]_mcpVars
  PROVE  \/ \E c \in Conns : Moved(c)
         \/ /\ version' = version
            /\ conns' = conns \/ conns' = [c \in Conns |-> NoRequest]
            /\ last' = last \/ last' = NoLast
  <1>1. CASE \E c \in Conns : Serve(c) \/ ClientLeaves(c)
    BY <1>1, BodyMoves, EffectMoves, RespondMoves, LeaveMoves DEF Serve
  <1>2. CASE \E c \in Conns, call \in Calls : ReceiveLine(c, call) \/ ReceiveHead(c, call)
    BY <1>2, LineMoves, HeadMoves
  <1>3. CASE \E env \in Environments : StartServer(env)
    BY <1>3 DEF StartServer
  <1>4. CASE StopServer
    BY <1>4 DEF StopServer
  <1>5. CASE TimePasses \/ ClockSetBack
    BY <1>5 DEF TimePasses, ClockSetBack
  <1>6. CASE UNCHANGED mcpVars
    BY <1>6 DEF mcpVars
  <1> QED BY <1>1, <1>2, <1>3, <1>4, <1>5, <1>6 DEF McpNext

LEMMA KnownStep ==
  ASSUME Known, ServedWithinScope, [McpNext]_mcpVars
  PROVE  RequestTyping' /\ InHand' /\ ServedWithinScope'
  <1>1. CASE \E c \in Conns : Moved(c)
    <2>1. RequestTyping' /\ InHand'
      BY <1>1, RequestsMove DEF Moved, Known
    <2>2. ServedWithinScope'
      BY <1>1, AnswerHolds DEF Moved
    <2> QED BY <2>1, <2>2
  <1>2. CASE /\ version' = version
             /\ conns' = conns \/ conns' = [c \in Conns |-> NoRequest]
             /\ last' = last \/ last' = NoLast
    <2>1. RequestTyping' /\ InHand'
      BY <1>2, RequestsMove DEF Known, RequestTyping
    <2>2. CASE last' = NoLast
      BY <2>1, <2>2, AnswerHolds
    <2>3. CASE last' = last
      <3>1. ServedWithinScope'
        BY <2>3 DEF ServedWithinScope, SameData, ScopeOf
      <3> QED BY <2>1, <3>1
    <2> QED BY <1>2, <2>1, <2>2, <2>3
  <1> QED BY <1>1, <1>2, MovesOrNot

\* Whatever is asked, with whatever tokens: data is given, and the store written, within
\* the scopes of a token in force (ServedWithinScope).
THEOREM ServedInScope == McpSpec => []ServedWithinScope
  <1>1. McpInit => RateTyping /\ Rated /\ RequestTyping /\ InHand /\ ServedWithinScope
    BY RatedInit, KnownInit
  <1>2. RateTyping /\ Rated /\ RequestTyping /\ InHand /\ ServedWithinScope
        /\ [McpNext]_mcpVars
        => RateTyping' /\ Rated' /\ RequestTyping' /\ InHand' /\ ServedWithinScope'
    BY RatedStep, KnownStep DEF Known
  <1> QED BY <1>1, <1>2, PTL DEF McpSpec

-----------------------------------------------------------------------------
(* Types: no more writes than calls, for each call writes at most once *)

(* connections whose call may yet write *)
Waiting == {c \in Conns : conns[c].pc # "idle" /\ ~conns[c].wrote}

Levels == {"warning", "debug", "error"}

Orderly ==
    /\ clock \in Clock
    /\ session \in [initialized : BOOLEAN, level : Levels]
    /\ sent \in 0 .. MaxCalls
    /\ IsFiniteSet(Waiting) /\ version + Cardinality(Waiting) <= sent
    /\ \A s \in BucketKeys : buckets[s] # NoBucket => buckets[s].count \in 1 .. sent

\* A session keeps its shape.
LEMMA SessionType ==
  ASSUME session \in [initialized : BOOLEAN, level : Levels], NEW message
  PROVE  SessionAfter(message) \in [initialized : BOOLEAN, level : Levels]
  <1> DEFINE begun == [session EXCEPT !.initialized = TRUE]
             again == [session EXCEPT !.initialized = FALSE]
             level == [session EXCEPT !.level = message.target]
             A == message.valid /\ message.method = "notifications/initialized"
             B == message.valid /\ message.id /\ message.method = "initialize"
             C == /\ message.valid /\ message.id /\ message.method = "logging/setLevel"
                  /\ message.target \in {"debug", "error"}
  <1>1. SessionAfter(message) = CASE A -> begun [] B -> again [] C -> level [] OTHER -> session
    BY DEF SessionAfter
  <1>2. /\ begun \in [initialized : BOOLEAN, level : Levels]
        /\ again \in [initialized : BOOLEAN, level : Levels]
        /\ C => level \in [initialized : BOOLEAN, level : Levels]
    BY DEF Levels
  <1>3. (A => ~B /\ ~C) /\ (B => ~C)
    OBVIOUS
  <1> HIDE DEF begun, again, level, A, B, C
  <1> QED BY <1>1, <1>2, <1>3

\* How the calls that may write change with the request of one connection.
LEMMA WaitingMoves ==
  ASSUME RequestTyping, IsFiniteSet(Waiting), NEW c \in Conns, NEW r,
         conns' = [conns EXCEPT ![c] = r]
  PROVE  /\ Cardinality(Waiting) \in Nat /\ IsFiniteSet(Waiting')
         /\ Cardinality(Waiting') \in Nat /\ Cardinality(Waiting') <= Cardinality(Waiting) + 1
         /\ c \in Waiting \/ r.pc = "idle" => Cardinality(Waiting') <= Cardinality(Waiting)
         /\ c \in Waiting /\ r.wrote => Cardinality(Waiting') + 1 <= Cardinality(Waiting)
         /\ conns[c].wrote /\ r.wrote => Cardinality(Waiting') <= Cardinality(Waiting)
  <1>1. /\ conns'[c] = r /\ \A d \in Conns : d # c => conns'[d] = conns[d]
    BY DEF RequestTyping
  <1>2. /\ Waiting' \subseteq Waiting \cup {c}
        /\ r.pc = "idle" \/ r.wrote => Waiting' \subseteq Waiting \ {c}
    BY <1>1 DEF Waiting
  <1>3. /\ IsFiniteSet(Waiting \cup {c}) /\ IsFiniteSet(Waiting \ {c})
        /\ Cardinality(Waiting \cup {c}) = IF c \in Waiting THEN Cardinality(Waiting)
                                           ELSE Cardinality(Waiting) + 1
        /\ Cardinality(Waiting \ {c}) = IF c \in Waiting THEN Cardinality(Waiting) - 1
                                        ELSE Cardinality(Waiting)
    BY FS_AddElement, FS_RemoveElement
  <1>4. /\ IsFiniteSet(Waiting') /\ Cardinality(Waiting') <= Cardinality(Waiting \cup {c})
        /\ r.pc = "idle" \/ r.wrote => Cardinality(Waiting') <= Cardinality(Waiting \ {c})
    BY <1>2, <1>3, FS_Subset
  <1>5. Cardinality(Waiting) \in Nat /\ Cardinality(Waiting') \in Nat
    BY <1>4, FS_CardinalityType
  <1> HIDE DEF Waiting
  <1> QED BY <1>3, <1>4, <1>5

\* The writes and the calls that may write are no more than the calls.
Balanced == IsFiniteSet(Waiting) /\ version + Cardinality(Waiting) <= sent

LEMMA Sending ==
  ASSUME Known, Balanced, sent \in Nat, NEW c \in Conns, Moved(c),
         version' = version, sent' = sent + 1
  PROVE  Balanced'
  <1>1. PICK r : conns' = [conns EXCEPT ![c] = r]
    BY DEF Moved
  <1>2. /\ IsFiniteSet(Waiting') /\ Cardinality(Waiting) \in Nat /\ Cardinality(Waiting') \in Nat
        /\ Cardinality(Waiting') <= Cardinality(Waiting) + 1
    BY <1>1, WaitingMoves DEF Known, Balanced
  <1>3. version \in Nat /\ version + Cardinality(Waiting) <= sent
    BY DEF Known, RequestTyping, Balanced
  <1> HIDE DEF Waiting
  <1>4. version' + Cardinality(Waiting') <= sent'
    BY <1>2, <1>3
  <1> QED BY <1>2, <1>4 DEF Balanced

\* Other steps of a request: a call that could write still can, or has, or is over.
LEMMA Serving ==
  ASSUME Known, Balanced, sent \in Nat, NEW c \in Conns, Serve(c) \/ ClientLeaves(c)
  PROVE  Balanced' /\ sent' = sent
  <1>1. version \in Nat /\ version + Cardinality(Waiting) <= sent
        /\ conns \in [Conns -> Requests] /\ RequestTyping
    BY DEF Known, RequestTyping, Balanced
  <1>2. /\ conns[c].wrote \in BOOLEAN
        /\ conns[c].wrote => conns[c].pc = "running"
    BY DEF Known, RequestTyping, InHand, Held, Requests
  <1>3. CASE TakeEffect(c)
    <2> DEFINE r == [conns[c] EXCEPT !.wrote = TRUE]
    <2>1. conns' = [conns EXCEPT ![c] = r]
      BY <1>1, <1>3 DEF TakeEffect
    <2>2. r.wrote
      BY <1>1 DEF Requests
    <2>3. c \in Waiting /\ version' = version + 1 /\ sent' = sent
      BY <1>3 DEF TakeEffect, Pending, Waiting
    <2> HIDE DEF r
    <2>4. /\ IsFiniteSet(Waiting') /\ Cardinality(Waiting) \in Nat /\ Cardinality(Waiting') \in Nat
          /\ Cardinality(Waiting') + 1 <= Cardinality(Waiting)
      BY <1>1, <2>1, <2>2, <2>3, WaitingMoves DEF Balanced
    <2> HIDE DEF Waiting
    <2>5. version' + Cardinality(Waiting') <= sent'
      BY <1>1, <2>3, <2>4
    <2> QED BY <2>3, <2>4, <2>5 DEF Balanced
  <1>4. ASSUME version' = version, sent' = sent,
               \E r : /\ conns' = [conns EXCEPT ![c] = r]
                      /\ \/ r.pc = "idle"
                         \/ conns[c].pc # "idle" /\ r.wrote = conns[c].wrote
        PROVE  Balanced' /\ sent' = sent
    <2>1. PICK r : /\ conns' = [conns EXCEPT ![c] = r]
                   /\ \/ r.pc = "idle"
                      \/ conns[c].pc # "idle" /\ r.wrote = conns[c].wrote
      BY <1>4
    <2>2. r.pc = "idle" \/ c \in Waiting \/ (conns[c].wrote /\ r.wrote)
      BY <2>1 DEF Waiting
    <2>3. /\ IsFiniteSet(Waiting') /\ Cardinality(Waiting) \in Nat /\ Cardinality(Waiting') \in Nat
          /\ Cardinality(Waiting') <= Cardinality(Waiting)
      BY <1>1, <2>1, <2>2, WaitingMoves DEF Balanced
    <2> HIDE DEF Waiting
    <2>4. version' + Cardinality(Waiting') <= sent'
      BY <1>1, <1>4, <2>3
    <2> QED BY <1>4, <2>3, <2>4 DEF Balanced
  <1>5. ASSUME NEW request, NEW answer, Ended(c, request, answer)
        PROVE  \E r : conns' = [conns EXCEPT ![c] = r] /\ r.pc = "idle"
    <2>1. conns' = [conns EXCEPT ![c] = NoRequest] /\ NoRequest.pc = "idle"
      BY <1>5 DEF Ended, NoRequest
    <2> QED BY <2>1
  <1>6. CASE ReceiveBody(c)
    <2> DEFINE r == [conns[c] EXCEPT !.pc = "running"]
    <2>1. /\ version' = version /\ sent' = sent /\ conns[c].pc = "receiving"
          /\ \/ \E request, answer : Ended(c, request, answer)
             \/ conns' = [conns EXCEPT ![c] = r]
      BY <1>6 DEF ReceiveBody, HandleMessage
    <2>2. r.wrote = conns[c].wrote
      BY <1>1 DEF Requests
    <2> HIDE DEF r
    <2>3. \E q : /\ conns' = [conns EXCEPT ![c] = q]
                 /\ q.pc = "idle" \/ (conns[c].pc # "idle" /\ q.wrote = conns[c].wrote)
      BY <1>5, <2>1, <2>2
    <2> QED BY <1>4, <2>1, <2>3
  <1>7. CASE Respond(c)
    <2>1. /\ version' = version /\ sent' = sent
          /\ \E request, answer : Ended(c, request, answer)
      BY <1>7 DEF Respond
    <2> QED BY <1>4, <1>5, <2>1
  <1>8. CASE RespondFailed(c)
    <2>1. /\ version' = version /\ sent' = sent
          /\ \E request, answer : Ended(c, request, answer)
      BY <1>8 DEF RespondFailed
    <2> QED BY <1>4, <1>5, <2>1
  <1>9. CASE ClientLeaves(c)
    <2> DEFINE r == [conns[c] EXCEPT !.here = FALSE]
    <2>1. /\ version' = version /\ sent' = sent /\ conns[c].pc # "idle"
          /\ \/ \E request, answer : Ended(c, request, answer)
             \/ conns' = [conns EXCEPT ![c].here = FALSE]
      BY <1>9 DEF ClientLeaves
    <2>2. r.wrote = conns[c].wrote
      BY <1>1 DEF Requests
    <2>3. [conns EXCEPT ![c].here = FALSE] = [conns EXCEPT ![c] = r]
      BY <1>1
    <2> HIDE DEF r
    <2>4. \E q : /\ conns' = [conns EXCEPT ![c] = q]
                 /\ q.pc = "idle" \/ (conns[c].pc # "idle" /\ q.wrote = conns[c].wrote)
      BY <1>5, <2>1, <2>2, <2>3
    <2> QED BY <1>4, <2>1, <2>4
  <1> QED BY <1>3, <1>6, <1>7, <1>8, <1>9 DEF Serve

\* A passage is counted once, and no more passages are counted than calls were sent.
LEMMA BucketsSent ==
  ASSUME RateTyping, sent \in Nat, sent' = sent + 1,
         \A s \in BucketKeys : buckets[s] # NoBucket => buckets[s].count \in 1 .. sent,
         NEW c \in Conns, NEW call \in Calls, ReceiveHead(c, call)
  PROVE  \A s \in BucketKeys : buckets'[s] # NoBucket => buckets'[s].count \in 1 .. sent'
  <1> DEFINE key == BucketKey(Bearer(call))
             bucket == buckets[key]
             opened == [count |-> 1, resetAt |-> clock + Window]
             joined == [bucket EXCEPT !.count = @ + 1]
  <1>1. CASE buckets' = buckets
    BY <1>1
  <1>2. CASE /\ Authenticated(call) /\ buckets' = Counted(key)
    <2>1. key \in BucketKeys /\ config.limit \in Nat
      BY <1>2, HeadCases, BearerKnown, LimitType
    <2>2. opened.count = 1
      OBVIOUS
    <2>3. ~Spent(key) => bucket # NoBucket /\ bucket \in Bucket
      BY <2>1 DEF Spent, RateTyping
    <2>4. ~Spent(key) => joined.count = bucket.count + 1 /\ bucket.count \in 1 .. sent
      BY <2>1, <2>3 DEF Bucket
    <2>5. \/ buckets' = buckets
          \/ Spent(key) /\ buckets' = [buckets EXCEPT ![key] = opened]
          \/ ~Spent(key) /\ buckets' = [buckets EXCEPT ![key] = joined]
      BY <1>2 DEF Counted
    <2> HIDE DEF key, bucket, opened, joined
    <2>6. \A s \in BucketKeys :
              \/ buckets'[s] = buckets[s] \/ buckets'[s] = opened
              \/ ~Spent(key) /\ buckets'[s] = joined
      BY <2>1, <2>5 DEF RateTyping
    <2> QED BY <2>2, <2>4, <2>6
  <1> HIDE DEF key
  <1> QED BY <1>1, <1>2, HeadCases DEF key

\* What a step does to the clock, the session and the number of calls.
LEMMA PlainTypes ==
  ASSUME Known, Orderly, [McpNext]_mcpVars
  PROVE  /\ clock' \in Clock /\ session' \in [initialized : BOOLEAN, level : Levels]
         /\ sent' \in 0 .. MaxCalls
  <1>1. MaxCalls \in Nat /\ MaxClock \in Nat
    BY McpAssumption DEF McpAssumption
  <1>2. ASSUME NEW c \in Conns, Serve(c) \/ ClientLeaves(c) \/ \E call \in Calls : ReceiveLine(c, call)
        PROVE  session' = session \/ \E message : session' = SessionAfter(message)
    BY <1>2 DEF Serve, ReceiveBody, TakeEffect, Respond, RespondFailed, ClientLeaves,
                ReceiveLine, HandleMessage
  <1>3. session' \in [initialized : BOOLEAN, level : Levels]
    <2>1. \/ session' = session \/ session' = NewSession
          \/ \E message : session' = SessionAfter(message)
      BY <1>2 DEF McpNext, mcpVars, ReceiveHead, StartServer, StopServer, TimePasses, ClockSetBack
    <2>2. NewSession \in [initialized : BOOLEAN, level : Levels]
      BY DEF NewSession, Levels
    <2> QED BY <2>1, <2>2, SessionType DEF Orderly
  <1>4. \/ clock' = clock \/ (clock < MaxClock /\ clock' = clock + 1)
        \/ clock' \in 0 .. clock - 1
    <2>1. CASE Unrated
      BY <2>1, UnratedKeeps
    <2>2. CASE ~Unrated
      BY <2>2, RateCases DEF ReceiveHead, StartServer, StopServer, TimePasses, ClockSetBack
    <2> QED BY <2>1, <2>2
  <1>5. clock' \in Clock
    BY <1>1, <1>4 DEF Orderly, Clock
  <1>6. sent' = sent \/ (sent < MaxCalls /\ sent' = sent + 1)
    <2>1. ASSUME NEW c \in Conns, Serve(c) \/ ClientLeaves(c) PROVE sent' = sent
      BY <2>1 DEF Serve, ReceiveBody, TakeEffect, Respond, RespondFailed, ClientLeaves
    <2>2. ASSUME NEW c \in Conns, NEW call \in Calls, ReceiveLine(c, call) \/ ReceiveHead(c, call)
          PROVE  sent < MaxCalls /\ sent' = sent + 1
      BY <2>2 DEF ReceiveLine, ReceiveHead, Send
    <2>3. CASE (\E env \in Environments : StartServer(env)) \/ StopServer \/ TimePasses
               \/ ClockSetBack \/ UNCHANGED mcpVars
      BY <2>3 DEF StartServer, StopServer, TimePasses, ClockSetBack, mcpVars
    <2> QED BY <2>1, <2>2, <2>3 DEF McpNext
  <1> QED BY <1>1, <1>3, <1>5, <1>6 DEF Orderly

LEMMA OrderlyStep ==
  ASSUME Known, Orderly, [McpNext]_mcpVars
  PROVE  Orderly'
  <1> DEFINE Within(b, n) == \A s \in BucketKeys : b[s] # NoBucket => b[s].count \in 1 .. n
  <1>1. sent \in Nat /\ Balanced /\ Within(buckets, sent) /\ version \in Nat
        /\ Cardinality(Waiting) \in Nat
    BY McpAssumption, FS_CardinalityType
       DEF Orderly, McpAssumption, Balanced, Known, RequestTyping
  <1>2. ASSUME NEW c \in Conns, Serve(c) \/ ClientLeaves(c)
        PROVE  Balanced' /\ Within(buckets', sent')
    <2>1. Balanced' /\ sent' = sent
      BY <1>1, <1>2, Serving
    <2>2. buckets' = buckets
      BY <1>2, UnratedKeeps DEF Unrated
    <2> QED BY <1>1, <2>1, <2>2
  <1>3. ASSUME NEW c \in Conns, NEW call \in Calls, ReceiveLine(c, call)
        PROVE  Balanced' /\ Within(buckets', sent')
    <2>1. sent' = sent + 1 /\ version' = version /\ buckets' = buckets
      BY <1>3 DEF ReceiveLine, Send
    <2>2. Balanced'
      BY <1>1, <1>3, <2>1, LineMoves, Sending
    <2>3. Within(buckets', sent')
      BY <1>1, <2>1
    <2> QED BY <2>2, <2>3
  <1>4. ASSUME NEW c \in Conns, NEW call \in Calls, ReceiveHead(c, call)
        PROVE  Balanced' /\ Within(buckets', sent')
    <2>1. sent' = sent + 1 /\ version' = version
      BY <1>4 DEF ReceiveHead, Send
    <2>2. Balanced'
      BY <1>1, <1>4, <2>1, HeadMoves, Sending
    <2>3. Within(buckets', sent')
      BY <1>1, <1>4, <2>1, BucketsSent DEF Known
    <2> QED BY <2>2, <2>3
  <1>5. ASSUME StopServer PROVE Balanced' /\ Within(buckets', sent')
    <2>1. /\ version' = version /\ sent' = sent /\ buckets' = Empty(NoBucket)
          /\ conns' = [c \in Conns |-> NoRequest]
      BY <1>5 DEF StopServer
    <2>2. Waiting' = {}
      BY <2>1 DEF Waiting, NoRequest
    <2>3. IsFiniteSet(Waiting') /\ Cardinality(Waiting') = 0
      BY <2>2, FS_EmptySet
    <2>4. version' + Cardinality(Waiting') <= sent'
      BY <1>1, <2>1, <2>3 DEF Balanced
    <2>5. Within(buckets', sent')
      BY <2>1 DEF Empty
    <2> QED BY <2>3, <2>4, <2>5 DEF Balanced
  <1>6. ASSUME (\E env \in Environments : StartServer(env)) \/ TimePasses \/ ClockSetBack
               \/ UNCHANGED mcpVars
        PROVE  Balanced' /\ Within(buckets', sent')
    <2>1. UNCHANGED <<version, sent, buckets, conns>>
      BY <1>6 DEF StartServer, TimePasses, ClockSetBack, mcpVars
    <2> QED BY <1>1, <2>1 DEF Balanced, Waiting
  <1>7. Balanced' /\ Within(buckets', sent')
    BY <1>2, <1>3, <1>4, <1>5, <1>6 DEF McpNext
  <1> QED BY <1>7, PlainTypes DEF Orderly, Balanced

LEMMA OrderlyInit == McpInit => Orderly
  <1> SUFFICES ASSUME McpInit PROVE Orderly
    OBVIOUS
  <1>1. /\ clock = 0 /\ session = NewSession /\ sent = 0 /\ version = 0
        /\ buckets = Empty(NoBucket) /\ conns = [c \in Conns |-> NoRequest]
    BY DEF McpInit
  <1>2. Waiting = {}
    BY <1>1 DEF Waiting, NoRequest
  <1>3. IsFiniteSet(Waiting) /\ Cardinality(Waiting) = 0
    BY <1>2, FS_EmptySet
  <1>4. clock \in Clock /\ sent \in 0 .. MaxCalls
    BY <1>1, McpAssumption DEF McpAssumption, Clock
  <1>5. session \in [initialized : BOOLEAN, level : Levels]
    BY <1>1 DEF NewSession, Levels
  <1>6. \A s \in BucketKeys : buckets[s] = NoBucket
    BY <1>1 DEF Empty
  <1> QED BY <1>1, <1>3, <1>4, <1>5, <1>6 DEF Orderly

LEMMA OrderlyTypes ==
  ASSUME RateTyping, RequestTyping, Orderly
  PROVE  McpTypeOK
  <1>1. /\ clock \in Clock /\ config \in Environments \cup {Down}
        /\ session \in [initialized : BOOLEAN, level : {"warning", "debug", "error"}]
    BY DEF RateTyping, Orderly, Levels
  <1>2. MaxCalls \in Nat /\ sent \in 0 .. MaxCalls
    BY McpAssumption DEF McpAssumption, Orderly
  <1>3. \A s \in BucketKeys : buckets[s] = NoBucket \/ buckets[s].count \in 1 .. MaxCalls
    BY <1>2 DEF Orderly
  <1>4. \A c \in Conns : conns[c].pc \in {"idle", "receiving", "running"}
    BY DEF RequestTyping, Requests
  <1>5. version \in 0 .. sent /\ setBack \in BOOLEAN
    <2>1. /\ version \in Nat /\ setBack \in BOOLEAN
          /\ Cardinality(Waiting) \in Nat /\ version + Cardinality(Waiting) <= sent
      BY FS_CardinalityType DEF RateTyping, RequestTyping, Orderly
    <2> HIDE DEF Waiting
    <2> QED BY <1>2, <2>1
  <1> QED BY <1>1, <1>2, <1>3, <1>4, <1>5 DEF McpTypeOK

\* However many connections there are: the requests, buckets and counts have their shapes,
\* and there are no more writes than calls, for none takes effect twice (McpTypeOK).
THEOREM WellTypedServer == McpSpec => []McpTypeOK
  <1>1. McpInit => RateTyping /\ Rated /\ RequestTyping /\ InHand /\ ServedWithinScope /\ Orderly
    BY RatedInit, KnownInit, OrderlyInit
  <1>2. RateTyping /\ Rated /\ RequestTyping /\ InHand /\ ServedWithinScope /\ Orderly
        /\ [McpNext]_mcpVars
        => RateTyping' /\ Rated' /\ RequestTyping' /\ InHand' /\ ServedWithinScope' /\ Orderly'
    BY RatedStep, KnownStep, OrderlyStep DEF Known
  <1>3. RateTyping /\ RequestTyping /\ Orderly => McpTypeOK
    BY OrderlyTypes
  <1> QED BY <1>1, <1>2, <1>3, PTL DEF McpSpec

=============================================================================
