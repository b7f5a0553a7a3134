------------------------- MODULE SectorCacheProofs -------------------------
(***************************************************************************)
(* Proofs about SectorCache for any number of threads and sectors and any  *)
(* capacity.  A cached copy can be stale only for the two reasons          *)
(* StaleOnlyByRace names.  The invariant that carries the proof adds what  *)
(* a thread in the middle of a read knows: unless a write overtook it, its *)
(* buffer is what the device holds.                                        *)
(***************************************************************************)
EXTENDS SectorCache, TLAPS

FetchedIsCurrent ==
  \A t \in Thread : pc[t] = "fill" /\ fresh[t] => buf[t] = disk[sector[t]]

CacheInv == TypeOK /\ OneCopyEach /\ FetchedIsCurrent /\ StaleOnlyByRace

-----------------------------------------------------------------------------
(* The sequence operators. *)

\* Every line of a cache is about a sector.
LEMMA LinesTyped ==
  ASSUME NEW c \in Seq(CacheLine)
  PROVE  /\ DOMAIN c = 1 .. Len(c) /\ Len(c) \in Nat
         /\ \A k \in DOMAIN c : c[k] \in CacheLine /\ c[k].sec \in Sector /\ c[k].data \in Nat
<1>1. DOMAIN c = 1 .. Len(c) /\ Len(c) \in Nat
  OBVIOUS
<1>2. \A k \in 1 .. Len(c) : c[k] \in CacheLine
  OBVIOUS
<1>3. \A x \in CacheLine : x.sec \in Sector /\ x.data \in Nat
  BY DEF CacheLine
<1> QED
  BY <1>1, <1>2, <1>3

\* The position of a cached sector is one of its lines.
LEMMA PositionFound ==
  ASSUME NEW s \in Sector, Cached(s)
  PROVE  Position(s) \in DOMAIN cache /\ cache[Position(s)].sec = s
BY DEF Cached, Position

\* Taking a sector out leaves lines of the cache that are not about it, each
\* still only once.
LEMMA WithoutLines ==
  ASSUME TypeOK, OneCopyEach, NEW s \in Sector
  PROVE  /\ Without(s) \in Seq(CacheLine)
         /\ Len(Without(s)) <= Len(cache)
         /\ \A i \in DOMAIN Without(s) :
              /\ Without(s)[i].sec # s
              /\ \E k \in DOMAIN cache : Without(s)[i] = cache[k]
         /\ \A i, k \in DOMAIN Without(s) : Without(s)[i].sec = Without(s)[k].sec => i = k
<1>1. CASE Cached(s)
  <2> DEFINE p == Position(s)
             w == [k \in 1 .. (Len(cache) - 1) |-> cache[IF k < p THEN k ELSE k + 1]]
  <2>1. p \in 1 .. Len(cache) /\ cache[p].sec = s
    BY <1>1, PositionFound DEF TypeOK
  <2>2. Without(s) = w
    BY <1>1 DEF Without
  <2>3. Len(cache) \in Nat /\ \A k \in 1 .. Len(cache) : cache[k] \in CacheLine
    BY DEF TypeOK
  <2> HIDE DEF p
  <2>4. w \in Seq(CacheLine) /\ Len(w) = Len(cache) - 1 /\ DOMAIN w = 1 .. (Len(cache) - 1)
    BY <2>1, <2>3
  <2>5. \A i \in DOMAIN w :
           /\ w[i].sec # s
           /\ \E k \in DOMAIN cache : w[i] = cache[k]
    BY <2>1, <2>3, <2>4 DEF OneCopyEach, TypeOK
  <2>6. \A i, k \in DOMAIN w : w[i].sec = w[k].sec => i = k
    BY <2>1, <2>3, <2>4 DEF OneCopyEach, TypeOK
  <2> HIDE DEF w
  <2>7. Len(w) <= Len(cache)
    BY <2>3, <2>4
  <2> QED
    BY <2>2, <2>4, <2>5, <2>6, <2>7
<1>2. CASE ~Cached(s)
  BY <1>2 DEF Without, Cached, TypeOK, OneCopyEach
<1> QED
  BY <1>1, <1>2

\* Putting a line in front gives a cache within its capacity, made of that
\* line and of others given.
LEMMA FrontLines ==
  ASSUME NEW line \in CacheLine, NEW c \in Seq(CacheLine), Capacity \in Nat \ {0},
         \A i \in DOMAIN c : c[i].sec # line.sec,
         \A i, k \in DOMAIN c : c[i].sec = c[k].sec => i = k
  PROVE  /\ Front(line, c) \in Seq(CacheLine)
         /\ Len(Front(line, c)) <= Capacity
         /\ \A i \in DOMAIN Front(line, c) :
              \/ Front(line, c)[i] = line
              \/ \E k \in DOMAIN c : Front(line, c)[i] = c[k]
         /\ \A i, k \in DOMAIN Front(line, c) :
              Front(line, c)[i].sec = Front(line, c)[k].sec => i = k
<1> DEFINE n == IF Len(c) < Capacity THEN Len(c) + 1 ELSE Capacity
           f == [k \in 1 .. n |-> IF k = 1 THEN line ELSE c[k - 1]]
<1>1. Front(line, c) = f
  BY DEF Front
<1>2. n \in Nat /\ n <= Capacity /\ n <= Len(c) + 1 /\ Len(c) \in Nat
  OBVIOUS
<1> HIDE DEF n
<1>3. \A k \in 1 .. n : k # 1 => k - 1 \in 1 .. Len(c)
  BY <1>2
<1>4. f \in Seq(CacheLine) /\ Len(f) = n /\ DOMAIN f = 1 .. n
  BY <1>2, <1>3
<1>5. \A i \in DOMAIN f : f[i] = line \/ \E k \in DOMAIN c : f[i] = c[k]
  BY <1>2, <1>3, <1>4
<1>6. \A i, k \in DOMAIN f : f[i].sec = f[k].sec => i = k
  <2> SUFFICES ASSUME NEW i \in 1 .. n, NEW k \in 1 .. n, f[i].sec = f[k].sec
               PROVE  i = k
    BY <1>4
  <2>1. CASE i = 1 \/ k = 1
    BY <2>1, <1>2, <1>3
  <2>2. CASE i # 1 /\ k # 1
    <3>1. f[i] = c[i - 1] /\ f[k] = c[k - 1] /\ i - 1 \in DOMAIN c /\ k - 1 \in DOMAIN c
      BY <2>2, <1>2, <1>3
    <3>2. i - 1 = k - 1
      BY <3>1
    <3> QED
      BY <3>2, <1>2
  <2> QED
    BY <2>1, <2>2
<1> QED
  BY <1>1, <1>2, <1>4, <1>5, <1>6

-----------------------------------------------------------------------------
(* The invariant. *)

LEMMA InitCache == Init => CacheInv
BY CapacityAssumption DEF Init, CacheInv, TypeOK, OneCopyEach, FetchedIsCurrent, StaleOnlyByRace

\* A hit only reorders lines.
LEMMA HitCache ==
  ASSUME CacheInv, NEW t \in Thread, NEW s \in Sector, Hit(t, s)
  PROVE  CacheInv'
<1> DEFINE line == cache[Position(s)]
<1>1. Position(s) \in DOMAIN cache /\ line.sec = s /\ line \in CacheLine
  BY PositionFound DEF Hit, CacheInv, TypeOK
<1>2. /\ Without(s) \in Seq(CacheLine)
      /\ \A i \in DOMAIN Without(s) :
           Without(s)[i].sec # s /\ \E k \in DOMAIN cache : Without(s)[i] = cache[k]
      /\ \A i, k \in DOMAIN Without(s) : Without(s)[i].sec = Without(s)[k].sec => i = k
  BY WithoutLines DEF CacheInv
<1>3. cache' = Front(line, Without(s))
  BY DEF Hit
<1>4. /\ cache' \in Seq(CacheLine)
      /\ Len(cache') <= Capacity
      /\ \A i \in DOMAIN cache' : \E k \in DOMAIN cache : cache'[i] = cache[k]
      /\ \A i, k \in DOMAIN cache' : cache'[i].sec = cache'[k].sec => i = k
  <2> HIDE DEF line
  <2> DEFINE w == Without(s)
             f == Front(line, w)
  <2>1. w \in Seq(CacheLine) /\ \A i \in DOMAIN w : w[i].sec # line.sec
    BY <1>1, <1>2
  <2>2. \A i, k \in DOMAIN w : w[i].sec = w[k].sec => i = k
    BY <1>2
  <2>3. \A i \in DOMAIN w : \E k \in DOMAIN cache : w[i] = cache[k]
    BY <1>2
  <2> HIDE DEF w
  <2>4. /\ f \in Seq(CacheLine)
        /\ Len(f) <= Capacity
        /\ \A i \in DOMAIN f : f[i] = line \/ \E k \in DOMAIN w : f[i] = w[k]
        /\ \A i, k \in DOMAIN f : f[i].sec = f[k].sec => i = k
    BY <1>1, <2>1, <2>2, FrontLines, CapacityAssumption
  <2> HIDE DEF f
  <2>5. \A i \in DOMAIN f : \E k \in DOMAIN cache : f[i] = cache[k]
    BY <1>1, <2>3, <2>4 DEF line
  <2>6. cache' = f
    BY <1>3 DEF f, w
  <2> QED
    BY <2>4, <2>5, <2>6
<1>5. line.data \in Nat
  BY <1>1 DEF CacheLine
<1>6. TypeOK'
  BY <1>4, <1>5 DEF Hit, CacheInv, TypeOK
<1>7. OneCopyEach'
  BY <1>4 DEF OneCopyEach
<1>8. FetchedIsCurrent'
  BY DEF Hit, CacheInv, TypeOK, FetchedIsCurrent
<1>9. StaleOnlyByRace'
  <2>1. \A z \in Sector : Invalidating(z) => Invalidating(z)'
    BY DEF Hit, CacheInv, TypeOK, Invalidating
  <2>2. UNCHANGED <<disk, raced>>
    BY DEF Hit
  <2>3. \A k \in DOMAIN cache : cache[k].sec \in Sector
    BY LinesTyped DEF CacheInv, TypeOK
  <2> QED
    BY <1>4, <2>1, <2>2, <2>3 DEF CacheInv, StaleOnlyByRace
<1> QED
  BY <1>6, <1>7, <1>8, <1>9 DEF CacheInv

LEMMA MissCache ==
  ASSUME CacheInv, NEW t \in Thread, NEW s \in Sector, Miss(t, s)
  PROVE  CacheInv'
<1>1. TypeOK' /\ OneCopyEach' /\ FetchedIsCurrent'
  BY DEF Miss, CacheInv, TypeOK, OneCopyEach, FetchedIsCurrent
<1>2. \A z \in Sector : Invalidating(z) => Invalidating(z)'
  BY DEF Miss, CacheInv, TypeOK, Invalidating
<1>3. StaleOnlyByRace'
  <2>1. UNCHANGED <<disk, cache, raced>>
    BY DEF Miss
  <2>2. \A k \in DOMAIN cache : cache[k].sec \in Sector
    BY LinesTyped DEF CacheInv, TypeOK
  <2> QED
    BY <1>2, <2>1, <2>2 DEF CacheInv, StaleOnlyByRace
<1> QED
  BY <1>1, <1>3 DEF CacheInv

LEMMA FetchCache ==
  ASSUME CacheInv, NEW t \in Thread, Fetch(t)
  PROVE  CacheInv'
<1>1. TypeOK' /\ OneCopyEach'
  BY DEF Fetch, CacheInv, TypeOK, OneCopyEach
<1>4. FetchedIsCurrent'
  BY DEF Fetch, CacheInv, TypeOK, FetchedIsCurrent
<1>2. \A z \in Sector : Invalidating(z) => Invalidating(z)'
  BY DEF Fetch, CacheInv, TypeOK, Invalidating
<1>3. StaleOnlyByRace'
  <2>1. UNCHANGED <<disk, cache, raced>>
    BY DEF Fetch
  <2>2. \A k \in DOMAIN cache : cache[k].sec \in Sector
    BY LinesTyped DEF CacheInv, TypeOK
  <2> QED
    BY <1>2, <2>1, <2>2 DEF CacheInv, StaleOnlyByRace
<1> QED
  BY <1>1, <1>3, <1>4 DEF CacheInv

\* The line put in by a fill is current, or the fill is recorded as a race.
LEMMA FillCache ==
  ASSUME CacheInv, NEW t \in Thread, Fill(t)
  PROVE  CacheInv'
<1> DEFINE s    == sector[t]
           line == [sec |-> s, data |-> buf[t]]
<1>1. s \in Sector /\ line \in CacheLine /\ line.sec = s /\ line.data = buf[t]
  BY DEF CacheInv, TypeOK, CacheLine
<1>2. /\ Without(s) \in Seq(CacheLine)
      /\ \A i \in DOMAIN Without(s) :
           Without(s)[i].sec # s /\ \E k \in DOMAIN cache : Without(s)[i] = cache[k]
      /\ \A i, k \in DOMAIN Without(s) : Without(s)[i].sec = Without(s)[k].sec => i = k
  BY <1>1, WithoutLines DEF CacheInv
<1>3. cache' = Front(line, Without(s))
  BY DEF Fill
<1>4. pc[t] = "fill" /\ raced' = [raced EXCEPT ![s] = ~fresh[t]] /\ UNCHANGED <<disk, sector, buf, fresh>>
      /\ pc' = [pc EXCEPT ![t] = "idle"]
  BY DEF Fill
<1> HIDE DEF line, s
<1>5. /\ cache' \in Seq(CacheLine)
      /\ Len(cache') <= Capacity
      /\ \A i \in DOMAIN cache' :
           \/ cache'[i] = line
           \/ cache'[i].sec # s /\ \E k \in DOMAIN cache : cache'[i] = cache[k]
      /\ \A i, k \in DOMAIN cache' : cache'[i].sec = cache'[k].sec => i = k
  BY <1>1, <1>2, <1>3, FrontLines, CapacityAssumption
<1>6. TypeOK'
  BY <1>1, <1>4, <1>5 DEF CacheInv, TypeOK
<1>7. OneCopyEach'
  BY <1>5 DEF OneCopyEach
<1>8. FetchedIsCurrent'
  BY <1>4 DEF CacheInv, TypeOK, FetchedIsCurrent
<1>9. StaleOnlyByRace'
  <2> SUFFICES ASSUME NEW i \in DOMAIN cache', NEW z, z = cache'[i].sec,
                      cache'[i].data # disk[z]
               PROVE  Invalidating(z)' \/ raced'[z]
    BY <1>4 DEF StaleOnlyByRace, Invalidating
  <2>1. CASE cache'[i] = line
    <3>1. ~fresh[t]
      BY <1>1, <1>4, <2>1 DEF CacheInv, FetchedIsCurrent, s
    <3> QED
      BY <1>1, <1>4, <2>1, <3>1 DEF CacheInv, TypeOK
  <2>2. CASE cache'[i] # line
    <3>1. PICK k \in DOMAIN cache : cache'[i] = cache[k]
      BY <1>5, <2>2
    <3>2. z \in Sector /\ z # s /\ cache[k].sec = z /\ cache[k].data # disk[z]
      BY <1>5, <2>2, <3>1, LinesTyped DEF CacheInv, TypeOK
    <3>3. Invalidating(z) \/ raced[z]
      BY <3>2 DEF CacheInv, StaleOnlyByRace
    <3>4. Invalidating(z) => Invalidating(z)'
      BY <1>4, <3>2 DEF CacheInv, TypeOK, Invalidating
    <3>5. raced'[z] = raced[z]
      BY <1>1, <1>4, <3>2 DEF CacheInv, TypeOK
    <3> QED
      BY <3>3, <3>4, <3>5
  <2> QED
    BY <2>1, <2>2
<1> QED
  BY <1>6, <1>7, <1>8, <1>9 DEF CacheInv

\* A write makes copies stale, but is itself the reason until its pop.
LEMMA StoreCache ==
  ASSUME CacheInv, NEW t \in Thread, NEW s \in Sector, Store(t, s)
  PROVE  CacheInv'
<1>1. TypeOK' /\ OneCopyEach'
  BY DEF Store, CacheInv, TypeOK, OneCopyEach
<1>2. FetchedIsCurrent'
  BY DEF Store, CacheInv, TypeOK, FetchedIsCurrent
<1>3. Invalidating(s)'
  BY DEF Store, CacheInv, TypeOK, Invalidating
<1>4. \A z \in Sector : Invalidating(z) => Invalidating(z)'
  BY DEF Store, CacheInv, TypeOK, Invalidating
<1>5. StaleOnlyByRace'
  <2> SUFFICES ASSUME NEW i \in DOMAIN cache, NEW z, z = cache[i].sec,
                      cache[i].data # disk'[z]
               PROVE  Invalidating(z)' \/ raced[z]
    BY DEF Store, StaleOnlyByRace, Invalidating
  <2>1. z \in Sector
    BY LinesTyped DEF CacheInv, TypeOK
  <2>2. CASE z = s
    BY <1>3, <2>2
  <2>3. CASE z # s
    <3>1. disk'[z] = disk[z]
      BY <2>1, <2>3 DEF Store, CacheInv, TypeOK
    <3> QED
      BY <1>4, <2>1, <3>1 DEF CacheInv, StaleOnlyByRace
  <2> QED
    BY <2>2, <2>3
<1> QED
  BY <1>1, <1>2, <1>5 DEF CacheInv

\* After the pop there is no copy of the sector left that could be stale.
LEMMA PopCache ==
  ASSUME CacheInv, NEW t \in Thread, Pop(t)
  PROVE  CacheInv'
<1> DEFINE s == sector[t]
<1>1. s \in Sector
  BY DEF CacheInv, TypeOK
<1>2. /\ Without(s) \in Seq(CacheLine)
      /\ Len(Without(s)) <= Len(cache)
      /\ \A i \in DOMAIN Without(s) :
           Without(s)[i].sec # s /\ \E k \in DOMAIN cache : Without(s)[i] = cache[k]
      /\ \A i, k \in DOMAIN Without(s) : Without(s)[i].sec = Without(s)[k].sec => i = k
  <2> HIDE DEF s
  <2> QED
    BY <1>1, WithoutLines DEF CacheInv
<1>3. /\ cache' = Without(s)
      /\ raced' = [raced EXCEPT ![s] = FALSE]
      /\ pc' = [pc EXCEPT ![t] = "idle"]
      /\ UNCHANGED <<disk, sector, buf, fresh>>
  BY DEF Pop
<1> HIDE DEF s
<1>4. TypeOK'
  BY <1>1, <1>2, <1>3 DEF CacheInv, TypeOK
<1>5. Len(cache) \in Nat /\ Len(Without(s)) \in Nat /\ Len(cache) <= Capacity
  BY <1>2 DEF CacheInv, TypeOK, OneCopyEach
<1>6. OneCopyEach'
  BY <1>2, <1>3, <1>5, CapacityAssumption DEF OneCopyEach
<1>7. FetchedIsCurrent'
  BY <1>3 DEF CacheInv, TypeOK, FetchedIsCurrent
<1>8. StaleOnlyByRace'
  <2> SUFFICES ASSUME NEW i \in DOMAIN cache', NEW z, z = cache'[i].sec,
                      cache'[i].data # disk[z]
               PROVE  Invalidating(z)' \/ raced'[z]
    BY <1>3 DEF StaleOnlyByRace, Invalidating
  <2>1. PICK k \in DOMAIN cache : cache'[i] = cache[k]
    BY <1>2, <1>3
  <2>2. z \in Sector /\ z # s /\ cache[k].sec = z /\ cache[k].data # disk[z]
    BY <1>2, <1>3, <2>1, LinesTyped DEF CacheInv, TypeOK
  <2>3. Invalidating(z) \/ raced[z]
    BY <2>2 DEF CacheInv, StaleOnlyByRace
  <2>4. Invalidating(z) => Invalidating(z)'
    BY <1>3, <2>2 DEF CacheInv, TypeOK, Invalidating, s
  <2>5. raced'[z] = raced[z]
    BY <1>1, <1>3, <2>2 DEF CacheInv, TypeOK
  <2> QED
    BY <2>3, <2>4, <2>5
<1> QED
  BY <1>4, <1>6, <1>7, <1>8 DEF CacheInv

LEMMA CacheStep == CacheInv /\ [Next]_vars => CacheInv'
<1> SUFFICES ASSUME CacheInv, [Next]_vars
             PROVE  CacheInv'
  OBVIOUS
<1>1. ASSUME NEW t \in Thread, NEW s \in Sector, Hit(t, s)
      PROVE  CacheInv'
  BY <1>1, HitCache
<1>2. ASSUME NEW t \in Thread, NEW s \in Sector, Miss(t, s)
      PROVE  CacheInv'
  BY <1>2, MissCache
<1>3. ASSUME NEW t \in Thread, NEW s \in Sector, Store(t, s)
      PROVE  CacheInv'
  BY <1>3, StoreCache
<1>4. ASSUME NEW t \in Thread, Fetch(t)
      PROVE  CacheInv'
  BY <1>4, FetchCache
<1>5. ASSUME NEW t \in Thread, Fill(t)
      PROVE  CacheInv'
  BY <1>5, FillCache
<1>6. ASSUME NEW t \in Thread, Pop(t)
      PROVE  CacheInv'
  BY <1>6, PopCache
<1>7. CASE UNCHANGED vars
  BY <1>7 DEF vars, CacheInv, TypeOK, OneCopyEach, FetchedIsCurrent, StaleOnlyByRace, Invalidating
<1> QED
  BY <1>1, <1>2, <1>3, <1>4, <1>5, <1>6, <1>7 DEF Next, Call

THEOREM CacheInvariant == Spec => []CacheInv
BY InitCache, CacheStep, PTL DEF Spec

\* Whatever the threads do, a stale copy has one of the two causes: a write on
\* its way to the invalidation, or a fill that a write overtook.
THEOREM StalenessTheorem == Spec => []StaleOnlyByRace
<1>1. CacheInv => StaleOnlyByRace
  BY DEF CacheInv
<1> QED
  BY CacheInvariant, <1>1, PTL

\* The cache stays within its capacity and never holds a sector twice.
THEOREM OneCopyTheorem == Spec => []OneCopyEach
<1>1. CacheInv => OneCopyEach
  BY DEF CacheInv
<1> QED
  BY CacheInvariant, <1>1, PTL

=============================================================================
