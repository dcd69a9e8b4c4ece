------------------------ MODULE SlidingWindowProofs ------------------------
(* The limiter's bounds, for any window, cap and number of keys and threads. *)
EXTENDS SlidingWindow, FiniteSetTheorems, TLAPS

\* Filtering by age twice, the second time later, is filtering once.
LEMMA LiveTwice ==
  ASSUME NEW S \in SUBSET Stamps, NEW t \in Nat, NEW u \in Nat, t <= u
  PROVE  /\ Live(Live(S, t), u) = Live(S, u)
         /\ Live(S, u) \subseteq Live(S, t)
BY WindowAndCap DEF Live, Stamps

\* A fresh stamp is live, and adds itself only.
LEMMA LiveAdd ==
  ASSUME NEW S \in SUBSET Stamps, NEW t \in Nat, NEW s \in Stamps, s.at = t
  PROVE  Live(S \cup {s}, t) = Live(S, t) \cup {s}
BY WindowAndCap DEF Live, Stamps

\* A table of buckets, as the calls pass it to the sweep.
TableOK(table) ==
  /\ DOMAIN table \subseteq Keys
  /\ \A k \in DOMAIN table : table[k] \in SUBSET Stamps

Of(table, k) == IF k \in DOMAIN table THEN table[k] ELSE {}

\* The sweep drops no live stamp and leaves a well-formed table, each bucket of
\* which has a stamp that was live when the last sweep ran.
LEMMA SweepSparesLive ==
  ASSUME TypeOK, NEW table, TableOK(table)
  PROVE  /\ TableOK(Swept(table))
         /\ \A k \in Keys : Live(Of(Swept(table), k), now) = Live(Of(table, k), now)
<1> USE DEF TypeOK, TableOK
<1>1. CASE now - lastSweep < Window
  BY <1>1 DEF Swept
<1>2. CASE ~(now - lastSweep < Window)
  <2>1. \A k \in DOMAIN table : Live(table[k], now) \in SUBSET Stamps
    BY DEF Live
  <2>2. DOMAIN Swept(table) = {j \in DOMAIN table : Live(table[j], now) # {}}
    BY <1>2 DEF Swept
  <2>3. \A k \in DOMAIN Swept(table) : Swept(table)[k] = Live(table[k], now)
    BY <1>2 DEF Swept
  <2>4. TableOK(Swept(table))
    BY <2>1, <2>2, <2>3
  <2>5. ASSUME NEW k \in Keys
        PROVE  Live(Of(Swept(table), k), now) = Live(Of(table, k), now)
    <3>1. CASE k \in DOMAIN Swept(table)
      <4>1. /\ Of(Swept(table), k) = Live(table[k], now)
            /\ Of(table, k) = table[k]
            /\ table[k] \in SUBSET Stamps
        BY <2>2, <2>3, <3>1 DEF Of
      <4> QED BY <4>1, LiveTwice
    <3>2. CASE k \in DOMAIN table /\ k \notin DOMAIN Swept(table)
      <4>1. Live(table[k], now) = {} /\ Of(Swept(table), k) = {} /\ Of(table, k) = table[k]
        BY <2>2, <3>2 DEF Of
      <4> QED BY <4>1 DEF Live
    <3>3. CASE k \notin DOMAIN table
      BY <2>2, <3>3 DEF Of
    <3> QED BY <3>1, <3>2, <3>3
  <2> QED BY <2>4, <2>5
<1> QED BY <1>1, <1>2

\* After a call the last sweep is less than a window ago, and every bucket left
\* had a live stamp at it.
LEMMA SweepIsDue ==
  ASSUME TypeOK, NEW table, TableOK(table),
         \A k \in DOMAIN table :
           \E s \in table[k] : s.at > lastSweep - Window
  PROVE  /\ SweepTime \in 0..now
         /\ now - SweepTime < Window
         /\ \A k \in DOMAIN Swept(table) :
              \E s \in Swept(table)[k] : s.at > SweepTime - Window
<1> USE WindowAndCap DEF TypeOK, TableOK, SweepTime
<1>1. CASE now - lastSweep < Window
  BY <1>1 DEF Swept
<1>2. CASE ~(now - lastSweep < Window)
  <2>1. DOMAIN Swept(table) = {j \in DOMAIN table : Live(table[j], now) # {}}
    BY <1>2 DEF Swept
  <2>2. \A k \in DOMAIN Swept(table) : Swept(table)[k] = Live(table[k], now)
    BY <1>2 DEF Swept
  <2>3. ASSUME NEW k \in DOMAIN Swept(table)
        PROVE  \E s \in Swept(table)[k] : s.at > SweepTime - Window
    BY <1>2, <2>1, <2>2 DEF Live
  <2> QED BY <1>2, <2>3
<1> QED BY <1>1, <1>2
-----------------------------------------------------------------------------
\* The invariant holds of the empty limiter.
LEMMA InitInv == Init => LimiterInv
<1> SUFFICES ASSUME Init PROVE LimiterInv
  OBVIOUS
<1>1. \A k \in Keys : Live(recorded[k], now) = {} /\ Bucket(k) = {}
  BY DEF Init, Live, Bucket
<1>2. Cardinality(Threads) \in Nat /\ Cardinality({}) = 0 /\ IsFiniteSet({})
  BY ThreadsAreFinite, FS_CardinalityType, FS_EmptySet
<1>3. TypeOK
  BY <1>2 DEF Init, TypeOK
<1>4. NothingLiveIsLost
  BY <1>1 DEF NothingLiveIsLost, Live
<1>5. OvershootIsBounded
  <2> SUFFICES ASSUME NEW k \in Keys
               PROVE  Cardinality(Live(recorded[k], now))
                        <= Cap + Cardinality(Threads) - 1
    BY DEF OvershootIsBounded
  <2>1. Cardinality(Live(recorded[k], now)) = 0
    BY <1>1, <1>2
  <2>2. 0 <= Cap + Cardinality(Threads) - 1
    BY <1>2, WindowAndCap
  <2> QED BY <2>1, <2>2
<1>6. PassersFit
  BY NoKeyIsNoKey DEF PassersFit, Passing, Init
<1>7. BucketsWereSwept
  BY DEF BucketsWereSwept, Init
<1> QED BY <1>3, <1>4, <1>5, <1>6, <1>7 DEF LimiterInv

\* What every look-up does to the buckets.
LEMMA LookupInv ==
  ASSUME LimiterInv,
         buckets' = Swept(buckets), lastSweep' = SweepTime,
         UNCHANGED <<now, recorded>>
  PROVE  /\ lastSweep' \in 0..now'
         /\ DOMAIN buckets' \subseteq Keys
         /\ \A k \in DOMAIN buckets' : buckets'[k] \in SUBSET Stamps
         /\ NothingLiveIsLost'
         /\ BucketsWereSwept'
         /\ now - lastSweep' < Window
<1>1. TypeOK /\ TableOK(buckets)
  BY DEF LimiterInv, TypeOK, TableOK
<1>2. /\ TableOK(Swept(buckets))
      /\ \A k \in Keys : Live(Of(Swept(buckets), k), now) = Live(Of(buckets, k), now)
  BY <1>1, SweepSparesLive
<1>3. /\ SweepTime \in 0..now /\ now - SweepTime < Window
      /\ \A k \in DOMAIN Swept(buckets) :
           \E s \in Swept(buckets)[k] : s.at > SweepTime - Window
  BY <1>1, SweepIsDue DEF LimiterInv, BucketsWereSwept
<1>4. NothingLiveIsLost'
  BY <1>2 DEF LimiterInv, NothingLiveIsLost, Bucket, Of
<1> QED BY <1>2, <1>3, <1>4 DEF TableOK, BucketsWereSwept

\* One more element makes a finite set at most one larger.
LEMMA AddsAtMostOne ==
  ASSUME NEW S, NEW x, IsFiniteSet(S)
  PROVE  /\ Cardinality(S \cup {x}) \in Nat
         /\ Cardinality(S \cup {x}) <= Cardinality(S) + 1
<1>1. /\ IsFiniteSet(S \cup {x})
      /\ Cardinality(S \cup {x}) = IF x \in S THEN Cardinality(S) ELSE Cardinality(S) + 1
  BY FS_AddElement
<1>2. Cardinality(S) \in Nat /\ Cardinality(S \cup {x}) \in Nat
  BY <1>1, FS_CardinalityType
<1> QED BY <1>1, <1>2

\* The sets the bounds count are finite.
LEMMA FiniteCounts ==
  ASSUME TypeOK, NEW k \in Keys
  PROVE  /\ Cardinality(Threads) \in Nat
         /\ IsFiniteSet(Passing(k)) /\ Cardinality(Passing(k)) \in Nat
         /\ Cardinality(Passing(k)) <= Cardinality(Threads)
         /\ IsFiniteSet(Live(recorded[k], now))
         /\ Cardinality(Live(recorded[k], now)) \in Nat
<1>1. Passing(k) \subseteq Threads /\ Live(recorded[k], now) \subseteq recorded[k]
  BY DEF Passing, Live
<1>2. IsFiniteSet(recorded[k])
  BY DEF TypeOK
<1> QED BY <1>1, <1>2, ThreadsAreFinite, FS_Subset, FS_CardinalityType

\* A caller found below the cap keeps the invariant: its key's live stamps are
\* fewer than Cap, and at most all threads are between the two steps.
LEMMA PassInv ==
  ASSUME LimiterInv, NEW th \in Threads, NEW k \in Keys, Pass(th, k)
  PROVE  LimiterInv'
<1>1. TypeOK
  BY DEF LimiterInv
<1>2. /\ lastSweep' \in 0..now' /\ DOMAIN buckets' \subseteq Keys
      /\ \A j \in DOMAIN buckets' : buckets'[j] \in SUBSET Stamps
      /\ NothingLiveIsLost' /\ BucketsWereSwept'
  BY LookupInv DEF Pass
<1>3. TypeOK'
  BY <1>1, <1>2 DEF TypeOK, Pass
<1>4. OvershootIsBounded'
  BY DEF LimiterInv, OvershootIsBounded, Pass
<1>5. Cardinality(Live(recorded[k], now)) <= Cap - 1
  BY <1>1, FiniteCounts, WindowAndCap DEF LimiterInv, NothingLiveIsLost, Pass
<1>6. ASSUME NEW j \in Keys, Passing(j)' # {}
      PROVE  Cardinality(Live(recorded[j], now))' + Cardinality(Passing(j))'
               <= Cap + Cardinality(Threads) - 1
  <2>1. Live(recorded[j], now)' = Live(recorded[j], now)
    BY DEF Pass
  <2>2. CASE j = k
    <3>1. /\ Cardinality(Passing(j)') \in Nat
          /\ Cardinality(Passing(j)') <= Cardinality(Threads)
      <4>1. Passing(j)' \subseteq Threads
        BY DEF Passing
      <4> QED BY <4>1, ThreadsAreFinite, FS_Subset, FS_CardinalityType
    <3>2. Cardinality(Live(recorded[k], now)) \in Nat /\ Cardinality(Threads) \in Nat
      BY <1>1, FiniteCounts
    <3> QED BY <1>5, <2>1, <2>2, <3>1, <3>2, WindowAndCap
  <2>3. CASE j # k
    <3>1. Passing(j)' = Passing(j)
      BY <1>1, <2>3, NoKeyIsNoKey DEF Passing, Pass, TypeOK
    <3> QED BY <1>6, <2>1, <3>1 DEF LimiterInv, PassersFit
  <2> QED BY <2>2, <2>3
<1>7. PassersFit'
  BY <1>6 DEF PassersFit
<1> QED BY <1>2, <1>3, <1>4, <1>7 DEF LimiterInv

\* A refused caller keeps the invariant.
LEMMA RefuseInv ==
  ASSUME LimiterInv, NEW th \in Threads, NEW k \in Keys, Refuse(th, k)
  PROVE  LimiterInv'
<1>1. /\ lastSweep' \in 0..now' /\ DOMAIN buckets' \subseteq Keys
      /\ \A j \in DOMAIN buckets' : buckets'[j] \in SUBSET Stamps
      /\ NothingLiveIsLost' /\ BucketsWereSwept'
  BY LookupInv DEF Refuse
<1>2. TypeOK'
  BY <1>1 DEF LimiterInv, TypeOK, Refuse
<1>3. OvershootIsBounded' /\ PassersFit'
  BY DEF LimiterInv, OvershootIsBounded, PassersFit, Passing, Refuse
<1> QED BY <1>1, <1>2, <1>3 DEF LimiterInv

\* The bucket table as Hit hands it to the sweep.
WithStamp(k, stamp) ==
  [j \in DOMAIN buckets \cup {k} |->
     IF j = k THEN Live(Bucket(k), now) \cup {stamp} ELSE buckets[j]]

NewStamp(k) == [id |-> Cardinality(recorded[k]), at |-> now]

\* Recording a caller keeps the table exact and the sweep on time.
LEMMA HitBuckets ==
  ASSUME LimiterInv, NEW th \in Threads, Hit(th)
  PROVE  /\ lastSweep' \in 0..now'
         /\ DOMAIN buckets' \subseteq Keys
         /\ \A k \in DOMAIN buckets' : buckets'[k] \in SUBSET Stamps
         /\ NothingLiveIsLost'
         /\ BucketsWereSwept'
         /\ now - lastSweep' < Window
<1> DEFINE k == passed[th]
           stamp == NewStamp(k)
           table == WithStamp(k, stamp)
<1>1. TypeOK /\ k \in Keys
  BY DEF LimiterInv, TypeOK, Hit
<1>2. buckets' = Swept(table) /\ lastSweep' = SweepTime /\ now' = now
  BY DEF Hit, WithStamp, NewStamp
<1>3. recorded' = [recorded EXCEPT ![k] = recorded[k] \cup {stamp}]
  BY DEF Hit, NewStamp
<1>4. stamp \in Stamps /\ stamp.at = now
  BY <1>1, FS_CardinalityType DEF TypeOK, Stamps, NewStamp
<1>5. Bucket(k) \in SUBSET Stamps /\ Live(Bucket(k), now) \in SUBSET Stamps
  BY <1>1 DEF Bucket, TypeOK, Live
<1>6. TableOK(table)
  BY <1>1, <1>4, <1>5 DEF TableOK, WithStamp, TypeOK
<1>7. \A j \in DOMAIN table : \E s \in table[j] : s.at > lastSweep - Window
  <2> SUFFICES ASSUME NEW j \in DOMAIN table
               PROVE  \E s \in table[j] : s.at > lastSweep - Window
    OBVIOUS
  <2>1. CASE j = k
    <3>1. stamp \in table[j]
      BY <2>1 DEF WithStamp
    <3>2. now > lastSweep - Window
      BY <1>1, WindowAndCap DEF TypeOK
    <3> HIDE DEF table, stamp
    <3> QED BY <1>4, <3>1, <3>2
  <2>2. CASE j # k
    BY <2>2 DEF WithStamp, LimiterInv, BucketsWereSwept
  <2> QED BY <2>1, <2>2
<1>8. /\ TableOK(Swept(table))
      /\ \A j \in Keys : Live(Of(Swept(table), j), now) = Live(Of(table, j), now)
  BY <1>1, <1>6, SweepSparesLive
<1>9. /\ SweepTime \in 0..now /\ now - SweepTime < Window
      /\ \A j \in DOMAIN Swept(table) :
           \E s \in Swept(table)[j] : s.at > SweepTime - Window
  BY <1>1, <1>6, <1>7, SweepIsDue
<1>10. ASSUME NEW j \in Keys
       PROVE  Live(Bucket(j), now)' = Live(recorded[j], now)'
  <2>1. Live(Bucket(j), now)' = Live(Of(table, j), now)
    BY <1>2, <1>8 DEF Bucket, Of
  <2>2. Live(Bucket(j), now) = Live(recorded[j], now) /\ recorded[j] \in SUBSET Stamps
    BY DEF LimiterInv, NothingLiveIsLost, TypeOK
  <2>3. CASE j = k
    <3>1. Of(table, j) = Live(Bucket(k), now) \cup {stamp}
      BY <2>3 DEF Of, WithStamp
    <3>2. Live(Of(table, j), now) = Live(Live(Bucket(k), now), now) \cup {stamp}
      BY <1>1, <1>4, <1>5, <3>1, LiveAdd DEF TypeOK
    <3>3. Live(Live(Bucket(k), now), now) = Live(Bucket(k), now)
      BY <1>1, <1>5, LiveTwice DEF TypeOK
    <3>4. recorded'[j] = recorded[j] \cup {stamp}
      BY <1>1, <1>3, <2>3 DEF TypeOK
    <3>5. Live(recorded'[j], now) = Live(recorded[j], now) \cup {stamp}
      BY <1>1, <1>4, <2>2, <3>4, LiveAdd DEF TypeOK
    <3> QED BY <1>2, <2>1, <2>2, <2>3, <3>2, <3>3, <3>5
  <2>4. CASE j # k
    <3>1. Of(table, j) = Bucket(j)
      BY <2>4 DEF Of, WithStamp, Bucket
    <3>2. recorded'[j] = recorded[j]
      BY <1>1, <1>3, <2>4 DEF TypeOK
    <3> QED BY <1>2, <2>1, <2>2, <3>1, <3>2
  <2> QED BY <2>3, <2>4
<1> HIDE DEF table, stamp
<1>11. NothingLiveIsLost'
  BY <1>10 DEF NothingLiveIsLost
<1> QED BY <1>2, <1>8, <1>9, <1>11 DEF TableOK, BucketsWereSwept

\* Recording a caller keeps the invariant: one stamp more, one passer less.
LEMMA HitInv ==
  ASSUME LimiterInv, NEW th \in Threads, Hit(th)
  PROVE  LimiterInv'
<1>0. PICK k \in Keys : k = passed[th]
  BY DEF LimiterInv, TypeOK, Hit
<1> DEFINE stamp == NewStamp(k)
           live == Live(recorded[k], now)
<1>1. TypeOK
  BY DEF LimiterInv
<1>2. /\ passed' = [passed EXCEPT ![th] = NoKey] /\ now' = now
      /\ recorded' = [recorded EXCEPT ![k] = recorded[k] \cup {stamp}]
  BY <1>0 DEF Hit, NewStamp
<1>3. stamp \in Stamps /\ stamp.at = now
  BY <1>1, FS_CardinalityType DEF TypeOK, Stamps, NewStamp
<1>4. \A j \in Keys : IsFiniteSet(recorded'[j])
  BY <1>1, <1>2, FS_AddElement DEF TypeOK
<1>5. TypeOK'
  BY <1>1, <1>2, <1>3, <1>4, HitBuckets DEF TypeOK
<1>6. Live(recorded[k], now)' = live \cup {stamp}
  <2>1. recorded'[k] = recorded[k] \cup {stamp} /\ recorded[k] \in SUBSET Stamps
    BY <1>1, <1>2 DEF TypeOK
  <2>2. Live(recorded'[k], now) = Live(recorded[k], now) \cup {stamp}
    BY <1>1, <1>3, <2>1, LiveAdd DEF TypeOK
  <2> QED BY <1>2, <2>2 DEF Live
<1>7. /\ Cardinality(live) \in Nat /\ IsFiniteSet(live)
      /\ Cardinality(Live(recorded[k], now)') \in Nat
      /\ Cardinality(Live(recorded[k], now)') <= Cardinality(live) + 1
  <2>1. IsFiniteSet(live) /\ Cardinality(live) \in Nat
    BY <1>1, FiniteCounts
  <2> HIDE DEF live, stamp
  <2> QED BY <1>6, <2>1, AddsAtMostOne
<1>8. /\ th \in Passing(k) /\ Passing(k)' = Passing(k) \ {th}
      /\ \A j \in Keys : j # k => Passing(j)' = Passing(j)
  BY <1>0, <1>1, <1>2, NoKeyIsNoKey DEF Passing, TypeOK
<1>9. /\ Cardinality(Passing(k)) \in Nat
      /\ Cardinality(Passing(k)') = Cardinality(Passing(k)) - 1
      /\ Cardinality(Passing(k)') \in Nat
      /\ Cardinality(Threads) \in Nat
  <2>1. IsFiniteSet(Passing(k)) /\ Cardinality(Passing(k)) \in Nat /\ Cardinality(Threads) \in Nat
    BY <1>1, FiniteCounts
  <2>2. /\ IsFiniteSet(Passing(k) \ {th})
        /\ Cardinality(Passing(k) \ {th}) = Cardinality(Passing(k)) - 1
    BY <1>8, <2>1, FS_RemoveElement
  <2> QED BY <1>8, <2>1, <2>2, FS_CardinalityType
<1>10. Cardinality(live) + Cardinality(Passing(k)) <= Cap + Cardinality(Threads) - 1
  BY <1>1, <1>8 DEF LimiterInv, PassersFit
<1>11. \A j \in Keys : j # k => Live(recorded[j], now)' = Live(recorded[j], now)
  BY <1>1, <1>2 DEF TypeOK
<1> HIDE DEF live, stamp
<1>12. OvershootIsBounded'
  <2> SUFFICES ASSUME NEW j \in Keys
               PROVE  Cardinality(Live(recorded[j], now)')
                        <= Cap + Cardinality(Threads) - 1
    BY DEF OvershootIsBounded
  <2>1. CASE j = k
    BY <2>1, <1>7, <1>9, <1>10, WindowAndCap
  <2>2. CASE j # k
    BY <2>2, <1>11 DEF LimiterInv, OvershootIsBounded
  <2> QED BY <2>1, <2>2
<1>13. PassersFit'
  <2> SUFFICES ASSUME NEW j \in Keys, Passing(j)' # {}
               PROVE  Cardinality(Live(recorded[j], now)') + Cardinality(Passing(j)')
                        <= Cap + Cardinality(Threads) - 1
    BY DEF PassersFit
  <2>1. CASE j = k
    BY <2>1, <1>7, <1>9, <1>10, WindowAndCap
  <2>2. CASE j # k
    BY <2>2, <1>8, <1>11 DEF LimiterInv, PassersFit
  <2> QED BY <2>1, <2>2
<1> QED BY <1>5, <1>12, <1>13, HitBuckets DEF LimiterInv

\* Time passing keeps the invariant: the live stamps only get fewer.
LEMMA TickInv ==
  ASSUME LimiterInv, Tick
  PROVE  LimiterInv'
<1>1. TypeOK /\ now' = now + 1 /\ UNCHANGED <<buckets, lastSweep, passed, recorded>>
  BY DEF LimiterInv, Tick
<1>2. TypeOK'
  BY <1>1 DEF TypeOK
<1>3. \A k \in Keys : /\ recorded[k] \in SUBSET Stamps
                      /\ Bucket(k) \in SUBSET Stamps
  BY <1>1 DEF TypeOK, Bucket
<1>4. ASSUME NEW k \in Keys
      PROVE  /\ Live(Bucket(k), now)' = Live(recorded[k], now)'
             /\ Live(recorded[k], now)' \subseteq Live(recorded[k], now)
  <2>1. now \in Nat /\ now + 1 \in Nat /\ now <= now + 1
    BY <1>1 DEF TypeOK
  <2>2. /\ Live(Bucket(k), now + 1) = Live(Live(Bucket(k), now), now + 1)
        /\ Live(recorded[k], now + 1) = Live(Live(recorded[k], now), now + 1)
        /\ Live(recorded[k], now + 1) \subseteq Live(recorded[k], now)
    BY <1>3, <2>1, LiveTwice
  <2>3. Live(Bucket(k), now) = Live(recorded[k], now)
    BY DEF LimiterInv, NothingLiveIsLost
  <2>4. /\ Live(Bucket(k), now)' = Live(Bucket(k), now + 1)
        /\ Live(recorded[k], now)' = Live(recorded[k], now + 1)
    BY <1>1 DEF Live, Bucket
  <2> QED BY <2>2, <2>3, <2>4
<1>5. ASSUME NEW k \in Keys
      PROVE  /\ Cardinality(Live(recorded[k], now)') \in Nat
             /\ Cardinality(Live(recorded[k], now)') <= Cardinality(Live(recorded[k], now))
             /\ Cardinality(Live(recorded[k], now)) \in Nat
             /\ Cardinality(Threads) \in Nat
             /\ Cardinality(Passing(k)) \in Nat
             /\ Passing(k)' = Passing(k)
  <2>1. IsFiniteSet(Live(recorded[k], now)) /\ Cardinality(Live(recorded[k], now)) \in Nat
        /\ Cardinality(Threads) \in Nat /\ Cardinality(Passing(k)) \in Nat
    BY <1>1, FiniteCounts
  <2>2. Passing(k)' = Passing(k)
    BY <1>1 DEF Passing
  <2> QED BY <1>4, <2>1, <2>2, FS_Subset, FS_CardinalityType
<1>6. NothingLiveIsLost'
  BY <1>4 DEF NothingLiveIsLost
<1>7. OvershootIsBounded'
  <2> SUFFICES ASSUME NEW k \in Keys
               PROVE  Cardinality(Live(recorded[k], now)')
                        <= Cap + Cardinality(Threads) - 1
    BY DEF OvershootIsBounded
  <2>1. Cardinality(Live(recorded[k], now)) <= Cap + Cardinality(Threads) - 1
    BY DEF LimiterInv, OvershootIsBounded
  <2> QED BY <1>5, <2>1, WindowAndCap
<1>8. PassersFit'
  <2> SUFFICES ASSUME NEW k \in Keys, Passing(k)' # {}
               PROVE  Cardinality(Live(recorded[k], now)') + Cardinality(Passing(k)')
                        <= Cap + Cardinality(Threads) - 1
    BY DEF PassersFit
  <2>1. Cardinality(Live(recorded[k], now)) + Cardinality(Passing(k))
          <= Cap + Cardinality(Threads) - 1
    BY <1>5 DEF LimiterInv, PassersFit
  <2> QED BY <1>5, <2>1, WindowAndCap
<1>9. BucketsWereSwept'
  BY <1>1 DEF LimiterInv, BucketsWereSwept
<1> QED BY <1>2, <1>6, <1>7, <1>8, <1>9 DEF LimiterInv

\* Every step keeps the invariant.
LEMMA StepInv == LimiterInv /\ [Next]_vars => LimiterInv'
<1> SUFFICES ASSUME LimiterInv, [Next]_vars PROVE LimiterInv'
  OBVIOUS
<1>1. CASE Tick
  BY <1>1, TickInv
<1>2. ASSUME NEW th \in Threads, Hit(th) PROVE LimiterInv'
  BY <1>2, HitInv
<1>3. ASSUME NEW th \in Threads, NEW k \in Keys, Pass(th, k) PROVE LimiterInv'
  BY <1>3, PassInv
<1>4. ASSUME NEW th \in Threads, NEW k \in Keys, Refuse(th, k) PROVE LimiterInv'
  BY <1>4, RefuseInv
<1>5. CASE UNCHANGED vars
  BY <1>5 DEF vars, LimiterInv, TypeOK, NothingLiveIsLost, OvershootIsBounded,
              PassersFit, BucketsWereSwept, Bucket, Passing, Live
<1> QED BY <1>1, <1>2, <1>3, <1>4, <1>5 DEF Next
-----------------------------------------------------------------------------
\* The limiter's inductive invariant holds in every state it can reach.
THEOREM LimiterInvariant == Spec => []LimiterInv
BY InitInv, StepInv, PTL DEF Spec

\* Every variable keeps its type.
THEOREM LimiterTypeCorrect == Spec => []TypeOK
<1>1. LimiterInv => TypeOK
  BY DEF LimiterInv
<1> QED BY <1>1, LimiterInvariant, PTL

\* Neither pruning one bucket nor sweeping all of them loses a stamp that counts.
THEOREM CountsAreExact == Spec => []NothingLiveIsLost
<1>1. LimiterInv => NothingLiveIsLost
  BY DEF LimiterInv
<1> QED BY <1>1, LimiterInvariant, PTL

\* The race between count and hit lets at most one more request through for each
\* further thread, whatever the window and the cap.
THEOREM RaceOvershootsByThreads == Spec => []OvershootIsBounded
<1>1. LimiterInv => OvershootIsBounded
  BY DEF LimiterInv
<1> QED BY <1>1, LimiterInvariant, PTL

\* A key that is never seen again has lost its bucket by the first call, of any
\* key, two windows later.
THEOREM NoKeyLingers == Spec => NoLingering
<1>1. LimiterInv /\ LimiterInv' /\ [Next]_vars =>
        [now' = now => \A k \in DOMAIN buckets' :
                         \E s \in buckets'[k] : s.at > now - 2 * Window]_vars
  <2> SUFFICES ASSUME LimiterInv, LimiterInv', Next, now' = now,
                      NEW k \in DOMAIN buckets'
               PROVE  \E s \in buckets'[k] : s.at > now - 2 * Window
    OBVIOUS
  <2>1. now - lastSweep' < Window
    <3>1. CASE Tick
      BY <3>1 DEF Tick, LimiterInv, TypeOK
    <3>2. ASSUME NEW th \in Threads, Hit(th) PROVE now - lastSweep' < Window
      BY <3>2, HitBuckets
    <3>3. ASSUME NEW th \in Threads, NEW j \in Keys, Pass(th, j)
          PROVE  now - lastSweep' < Window
      BY <3>3, LookupInv DEF Pass
    <3>4. ASSUME NEW th \in Threads, NEW j \in Keys, Refuse(th, j)
          PROVE  now - lastSweep' < Window
      BY <3>4, LookupInv DEF Refuse
    <3> QED BY <3>1, <3>2, <3>3, <3>4 DEF Next
  <2>2. PICK s \in buckets'[k] : s.at > lastSweep' - Window
    BY DEF LimiterInv, BucketsWereSwept
  <2>3. s.at \in Nat /\ lastSweep' \in Nat /\ now \in Nat
    BY DEF LimiterInv, TypeOK, Stamps
  <2>4. s.at > now - 2 * Window
    BY <2>1, <2>2, <2>3, WindowAndCap
  <2> QED BY <2>4
<1> QED BY <1>1, LimiterInvariant, PTL DEF Spec, NoLingering
=============================================================================
