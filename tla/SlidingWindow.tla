--------------------------- MODULE SlidingWindow ---------------------------
(***************************************************************************)
(* The in-memory request limiter that guards registration, the token       *)
(* endpoint, bearer failures and the JSON-RPC API: one bucket of time      *)
(* stamps for each key, looked up, filled and swept under a lock by the    *)
(* threads of one worker.                                                  *)
(*                                                                         *)
(* A caller is checked and recorded in two locked steps, and other threads *)
(* run between them.  The code keeps a list of floats; all it does with it *)
(* is filter by age and take the length, so a bucket is a set here, and a  *)
(* stamp has its number in the key's history beside its time.  The clock   *)
(* is time.monotonic(); several calls may read the same instant.           *)
(***************************************************************************)
EXTENDS Integers, FiniteSets

CONSTANTS
  Keys,      \* callers: (database, client address) or (database, user)
  NoKey,     \* what a thread outside the limiter works on
  Threads,   \* request threads of the worker
  Window,    \* length of the window
  Cap,       \* requests let through in one window
  MaxTime    \* bound: the clock stops here

ASSUME NoKeyIsNoKey == NoKey \notin Keys
ASSUME ThreadsAreFinite == IsFiniteSet(Threads)
ASSUME WindowAndCap ==
  /\ Window \in Nat \ {0} /\ Cap \in Nat \ {0}
  /\ MaxTime \in Nat

VARIABLES
  now,        \* time.monotonic()
  buckets,    \* _buckets: [keys that have one -> set of stamps]
  lastSweep,  \* _last_sweep
  passed,     \* [Threads -> the key that was found below the cap, or NoKey]
  recorded    \* history: every stamp ever recorded, by key

vars == <<now, buckets, lastSweep, passed, recorded>>

Stamps == [id : Nat, at : Nat]

TypeOK ==
  /\ now \in Nat
  /\ lastSweep \in 0..now
  /\ DOMAIN buckets \subseteq Keys
  /\ \A k \in DOMAIN buckets : buckets[k] \in SUBSET Stamps
  /\ passed \in [Threads -> Keys \cup {NoKey}]
  /\ recorded \in [Keys -> SUBSET Stamps]
  /\ \A k \in Keys : IsFiniteSet(recorded[k])
-----------------------------------------------------------------------------
Live(stamps, t) == {s \in stamps : s.at > t - Window}

\* Looking a key up makes no bucket for it.
Bucket(k) == IF k \in DOMAIN buckets THEN buckets[k] ELSE {}

\* The amortized sweep of all buckets, at most once in a window.
\* (In the slips it keeps the dead buckets, or drops live ones with old stamps.)
Swept_PrunesOnly(table) ==
  IF now - lastSweep < Window THEN table
  ELSE [k \in DOMAIN table |-> Live(table[k], now)]

Swept_AnyStale(table) ==
  IF now - lastSweep < Window THEN table
  ELSE [k \in {j \in DOMAIN table : Live(table[j], now) = table[j]} |-> table[k]]

Swept(table) ==
  IF now - lastSweep < Window THEN table
  ELSE [k \in {j \in DOMAIN table : Live(table[j], now) # {}} |-> Live(table[k], now)]

\* (In the slip the time of the next sweep is kept instead of the last one's.)
SweepTime_Next == IF now - lastSweep < Window THEN lastSweep ELSE now + Window

SweepTime == IF now - lastSweep < Window THEN lastSweep ELSE now
-----------------------------------------------------------------------------
Init ==
  /\ now = 0
  /\ buckets = [k \in {} |-> {}]
  /\ lastSweep = 0
  /\ passed = [th \in Threads |-> NoKey]
  /\ recorded = [k \in Keys |-> {}]

\* count(): a caller below the cap goes on to be recorded.
Pass_AtCap(th, k) ==
  /\ passed[th] = NoKey
  /\ Cardinality(Live(Bucket(k), now)) <= Cap
  /\ passed' = [passed EXCEPT ![th] = k]
  /\ buckets' = Swept(buckets)
  /\ lastSweep' = SweepTime
  /\ UNCHANGED <<now, recorded>>

Pass(th, k) ==
  /\ passed[th] = NoKey
  /\ Cardinality(Live(Bucket(k), now)) < Cap
  /\ passed' = [passed EXCEPT ![th] = k]
  /\ buckets' = Swept(buckets)
  /\ lastSweep' = SweepTime
  /\ UNCHANGED <<now, recorded>>

\* count(): a caller at the cap is refused and leaves no stamp.
Refuse(th, k) ==
  /\ passed[th] = NoKey
  /\ Cardinality(Live(Bucket(k), now)) >= Cap
  /\ buckets' = Swept(buckets)
  /\ lastSweep' = SweepTime
  /\ UNCHANGED <<now, passed, recorded>>

\* hit(): the caller's old stamps go, its new one is added, then the sweep.
Hit(th) ==
  LET k == passed[th]
      stamp == [id |-> Cardinality(recorded[k]), at |-> now]
      mine == Live(Bucket(k), now) \cup {stamp}
  IN
    /\ k # NoKey
    /\ buckets' = Swept([j \in DOMAIN buckets \cup {k} |->
                           IF j = k THEN mine ELSE buckets[j]])
    /\ lastSweep' = SweepTime
    /\ passed' = [passed EXCEPT ![th] = NoKey]
    /\ recorded' = [recorded EXCEPT ![k] = @ \cup {stamp}]
    /\ UNCHANGED now

Tick ==
  /\ now < MaxTime
  /\ now' = now + 1
  /\ UNCHANGED <<buckets, lastSweep, passed, recorded>>

Next ==
  \/ Tick
  \/ \E th \in Threads : Hit(th)
  \/ \E th \in Threads, k \in Keys : Pass(th, k) \/ Refuse(th, k)

Spec == Init /\ [][Next]_vars
-----------------------------------------------------------------------------
(***************************************************************************)
(* Properties.                                                             *)
(***************************************************************************)

\* Pruning and sweeping lose nothing that still counts: a bucket holds exactly
\* the key's recorded stamps that are still in the window, now and later.
NothingLiveIsLost ==
  \A k \in Keys : Live(Bucket(k), now) = Live(recorded[k], now)

\* The price of the unlocked gap between count and hit ("a race only lets a
\* hair more through"): in no window do more than Cap requests pass, plus one
\* for each further thread.
OvershootIsBounded ==
  \A k \in Keys :
    Cardinality(Live(recorded[k], now)) <= Cap + Cardinality(Threads) - 1

\* "A key seen exactly once must not linger": a call, of whatever key, leaves
\* no bucket whose newest stamp is two windows old.
NoLingering ==
  [][now' = now =>
       \A k \in DOMAIN buckets' : \E s \in buckets'[k] : s.at > now - 2 * Window]_vars

\* What OvershootIsBounded rests on: the callers between the two steps fit too.
Passing(k) == {th \in Threads : passed[th] = k}

PassersFit ==
  \A k \in Keys : Passing(k) # {} =>
    Cardinality(Live(recorded[k], now)) + Cardinality(Passing(k))
      <= Cap + Cardinality(Threads) - 1

\* What NoLingering rests on: each bucket had a live stamp at the last sweep.
BucketsWereSwept ==
  \A k \in DOMAIN buckets : \E s \in buckets[k] : s.at > lastSweep - Window

\* The inductive invariant: the bounds above and what they rest on.
LimiterInv ==
  /\ TypeOK
  /\ NothingLiveIsLost
  /\ OvershootIsBounded
  /\ PassersFit
  /\ BucketsWereSwept
=============================================================================
