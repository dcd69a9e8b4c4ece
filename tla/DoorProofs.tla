----------------------------- MODULE DoorProofs -----------------------------
(***************************************************************************)
(* Proofs about Door, for any threads, users, clients and credentials,     *)
(* limits and numbers of runs and edits: the inductive invariant DoorInv   *)
(* and the properties it implies.                                          *)
(***************************************************************************)
EXTENDS Door, FiniteSetTheorems, FunctionTheorems, SequenceTheorems, TLAPS

-----------------------------------------------------------------------------
(***************************************************************************)
(* The inductive invariant.                                                *)
(***************************************************************************)
Kinds == {"mcp", "open", "info", "access", "object"}

ReqType ==
  [phase : {"gates", "served", "over"}, kind : Kinds, gate : 1..9, cred : Sent,
   user : Users \cup {NoUser}, try : 1..MaxTries, snap : Nat, floor : Nat,
   failures : Nat, fate : Fates, row : Rows, call : Calls \cup {NoCall},
   reply : {"none", "success", "error"}]

Types ==
  /\ worlds \in Seq([Items -> BOOLEAN])
  /\ signalled \in 1..Latest
  /\ recent \in Seq((SUBSET {"bearer", "row"}) \ {{}})
  /\ reqs \in [Threads -> ReqType \cup {Idle}]
  /\ made \in SUBSET Calls /\ lost \in SUBSET Calls
  /\ entries \in [Calls -> Rows]

\* Below, x is a request and ws the worlds so far.

\* It is at one of its gates, with a snapshot that is no older than its floor.
Placed(x, ws) ==
  /\ x.gate <= Len(Route(x.kind))
  /\ 1 <= x.floor /\ x.floor <= x.snap /\ x.snap <= Len(ws)

\* Past the bearer door, the credential is good in the request's snapshot, and
\* the switch was on in some version the cache may have had.
Admitted(x) ==
  x.kind = "mcp" /\ (x.phase = "served" \/ (x.phase = "gates" /\ x.gate > 1))

GoodAt(x, user, ws) ==
  /\ x.cred \in Creds /\ Describe[x.cred].door \in {"key", "token"}
  /\ user = Describe[x.cred].user
  /\ ws[x.snap][x.cred] /\ ws[x.snap][user]
  /\ Describe[x.cred].door = "token" =>
       /\ Describe[x.cred].here /\ ws[x.snap][Describe[x.cred].client]
       /\ \E v \in x.floor..x.snap : ws[v]["oauth"]

\* A request has a call from the proxied call on, and no other request has one.
Shape(x) ==
  /\ x.call # NoCall =>
       x.kind = "object" /\ (x.phase = "over" \/ (x.phase = "gates" /\ x.gate >= 8))
  /\ x.phase = "gates" /\ x.kind = "object" /\ x.gate >= 8 => x.call \in Calls
  /\ x.kind = "object" => x.phase # "served"

\* A request that may still come to a gate that counts failures has none.
Uncounted(x) ==
  \/ x.kind = "mcp" /\ x.phase # "over"
  \/ x.phase = "gates" /\ x.gate = 1
  \/ x.phase = "gates" /\ x.kind = "object" /\ x.gate <= 4

Counts(x) == x.failures <= 1 /\ (Uncounted(x) => x.failures = 0)

ReqInv(x, ws) ==
  Placed(x, ws) /\ (Admitted(x) => GoodAt(x, x.user, ws)) /\ Shape(x) /\ Counts(x)

\* What a request is to report or has written is so, m being the calls that have
\* committed; and once it is past writing its row it has one, or its call is in
\* l, the calls that lost theirs.
CallTrue(x, m, l) ==
  x.call # NoCall =>
    /\ x.reply = "success" => x.call \in m
    /\ x.phase = "over" \/ x.gate = 9 =>
         /\ x.row # "none" \/ x.call \in l
         /\ x.row = "success" => x.call \in m

DoorInv ==
  /\ Types
  /\ \A l \in {"bearer", "row"} : Hits(l) <= FailureMax
  /\ \A t \in Threads : reqs[t] # Idle =>
       ReqInv(reqs[t], worlds) /\ CallTrue(reqs[t], made, lost)
  /\ LegacyLogIsTrue

-----------------------------------------------------------------------------
(***************************************************************************)
(* The failures in the window.                                             *)
(***************************************************************************)
Failures == (SUBSET {"bearer", "row"}) \ {{}}

Places(s, l) == {i \in DOMAIN s : l \in s[i]}

\* A limiter counts no more failures than the window has.
LEMMA PlacesAreFew ==
  ASSUME NEW s \in Seq(Failures), NEW l
  PROVE  /\ IsFiniteSet(Places(s, l)) /\ Cardinality(Places(s, l)) \in Nat
         /\ Cardinality(Places(s, l)) <= Len(s)
<1>1. DOMAIN s = 1..Len(s) /\ Len(s) \in Nat
  OBVIOUS
<1>2. IsFiniteSet(1..Len(s)) /\ Cardinality(1..Len(s)) = Len(s)
  BY <1>1, FS_Interval
<1>3. Places(s, l) \in SUBSET (1..Len(s))
  BY <1>1 DEF Places
<1>4. IsFiniteSet(Places(s, l)) /\ Cardinality(Places(s, l)) <= Len(s)
  BY <1>2, <1>3, FS_Subset
<1> QED BY <1>4, FS_CardinalityType

\* A failure adds one to the limiters it was recorded in.
LEMMA AppendedPlaces ==
  ASSUME NEW s \in Seq(Failures), NEW hits \in Failures, NEW l
  PROVE  Cardinality(Places(Append(s, hits), l)) =
           Cardinality(Places(s, l)) + (IF l \in hits THEN 1 ELSE 0)
<1> DEFINE n == Len(s) + 1  u == Append(s, hits)
<1>1. /\ u \in Seq(Failures) /\ DOMAIN u = 1..n /\ u[n] = hits /\ DOMAIN s = 1..Len(s)
      /\ \A i \in DOMAIN s : u[i] = s[i]
  BY AppendProperties
<1>2. Len(s) \in Nat /\ n \in Nat /\ n \notin DOMAIN s /\ 1..n = DOMAIN s \cup {n}
  BY <1>1
<1> HIDE DEF u, n
<1>3. Places(u, l) = IF l \in hits THEN Places(s, l) \cup {n} ELSE Places(s, l)
  BY <1>1, <1>2 DEF Places
<1>4. n \notin Places(s, l)
  BY <1>2 DEF Places
<1>5. Cardinality(Places(s, l) \cup {n}) = Cardinality(Places(s, l)) + 1
  BY <1>4, PlacesAreFew, FS_AddElement
<1>6. Cardinality(Places(u, l)) = Cardinality(Places(s, l)) + (IF l \in hits THEN 1 ELSE 0)
  BY <1>3, <1>5, PlacesAreFew
<1> QED BY <1>6 DEF u

\* When the oldest failure leaves the window no limiter counts more.
LEMMA ForgottenPlaces ==
  ASSUME NEW s \in Seq(Failures), s # <<>>, NEW l
  PROVE  Tail(s) \in Seq(Failures) /\ Cardinality(Places(Tail(s), l)) <= Cardinality(Places(s, l))
<1> DEFINE u == Tail(s)
           f == [i \in Places(u, l) |-> i + 1]
<1>1. /\ u \in Seq(Failures) /\ Len(s) \in Nat /\ DOMAIN u = 1..(Len(s) - 1)
      /\ DOMAIN s = 1..Len(s) /\ \A i \in DOMAIN u : u[i] = s[i + 1]
  BY HeadTailProperties
<1> HIDE DEF u
<1>2. \A i \in Places(u, l) : i \in Nat /\ i + 1 \in Places(s, l)
  BY <1>1 DEF Places
<1>3. f \in Injection(Places(u, l), Places(s, l))
  <2>1. f \in [Places(u, l) -> Places(s, l)]
    BY <1>2
  <2>2. \A i, j \in Places(u, l) : f[i] = f[j] => i = j
    BY <1>2
  <2> QED BY <2>1, <2>2, Fun_IsInj
<1>4. Cardinality(Places(u, l)) <= Cardinality(Places(s, l))
  <2> HIDE DEF f
  <2> QED BY <1>3, PlacesAreFew, FS_Injection
<1> QED BY <1>1, <1>4 DEF u

\* What a failed check does to the window: no limiter exceeds its maximum, and
\* its row is tried unless the window is full of failures.
LEMMA FailedOnce ==
  ASSUME Types, \A l \in {"bearer", "row"} : Hits(l) <= FailureMax,
         NEW t, NEW limiters \in {{"row"}, {"bearer", "row"}}, NEW fate, Fail(t, limiters, fate)
  PROVE  /\ recent' \in Seq(Failures)
         /\ \A l \in {"bearer", "row"} : Hits(l)' <= FailureMax
         /\ Len(recent) >= FailureMax \/ fate \in {"written", "swallowed"}
         /\ fate \in Fates
<1> DEFINE hits == Recorded(limiters)
<1>1. recent \in Seq(Failures) /\ FailureMax \in Nat
  BY BoundsAreBounds DEF Types, Failures
<1>2. \A l : /\ Hits(l) = Cardinality(Places(recent, l))
             /\ Hits(l)' = Cardinality(Places(recent', l))
  BY DEF Hits, Places
<1>3. /\ recent' = IF hits = {} THEN recent ELSE Append(recent, hits)
      /\ hits \subseteq limiters
      /\ \A l \in hits : ~Full(l)
      /\ "row" \notin hits => Full("row") \/ Full("bearer")
      /\ fate \in IF "row" \in hits THEN {"written", "swallowed"} ELSE {"throttled"}
  BY DEF Fail, Recorded
<1>4. \A l : Full(l) => Len(recent) >= FailureMax
  BY <1>1, <1>2, PlacesAreFew DEF Full
<1> HIDE DEF hits
<1>5. CASE hits = {}
  BY <1>1, <1>2, <1>3, <1>4, <1>5 DEF Fates
<1>6. CASE hits # {}
  <2>1. hits \in Failures /\ recent' = Append(recent, hits)
    <3>1. limiters \subseteq {"bearer", "row"}
      OBVIOUS
    <3>2. hits \in SUBSET {"bearer", "row"} /\ hits # {}
      BY <1>3, <1>6, <3>1
    <3> QED BY <1>3, <3>2 DEF Failures
  <2>2. /\ recent' \in Seq(Failures) /\ Len(recent') = Len(recent) + 1
        /\ recent'[Len(recent')] = hits /\ Len(recent) \in Nat
    BY <1>1, <2>1, AppendProperties
  <2>3. ASSUME NEW l \in {"bearer", "row"} PROVE Hits(l)' <= FailureMax
    <3>1. Hits(l)' = Hits(l) + (IF l \in hits THEN 1 ELSE 0) /\ Hits(l) \in Nat
      BY <1>1, <1>2, <2>1, AppendedPlaces, PlacesAreFew
    <3>2. CASE l \in hits
      BY <1>1, <1>3, <3>1, <3>2 DEF Full
    <3>3. CASE l \notin hits
      BY <3>1, <3>3
    <3> QED BY <3>2, <3>3
  <2>4. (Len(recent) >= FailureMax \/ fate \in {"written", "swallowed"}) /\ fate \in Fates
    BY <1>3, <1>4 DEF Fates
  <2> QED BY <2>2, <2>3, <2>4
<1> QED BY <1>5, <1>6

-----------------------------------------------------------------------------
(***************************************************************************)
(* Requests as records.                                                    *)
(***************************************************************************)

\* Where the gates stand that an action of their own passes, and how long the
\* routes are that go on after their last gate.
LEMMA RouteGates ==
  ASSUME NEW k \in Kinds
  PROVE  /\ Len(Route(k)) \in 1..9
         /\ k = "mcp" => Len(Route(k)) = 3
         /\ k = "object" => Len(Route(k)) = 9
         /\ \A g \in 1..Len(Route(k)) :
              /\ Route(k)[g] = "bearer" <=> k = "mcp" /\ g = 1
              /\ Route(k)[g] = "key" <=> k \in {"info", "access"} /\ g = 1
              /\ Route(k)[g] = "identify" <=> k = "object" /\ g = 4
              /\ Route(k)[g] = "dispatch" <=> k = "object" /\ g = 7
              /\ Route(k)[g] = "log" <=> k = "object" /\ g = 8
              /\ Route(k)[g] = "marshal" <=> k = "object" /\ g = 9
<1>1. CASE k = "mcp"
  <2>1. Route(k) = <<"bearer", "origin", "version">>
    BY <1>1 DEF Route
  <2> QED BY <1>1, <2>1
<1>2. CASE k = "open"
  <2>1. Route(k) = <<"switch">>
    BY <1>2 DEF Route
  <2> QED BY <1>2, <2>1
<1>3. CASE k = "info"
  <2>1. Route(k) = <<"key", "limit", "switch">>
    BY <1>3 DEF Route
  <2> QED BY <1>3, <2>1
<1>4. CASE k = "access"
  <2>1. Route(k) = <<"key", "limit", "switch", "name", "exists", "enabled">>
    BY <1>4 DEF Route
  <2> QED BY <1>4, <2>1
<1>5. CASE k = "object"
  <2>1. Route(k) = <<"switch", "shape", "name", "identify", "limit", "access",
                     "dispatch", "log", "marshal">>
    BY <1>5 DEF Route
  <2> QED BY <1>5, <2>1
<1> QED BY <1>1, <1>2, <1>3, <1>4, <1>5 DEF Kinds

\* A request is told from an idle thread by its fields.
LEMMA RequestsAreNotIdle ==
  ASSUME NEW x \in ReqType
  PROVE  x # Idle /\ x.phase # "idle"
BY DEF ReqType, Idle

\* What going on to the next gate changes.
LEMMA OnwardChanges ==
  ASSUME NEW x \in ReqType, x.gate <= Len(Route(x.kind)), NEW u \in Users \cup {NoUser}
  PROVE  /\ Onward(x, u) \in ReqType
         /\ Onward(x, u).user = u
         /\ x.gate = Len(Route(x.kind)) =>
              Onward(x, u).phase = "served" /\ Onward(x, u).gate = x.gate
         /\ x.gate # Len(Route(x.kind)) =>
              Onward(x, u).phase = x.phase /\ Onward(x, u).gate = x.gate + 1
         /\ Onward(x, u).kind = x.kind /\ Onward(x, u).cred = x.cred
         /\ Onward(x, u).snap = x.snap /\ Onward(x, u).floor = x.floor
         /\ Onward(x, u).failures = x.failures /\ Onward(x, u).row = x.row
         /\ Onward(x, u).call = x.call /\ Onward(x, u).reply = x.reply
<1>1. Len(Route(x.kind)) \in 1..9 /\ x.gate \in 1..9
  BY RouteGates DEF ReqType
<1>2. CASE x.gate = Len(Route(x.kind))
  <2>1. Onward(x, u) = [x EXCEPT !.phase = "served", !.user = u]
    BY <1>2 DEF Onward
  <2> QED BY <1>2, <2>1 DEF ReqType
<1>3. CASE x.gate # Len(Route(x.kind))
  <2>1. Onward(x, u) = [x EXCEPT !.gate = @ + 1, !.user = u]
    BY <1>3 DEF Onward
  <2>2. x.gate + 1 \in 1..9
    <3> DEFINE last == Len(Route(x.kind))
    <3>1. last \in 1..9 /\ x.gate \in 1..9 /\ x.gate <= last /\ x.gate # last
      BY <1>1, <1>3
    <3> HIDE DEF last
    <3> QED BY <3>1
  <2> QED BY <1>3, <2>1, <2>2 DEF ReqType
<1> QED BY <1>2, <1>3

\* What ending changes.
LEMMA OverChanges ==
  ASSUME NEW x \in ReqType, NEW row \in Rows
  PROVE  /\ Over(x, row) \in ReqType
         /\ Over(x, row).phase = "over" /\ Over(x, row).row = row
         /\ Over(x, row).kind = x.kind /\ Over(x, row).gate = x.gate
         /\ Over(x, row).snap = 1 /\ Over(x, row).floor = 1
         /\ Over(x, row).failures = x.failures /\ Over(x, row).fate = x.fate
         /\ Over(x, row).call = x.call /\ Over(x, row).reply = x.reply
<1>1. Nothing \in Sent /\ NoUser \in Users \cup {NoUser}
  BY DEF Sent
<1> QED BY <1>1 DEF Over, ReqType

\* What a credential that is used up changes.
LEMMA UsedChanges ==
  ASSUME NEW x \in ReqType
  PROVE  /\ Used(x) \in ReqType
         /\ Used(x).phase = x.phase /\ Used(x).gate = x.gate /\ Used(x).kind = x.kind
         /\ Used(x).snap = x.snap /\ Used(x).floor = x.floor
         /\ Used(x).failures = x.failures /\ Used(x).fate = x.fate /\ Used(x).row = x.row
         /\ Used(x).call = x.call /\ Used(x).user = x.user
<1>1. Nothing \in Sent
  BY DEF Sent
<1> QED BY <1>1 DEF Used, ReqType

\* What a failed credential changes.
LEMMA FailedChanges ==
  ASSUME NEW x \in ReqType, NEW n \in Nat, NEW fate \in Fates
  PROVE  /\ Failed(x, n, fate) \in ReqType
         /\ Failed(x, n, fate).failures = x.failures + n /\ Failed(x, n, fate).fate = fate
         /\ Failed(x, n, fate).phase = x.phase /\ Failed(x, n, fate).gate = x.gate
         /\ Failed(x, n, fate).kind = x.kind /\ Failed(x, n, fate).cred = x.cred
         /\ Failed(x, n, fate).snap = x.snap /\ Failed(x, n, fate).floor = x.floor
         /\ Failed(x, n, fate).row = x.row /\ Failed(x, n, fate).call = x.call
<1> DEFINE m == x.failures + n  y == [x EXCEPT !.failures = m, !.fate = fate]
<1>1. m \in Nat /\ fate \in Fates
  BY DEF ReqType
<1>2. Failed(x, n, fate) = y
  BY DEF Failed
<1> HIDE DEF m
<1>3. y \in ReqType
  BY <1>1 DEF ReqType
<1>4. /\ y.failures = m /\ y.fate = fate /\ y.phase = x.phase /\ y.gate = x.gate
      /\ y.kind = x.kind /\ y.cred = x.cred /\ y.snap = x.snap /\ y.floor = x.floor
      /\ y.row = x.row /\ y.call = x.call
  BY DEF ReqType
<1> HIDE DEF y
<1> QED BY <1>2, <1>3, <1>4 DEF m

\* A request at a gate, before the proxied call, goes on to the next; one that
\* leaves the bearer door is as good as its credential.
LEMMA GoesOn ==
  ASSUME NEW ws, Len(ws) \in Nat, NEW x \in ReqType, Placed(x, ws),
         x.phase = "gates", x.kind = "object" => x.gate < 7,
         x.call = NoCall, x.failures <= 1,
         x.failures # 0 => x.kind \in {"info", "access"} \/ (x.kind = "object" /\ x.gate >= 4),
         NEW u \in Users \cup {NoUser}, x.kind = "mcp" => GoodAt(x, u, ws)
  PROVE  Onward(x, u) \in ReqType /\ ReqInv(Onward(x, u), ws) /\ Onward(x, u).call = NoCall
<1> DEFINE y == Onward(x, u)
<1>1. x.gate <= Len(Route(x.kind)) /\ x.gate \in 1..9 /\ x.kind \in Kinds
  BY DEF Placed, ReqType
<1>2. /\ y \in ReqType /\ y.user = u
      /\ x.gate = Len(Route(x.kind)) => y.phase = "served" /\ y.gate = x.gate
      /\ x.gate # Len(Route(x.kind)) => y.phase = "gates" /\ y.gate = x.gate + 1
      /\ y.kind = x.kind /\ y.cred = x.cred /\ y.snap = x.snap /\ y.floor = x.floor
      /\ y.failures = x.failures /\ y.call = NoCall
  BY <1>1, OnwardChanges
<1> HIDE DEF y
<1>3. /\ Len(Route(x.kind)) \in 1..9
      /\ x.kind = "object" => Len(Route(x.kind)) = 9
  BY <1>1, RouteGates
<1>4. Placed(y, ws)
  BY <1>1, <1>2, <1>3 DEF Placed
<1>5. Admitted(y) => GoodAt(y, y.user, ws)
  BY <1>2 DEF GoodAt, Admitted
<1>6. x.kind = "object" => y.phase = "gates" /\ y.gate < 8
  <2>1. SUFFICES ASSUME x.kind = "object" PROVE x.gate # Len(Route(x.kind)) /\ x.gate + 1 < 8
    BY <1>2
  <2>2. x.gate < 7 /\ Len(Route(x.kind)) = 9 /\ x.gate \in 1..9
    BY <1>1, <1>3, <2>1
  <2> QED BY ONLY <2>2
<1>7. Shape(y)
  <2>1. y.kind = "object" => y.phase = "gates" /\ ~(y.gate >= 8)
    <3>1. y.gate \in 1..9
      BY <1>2 DEF ReqType
    <3> QED BY <1>2, <1>6, <3>1
  <2> QED BY <1>2, <2>1 DEF Shape
<1>8. Counts(y)
  <2>1. CASE x.failures = 0
    BY <1>2, <2>1 DEF Counts
  <2>2. CASE x.failures # 0
    <3>1. ~Uncounted(y)
      BY <1>1, <1>2, <1>3, <2>2 DEF Uncounted
    <3> QED BY <1>2, <3>1 DEF Counts
  <2> QED BY <2>1, <2>2
<1> QED BY <1>2, <1>4, <1>5, <1>7, <1>8 DEF ReqInv, y

\* A request that is over is as the invariant has it.
LEMMA Ends ==
  ASSUME NEW ws, Len(ws) \in Nat, NEW x \in ReqType, Placed(x, ws), x.failures <= 1,
         x.call # NoCall => x.kind = "object", NEW row \in Rows
  PROVE  Over(x, row) \in ReqType /\ ReqInv(Over(x, row), ws)
<1> DEFINE y == Over(x, row)
<1>1. /\ y \in ReqType /\ y.phase = "over" /\ y.kind = x.kind /\ y.gate = x.gate
      /\ y.snap = 1 /\ y.floor = 1 /\ y.failures = x.failures
      /\ y.call = x.call
  BY OverChanges
<1>2. 1 <= Len(ws) /\ x.gate <= Len(Route(x.kind))
  <2>1. x.snap \in Nat /\ x.floor \in Nat /\ 1 <= x.floor /\ x.floor <= x.snap /\ x.snap <= Len(ws)
    BY DEF Placed, ReqType
  <2> QED BY <2>1 DEF Placed
<1> HIDE DEF y
<1>3. Placed(y, ws) /\ ~Admitted(y) /\ Shape(y)
  BY <1>1, <1>2 DEF Placed, Admitted, Shape
<1>4. Counts(y)
  BY <1>1 DEF Counts, Uncounted
<1> QED BY <1>1, <1>3, <1>4 DEF ReqInv, y

\* What the invariant says of a request at a gate before the proxied call is
\* what the two lemmas above ask for.
LEMMA AtGates ==
  ASSUME NEW ws, NEW x \in ReqType, ReqInv(x, ws), x.phase = "gates",
         x.kind = "object" => x.gate < 8
  PROVE  /\ Placed(x, ws) /\ x.call = NoCall /\ x.failures <= 1
         /\ x.failures # 0 => x.kind \in {"info", "access"} \/ (x.kind = "object" /\ x.gate >= 4)
         /\ x.gate = 1 \/ (x.kind = "object" /\ x.gate = 4) => x.failures = 0
         /\ x.gate \in 1..Len(Route(x.kind))
<1>1. Placed(x, ws) /\ Shape(x) /\ Counts(x) /\ x.gate \in 1..9 /\ x.kind \in Kinds
  BY DEF ReqInv, ReqType
<1>2. x.kind = "object" => ~(x.gate >= 8)
  BY <1>1
<1>3. x.call = NoCall
  BY <1>1, <1>2 DEF Shape
<1>4. x.failures <= 1 /\ (Uncounted(x) => x.failures = 0)
  BY <1>1 DEF Counts
<1>5. x.failures # 0 => x.kind \in {"info", "access"} \/ (x.kind = "object" /\ x.gate >= 4)
  <2>1. CASE x.kind = "open"
    <3>1. Route("open") = <<"switch">>
      BY DEF Route
    <3>2. Len(Route("open")) = 1 /\ x.gate <= Len(Route("open"))
      BY <1>1, <2>1, <3>1 DEF Placed
    <3>3. x.gate = 1
      <4> DEFINE last == Len(Route("open"))
      <4>1. last = 1 /\ x.gate <= last /\ x.gate \in 1..9
        BY <1>1, <3>2
      <4> HIDE DEF last
      <4> QED BY ONLY <4>1
    <3> QED BY <1>4, <3>3 DEF Uncounted
  <2>2. CASE x.kind # "open"
    BY <1>1, <1>4, <2>2 DEF Uncounted, Kinds
  <2> QED BY <2>1, <2>2
<1>6. x.gate \in 1..Len(Route(x.kind))
  <2>1. Len(Route(x.kind)) \in 1..9 /\ x.gate <= Len(Route(x.kind))
    BY <1>1, RouteGates DEF Placed
  <2> QED BY <1>1, <2>1
<1> QED BY <1>1, <1>3, <1>4, <1>5, <1>6 DEF Uncounted

-----------------------------------------------------------------------------
(***************************************************************************)
(* Steps that change one request.                                          *)
(***************************************************************************)

\* A thread that is not idle has a request of which the invariant holds.
LEMMA InvariantOfRequest ==
  ASSUME DoorInv, NEW t \in Threads, reqs[t].phase # "idle"
  PROVE  /\ reqs[t] \in ReqType /\ ReqInv(reqs[t], worlds)
         /\ CallTrue(reqs[t], made, lost)
         /\ worlds \in Seq([Items -> BOOLEAN]) /\ Len(worlds) \in Nat
<1>1. reqs[t] # Idle
  BY DEF Idle
<1> QED BY <1>1 DEF DoorInv, Types

\* What calls have made, lost or under way stays so when one thread's request is
\* given another that has the same call.
LEMMA CallsGoOn ==
  ASSUME DoorInv, NEW t \in Threads, NEW y \in ReqType, reqs' = [reqs EXCEPT ![t] = y],
         reqs[t] = Idle \/ reqs[t].call \in {NoCall, y.call},
         UNCHANGED entries, made \subseteq made', made' \subseteq made \cup {y.call},
         lost \subseteq lost'
  PROVE  /\ LegacyLogIsTrue'
         /\ \A u \in Threads : reqs[u] # Idle => CallTrue(reqs[u], made', lost')
<1>1. /\ reqs \in [Threads -> ReqType \cup {Idle}] /\ LegacyLogIsTrue
      /\ \A u \in Threads : reqs[u] # Idle => CallTrue(reqs[u], made, lost)
  BY DEF DoorInv, Types
<1>2. \A u \in Threads : reqs[u] # Idle => CallTrue(reqs[u], made', lost')
  BY <1>1 DEF CallTrue
<1>3. y # Idle /\ reqs'[t] = y /\ \A u \in Threads : u # t => reqs'[u] = reqs[u]
  BY <1>1, RequestsAreNotIdle
<1>4. ASSUME NEW c \in Calls, InFlight(c) \/ c = y.call PROVE InFlight(c)'
  <2>1. CASE c = y.call
    BY <1>3, <2>1 DEF InFlight, Holds
  <2>2. CASE c # y.call
    <3>1. PICK u \in Threads : reqs[u] # Idle /\ reqs[u].call = c
      BY <1>4, <2>2 DEF InFlight, Holds
    <3>2. u # t
      BY <2>2, <3>1, NamesAreDistinct
    <3> QED BY <1>3, <3>1, <3>2 DEF InFlight, Holds
  <2> QED BY <2>1, <2>2
<1>5. ASSUME NEW c \in Calls
      PROVE  /\ entries'[c] = "success" => c \in made'
             /\ c \in made' => entries'[c] # "none" \/ c \in lost' \/ InFlight(c)'
  <2>1. /\ entries[c] = "success" => c \in made
        /\ c \in made => entries[c] # "none" \/ c \in lost \/ InFlight(c)
    BY <1>1 DEF LegacyLogIsTrue
  <2> QED BY <1>4, <2>1
<1> QED BY <1>2, <1>5 DEF LegacyLogIsTrue

\* A step that gives one thread a request as the invariant has it, and keeps
\* the window within its maximum.
LEMMA OneRequest ==
  ASSUME DoorInv, NEW t \in Threads, NEW y \in ReqType, reqs' = [reqs EXCEPT ![t] = y],
         ReqInv(y, worlds), CallTrue(y, made', lost'),
         reqs[t] = Idle \/ reqs[t].call \in {NoCall, y.call},
         UNCHANGED <<worlds, signalled, entries>>, recent' \in Seq(Failures),
         \A l \in {"bearer", "row"} : Hits(l)' <= FailureMax,
         made \subseteq made', made' \subseteq made \cup {y.call}, made' \in SUBSET Calls,
         lost \subseteq lost', lost' \in SUBSET Calls
  PROVE  DoorInv'
<1>1. Types /\ \A u \in Threads : reqs[u] # Idle => ReqInv(reqs[u], worlds)
  BY DEF DoorInv
<1>2. worlds' = worlds /\ signalled' = signalled /\ entries' = entries
  OBVIOUS
<1>3. reqs' \in [Threads -> ReqType \cup {Idle}]
  BY <1>1 DEF Types
<1>4. Types'
  BY <1>1, <1>2, <1>3 DEF Types, Latest, Failures
<1>5. LegacyLogIsTrue' /\ \A u \in Threads : reqs[u] # Idle => CallTrue(reqs[u], made', lost')
  BY CallsGoOn
<1>6. ASSUME NEW u \in Threads, reqs'[u] # Idle
      PROVE  ReqInv(reqs'[u], worlds') /\ CallTrue(reqs'[u], made', lost')
  <2>1. reqs'[u] = IF u = t THEN y ELSE reqs[u]
    BY <1>1 DEF Types
  <2> QED BY <1>1, <1>2, <1>5, <1>6, <2>1
<1> QED BY <1>4, <1>5, <1>6 DEF DoorInv

\* The same, of a request without a call.
LEMMA OneWithoutCall ==
  ASSUME DoorInv, NEW t \in Threads, NEW y \in ReqType, reqs' = [reqs EXCEPT ![t] = y],
         ReqInv(y, worlds), y.call = NoCall, reqs[t] = Idle \/ reqs[t].call = NoCall,
         UNCHANGED <<config, ledger>>, recent' \in Seq(Failures),
         \A l \in {"bearer", "row"} : Hits(l)' <= FailureMax
  PROVE  DoorInv'
<1>1. /\ UNCHANGED <<worlds, signalled, entries>> /\ made' = made /\ lost' = lost
      /\ made \in SUBSET Calls /\ lost \in SUBSET Calls
  BY DEF config, ledger, DoorInv, Types
<1>2. CallTrue(y, made', lost')
  BY DEF CallTrue
<1> QED BY <1>1, <1>2, OneRequest

\* A window that stays as it is stays within its maximum.
LEMMA SameWindow ==
  ASSUME DoorInv, UNCHANGED recent
  PROVE  recent' \in Seq(Failures) /\ \A l \in {"bearer", "row"} : Hits(l)' <= FailureMax
<1>1. recent \in Seq(Failures) /\ \A l \in {"bearer", "row"} : Hits(l) <= FailureMax
  BY DEF DoorInv, Types, Failures
<1>2. \A l \in {"bearer", "row"} : Hits(l)' = Hits(l)
  BY DEF Hits
<1> QED BY <1>1, <1>2

\* A request arrives, with nothing done and nothing counted.
LEMMA BeginStep ==
  ASSUME DoorInv, NEW t \in Threads, NEW arrival \in Arrivals,
         Begin(t, arrival[1], arrival[2])
  PROVE  DoorInv'
<1> DEFINE y == [phase |-> "gates", kind |-> arrival[1], gate |-> 1, cred |-> arrival[2],
                 user |-> NoUser, try |-> 1, snap |-> Latest, floor |-> signalled,
                 failures |-> 0, fate |-> "none", row |-> "none", call |-> NoCall,
                 reply |-> "none"]
<1>1. /\ reqs' = [reqs EXCEPT ![t] = y] /\ reqs[t] = Idle
      /\ UNCHANGED <<config, recent, ledger>>
  BY DEF Begin
<1>2. arrival[1] \in Kinds /\ arrival[2] \in Sent
  BY DEF Arrivals, Kinds, Sent
<1>3. Len(worlds) \in Nat /\ signalled \in 1..Len(worlds)
  BY DEF DoorInv, Types, Latest
<1>4. 1 \in 1..MaxTries /\ signalled \in Nat /\ 1 <= signalled /\ signalled <= Len(worlds)
  BY <1>3, BoundsAreBounds
<1>5. y \in ReqType
  BY <1>2, <1>3, <1>4 DEF ReqType, Rows, Fates, Latest
<1>6. /\ y.phase = "gates" /\ y.gate = 1 /\ y.failures = 0 /\ y.call = NoCall
      /\ y.kind = arrival[1] /\ y.snap = Len(worlds) /\ y.floor = signalled
  BY DEF Latest
<1> HIDE DEF y
<1>7. Placed(y, worlds)
  <2>1. Len(Route(y.kind)) \in 1..9
    BY <1>2, <1>6, RouteGates
  <2>2. 1 <= Len(Route(y.kind))
    <3> DEFINE last == Len(Route(y.kind))
    <3>1. last \in 1..9
      BY <2>1
    <3> HIDE DEF last
    <3>2. 1 <= last
      BY ONLY <3>1
    <3> QED BY <3>2 DEF last
  <2> QED BY <1>3, <1>4, <1>6, <2>2 DEF Placed
<1>8. ~Admitted(y) /\ Shape(y) /\ Counts(y)
  BY <1>6 DEF Admitted, Shape, Counts
<1>9. ReqInv(y, worlds)
  BY <1>7, <1>8 DEF ReqInv
<1>10. recent' \in Seq(Failures) /\ \A l \in {"bearer", "row"} : Hits(l)' <= FailureMax
  BY <1>1, SameWindow
<1> QED BY <1>1, <1>5, <1>6, <1>9, <1>10, OneWithoutCall

\* The user of a key, or NoUser.
LEMMA KeysHaveUsers ==
  ASSUME NEW w \in [Items -> BOOLEAN], NEW cred \in Sent, NEW scopes
  PROVE  /\ KeyUser(w, cred, scopes) \in Users \cup {NoUser}
         /\ KeyUser(w, cred, scopes) # NoUser =>
              /\ cred \in Creds /\ Describe[cred].door = "key" /\ w[cred]
              /\ KeyUser(w, cred, scopes) = Describe[cred].user
              /\ w[Describe[cred].user]
<1>1. cred \in Creds => Describe[cred].user \in Users
  BY CredsAreDescribed DEF Description
<1> QED BY <1>1 DEF KeyUser, Of

\* The user of a token, or NoUser.
LEMMA TokensHaveUsers ==
  ASSUME NEW w \in [Items -> BOOLEAN], NEW cred \in Sent
  PROVE  /\ TokenUser(w, cred) \in Users \cup {NoUser}
         /\ TokenUser(w, cred) # NoUser =>
              /\ cred \in Creds /\ Describe[cred].door = "token" /\ w[cred]
              /\ TokenUser(w, cred) = Describe[cred].user
              /\ w[Describe[cred].user] /\ w[Describe[cred].client] /\ Describe[cred].here
<1>1. cred \in Creds => Describe[cred].user \in Users
  BY CredsAreDescribed DEF Description
<1> QED BY <1>1 DEF TokenUser, Of

\* Whom the bearer door lets in is good at the snapshot.
LEMMA BearerIsGood ==
  ASSUME DoorInv, NEW t \in Threads, reqs[t].phase # "idle", NEW user \in BearerUsers(t)
  PROVE  /\ user \in Users \cup {NoUser}
         /\ user # NoUser => GoodAt(reqs[t], user, worlds)
<1> DEFINE x == reqs[t]
           w == worlds[x.snap]
           byKey == KeyUser(w, x.cred, {"mcp", "rpc"})
<1>1. x \in ReqType /\ ReqInv(x, worlds) /\ worlds \in Seq([Items -> BOOLEAN]) /\ Len(worlds) \in Nat
  BY InvariantOfRequest
<1>2. /\ x.cred \in Sent /\ x.snap \in Nat /\ x.floor \in Nat
      /\ 1 <= x.floor /\ x.floor <= x.snap /\ x.snap <= Len(worlds)
  BY <1>1 DEF ReqType, ReqInv, Placed
<1>3. w \in [Items -> BOOLEAN]
  <2>1. x.snap \in 1..Len(worlds)
    BY <1>1, <1>2
  <2> QED BY <1>1, <2>1
<1>4. user \in IF byKey # NoUser THEN {byKey}
               ELSE {IF on THEN TokenUser(w, x.cred) ELSE NoUser :
                       on \in {worlds[v]["oauth"] : v \in x.floor..x.snap}}
  BY DEF BearerUsers, World, Cached
<1>5. /\ byKey \in Users \cup {NoUser}
      /\ byKey # NoUser => /\ x.cred \in Creds /\ Describe[x.cred].door = "key" /\ w[x.cred]
                           /\ byKey = Describe[x.cred].user /\ w[Describe[x.cred].user]
  BY <1>2, <1>3, KeysHaveUsers
<1>6. /\ TokenUser(w, x.cred) \in Users \cup {NoUser}
      /\ TokenUser(w, x.cred) # NoUser =>
           /\ x.cred \in Creds /\ Describe[x.cred].door = "token" /\ w[x.cred]
           /\ TokenUser(w, x.cred) = Describe[x.cred].user
           /\ w[Describe[x.cred].user] /\ w[Describe[x.cred].client] /\ Describe[x.cred].here
  BY <1>2, <1>3, TokensHaveUsers
<1> HIDE DEF byKey
<1>7. CASE byKey # NoUser
  <2>1. user = byKey
    BY <1>4, <1>7
  <2> QED BY <1>5, <1>7, <2>1 DEF GoodAt
<1>8. CASE byKey = NoUser
  <2>1. PICK v \in x.floor..x.snap :
          user = IF worlds[v]["oauth"] THEN TokenUser(w, x.cred) ELSE NoUser
    BY <1>4, <1>8
  <2>2. user \in Users \cup {NoUser}
    BY <1>6, <2>1
  <2>3. ASSUME user # NoUser PROVE worlds[v]["oauth"] /\ user = TokenUser(w, x.cred)
    BY <2>1, <2>3
  <2> QED BY <1>6, <2>2, <2>3 DEF GoodAt
<1> QED BY <1>7, <1>8

\* There are finitely many worlds.
LEMMA HistoryHasLength ==
  ASSUME DoorInv
  PROVE  Len(worlds) \in Nat
BY DEF DoorInv, Types

\* A request at a gate has one, and the invariant holds of it.
LEMMA RequestAtGate ==
  ASSUME DoorInv, NEW t \in Threads, reqs[t].phase = "gates"
  PROVE  /\ reqs[t] \in ReqType /\ ReqInv(reqs[t], worlds) /\ Len(worlds) \in Nat
         /\ reqs[t].kind \in Kinds /\ reqs[t].gate \in 1..Len(Route(reqs[t].kind))
         /\ reqs[t].gate \in 1..9
<1> DEFINE x == reqs[t]
<1>1. x \in ReqType /\ ReqInv(x, worlds) /\ Len(worlds) \in Nat
  BY InvariantOfRequest
<1> HIDE DEF x
<1>2. x.kind \in Kinds /\ x.gate \in 1..9
  BY <1>1 DEF ReqType
<1>3. Len(Route(x.kind)) \in 1..9 /\ x.gate <= Len(Route(x.kind))
  BY <1>1, <1>2, RouteGates DEF ReqInv, Placed
<1>4. x.gate \in 1..Len(Route(x.kind))
  BY <1>2, <1>3
<1> QED BY <1>1, <1>2, <1>4 DEF x

\* What a failure, or none, leaves of a request without a call.
LEMMA FailedRequest ==
  ASSUME NEW ws, NEW x \in ReqType, Placed(x, ws), x.call = NoCall,
         NEW n \in {0, 1}, NEW fate \in Fates, x.failures <= 1, n = 1 => x.failures = 0,
         NEW y, y = x \/ y = Failed(x, n, fate)
  PROVE  /\ y \in ReqType /\ Placed(y, ws) /\ y.call = NoCall /\ y.failures <= 1
         /\ y.failures # 0 => n = 1 \/ x.failures # 0
         /\ y.phase = x.phase /\ y.kind = x.kind /\ y.gate = x.gate /\ y.cred = x.cred
         /\ y.snap = x.snap /\ y.floor = x.floor
<1>1. CASE y = x
  BY <1>1
<1>2. CASE y = Failed(x, n, fate)
  <2>1. n \in Nat
    OBVIOUS
  <2>2. /\ y \in ReqType /\ y.failures = x.failures + n /\ y.gate = x.gate
        /\ y.kind = x.kind /\ y.snap = x.snap /\ y.floor = x.floor /\ y.call = x.call
        /\ y.phase = x.phase /\ y.cred = x.cred
    BY <1>2, <2>1, FailedChanges
  <2>3. x.failures \in Nat
    BY DEF ReqType
  <2>4. Placed(y, ws)
    BY <2>2 DEF Placed
  <2>5. y.failures <= 1 /\ (y.failures # 0 => n = 1 \/ x.failures # 0)
    BY <2>2, <2>3
  <2> QED BY <2>2, <2>4, <2>5
<1> QED BY <1>1, <1>2

\* A step that takes a request past a gate, with or without a failure.
LEMMA PastGate ==
  ASSUME DoorInv, NEW t \in Threads, reqs[t].phase = "gates",
         reqs[t].kind = "object" => reqs[t].gate < 7,
         NEW n \in {0, 1}, NEW fate \in Fates,
         n = 1 => \/ reqs[t].kind \in {"info", "access"} /\ reqs[t].gate = 1
                  \/ reqs[t].kind = "object" /\ reqs[t].gate = 4,
         NEW z, z = reqs[t] \/ z = Failed(reqs[t], n, fate),
         NEW y, y = z \/ (reqs[t].kind # "mcp" /\ y = Used(z)),
         NEW u \in Users \cup {NoUser}, reqs[t].kind = "mcp" => GoodAt(reqs[t], u, worlds),
         reqs' = [reqs EXCEPT ![t] = Onward(y, u)],
         UNCHANGED <<config, ledger>>, recent' \in Seq(Failures),
         \A l \in {"bearer", "row"} : Hits(l)' <= FailureMax
  PROVE  DoorInv'
<1> DEFINE x == reqs[t]
<1>1. /\ x \in ReqType /\ ReqInv(x, worlds) /\ Len(worlds) \in Nat /\ x.phase = "gates"
      /\ x.kind = "object" => x.gate < 7
      /\ x.gate \in 1..9
      /\ n = 1 => \/ x.kind \in {"info", "access"} /\ x.gate = 1
                  \/ x.kind = "object" /\ x.gate = 4
      /\ x.kind = "mcp" => GoodAt(x, u, worlds)
      /\ z = x \/ z = Failed(x, n, fate)
      /\ y = z \/ (x.kind # "mcp" /\ y = Used(z))
  BY RequestAtGate
<1> HIDE DEF x
<1>2. /\ Placed(x, worlds) /\ x.call = NoCall /\ x.failures <= 1
      /\ x.failures # 0 => x.kind \in {"info", "access"} \/ (x.kind = "object" /\ x.gate >= 4)
      /\ n = 1 => x.failures = 0
  <2>1. x.kind = "object" => x.gate < 8
    BY <1>1
  <2> QED BY <1>1, <2>1, AtGates
<1>3. /\ y \in ReqType /\ Placed(y, worlds) /\ y.call = NoCall /\ y.failures <= 1
      /\ y.failures # 0 => n = 1 \/ x.failures # 0
      /\ y.phase = x.phase /\ y.kind = x.kind /\ y.gate = x.gate
      /\ x.kind = "mcp" => y.cred = x.cred
      /\ y.snap = x.snap /\ y.floor = x.floor
  <2>1. /\ z \in ReqType /\ Placed(z, worlds) /\ z.call = NoCall /\ z.failures <= 1
        /\ z.failures # 0 => n = 1 \/ x.failures # 0
        /\ z.phase = x.phase /\ z.kind = x.kind /\ z.gate = x.gate /\ z.cred = x.cred
        /\ z.snap = x.snap /\ z.floor = x.floor
    BY <1>1, <1>2, FailedRequest
  <2>2. CASE y = z
    BY <2>1, <2>2
  <2>3. CASE x.kind # "mcp" /\ y = Used(z)
    BY <2>1, <2>3, UsedChanges DEF Placed
  <2> QED BY <1>1, <2>2, <2>3
<1>4. y.kind = "mcp" => GoodAt(y, u, worlds)
  BY <1>1, <1>3 DEF GoodAt
<1>5. y.phase = "gates" /\ (y.kind = "object" => y.gate < 7)
  BY <1>1, <1>3
<1>6. y.failures # 0 => y.kind \in {"info", "access"} \/ (y.kind = "object" /\ y.gate >= 4)
  BY <1>1, <1>2, <1>3
<1>7. Onward(y, u) \in ReqType /\ ReqInv(Onward(y, u), worlds) /\ Onward(y, u).call = NoCall
  BY <1>1, <1>3, <1>4, <1>5, <1>6, GoesOn
<1>8. reqs[t].call = NoCall
  BY <1>2 DEF x
<1> QED BY <1>7, <1>8, OneWithoutCall

\* A step that ends a request at a gate before the proxied call has been made,
\* with or without a failure.
LEMMA EndsAtGate ==
  ASSUME DoorInv, NEW t \in Threads, reqs[t].phase = "gates",
         reqs[t].kind = "object" => reqs[t].gate < 8, NEW n \in {0, 1}, NEW fate \in Fates,
         n = 1 => reqs[t].gate = 1, NEW row \in Rows,
         NEW y, y = reqs[t] \/ y = Failed(reqs[t], n, fate),
         reqs' = [reqs EXCEPT ![t] = Over(y, row)],
         UNCHANGED <<config, ledger>>, recent' \in Seq(Failures),
         \A l \in {"bearer", "row"} : Hits(l)' <= FailureMax
  PROVE  DoorInv'
<1> DEFINE x == reqs[t]
<1>1. /\ x \in ReqType /\ ReqInv(x, worlds) /\ x.phase = "gates"
      /\ x.kind = "object" => x.gate < 8
      /\ n = 1 => x.gate = 1
      /\ y = x \/ y = Failed(x, n, fate)
  BY RequestAtGate
<1> HIDE DEF x
<1>2. /\ Placed(x, worlds) /\ x.call = NoCall /\ x.failures <= 1
      /\ n = 1 => x.failures = 0
  BY <1>1, AtGates
<1>3. y \in ReqType /\ Placed(y, worlds) /\ y.call = NoCall /\ y.failures <= 1
  BY <1>1, <1>2, FailedRequest
<1>4. Over(y, row) \in ReqType /\ ReqInv(Over(y, row), worlds) /\ Over(y, row).call = NoCall
  BY <1>3, Ends, HistoryHasLength, OverChanges
<1>5. reqs[t].call = NoCall
  BY <1>2 DEF x
<1> QED BY <1>4, <1>5, OneWithoutCall

\* The snapshot a request reads is one of the worlds.
LEMMA WorldsAreWorlds ==
  ASSUME DoorInv, NEW t \in Threads, reqs[t].phase = "gates"
  PROVE  World(t) \in [Items -> BOOLEAN] /\ reqs[t].cred \in Sent
<1>1. /\ reqs[t] \in ReqType /\ ReqInv(reqs[t], worlds)
      /\ worlds \in Seq([Items -> BOOLEAN]) /\ Len(worlds) \in Nat
  BY InvariantOfRequest
<1> DEFINE snap == reqs[t].snap
<1>2. snap \in 1..Len(worlds) /\ reqs[t].cred \in Sent
  BY <1>1 DEF ReqType, ReqInv, Placed
<1> HIDE DEF snap
<1>3. worlds[snap] \in [Items -> BOOLEAN]
  BY <1>1, <1>2
<1> QED BY <1>2, <1>3 DEF World, snap

\* The bearer door keeps the invariant.
LEMMA BearerStep ==
  ASSUME DoorInv, NEW t \in Threads, Bearer(t)
  PROVE  DoorInv'
<1>1. reqs[t].phase = "gates" /\ GateOf(t) = "bearer" /\ UNCHANGED <<config, ledger>>
  BY DEF Bearer, At
<1>2. /\ reqs[t] \in ReqType /\ reqs[t].kind \in Kinds
      /\ reqs[t].gate \in 1..Len(Route(reqs[t].kind))
  BY <1>1, RequestAtGate
<1>3. reqs[t].kind = "mcp" /\ reqs[t].gate = 1
  BY <1>1, <1>2, RouteGates DEF GateOf
<1>4. "none" \in Rows /\ "none" \in Fates
  BY DEF Rows, Fates
<1>5. CASE reqs' = [reqs EXCEPT ![t] = Over(reqs[t], "none")] /\ UNCHANGED recent
  <2>1. recent' \in Seq(Failures) /\ \A l \in {"bearer", "row"} : Hits(l)' <= FailureMax
    BY <1>5, SameWindow
  <2> DEFINE n == 0
  <2>2. n \in {0, 1} /\ n # 1
    OBVIOUS
  <2> HIDE DEF n
  <2> QED BY <1>1, <1>3, <1>4, <1>5, <2>1, <2>2, EndsAtGate
<1>6. ASSUME NEW limiters \in {{"row"}, {"bearer", "row"}}, NEW fate, Fail(t, limiters, fate),
             reqs' = [reqs EXCEPT ![t] = Over(Failed(reqs[t], 1, fate), "none")]
      PROVE  DoorInv'
  <2>1. /\ recent' \in Seq(Failures) /\ \A l \in {"bearer", "row"} : Hits(l)' <= FailureMax
        /\ fate \in Fates
    BY <1>6, FailedOnce DEF DoorInv
  <2> DEFINE n == 1
  <2>2. n \in {0, 1} /\ reqs' = [reqs EXCEPT ![t] = Over(Failed(reqs[t], n, fate), "none")]
    BY <1>6
  <2> HIDE DEF n
  <2> QED BY <1>1, <1>3, <1>4, <2>1, <2>2, EndsAtGate
<1>7. ASSUME NEW user \in BearerUsers(t), user # NoUser,
             reqs' = [reqs EXCEPT ![t] = Onward(reqs[t], user)], UNCHANGED recent
      PROVE  DoorInv'
  <2>1. user \in Users \cup {NoUser} /\ GoodAt(reqs[t], user, worlds)
    BY <1>1, <1>7, BearerIsGood
  <2> DEFINE n == 0
  <2>2. n \in {0, 1} /\ n # 1 /\ (reqs[t].kind = "object" => reqs[t].gate < 7)
    BY <1>3
  <2>3. recent' \in Seq(Failures) /\ \A l \in {"bearer", "row"} : Hits(l)' <= FailureMax
    BY <1>7, SameWindow
  <2> HIDE DEF n
  <2> QED BY <1>1, <1>4, <1>7, <2>1, <2>2, <2>3, PastGate
<1> QED BY <1>5, <1>6, <1>7 DEF Bearer

\* The key of a REST endpoint keeps the invariant.
LEMMA KeyStep ==
  ASSUME DoorInv, NEW t \in Threads, Key(t)
  PROVE  DoorInv'
<1> DEFINE byKey == KeyUser(World(t), reqs[t].cred, {"rpc"})
<1>1. reqs[t].phase = "gates" /\ GateOf(t) = "key" /\ UNCHANGED <<config, ledger>>
  BY DEF Key, At
<1>2. /\ reqs[t] \in ReqType /\ reqs[t].kind \in Kinds
      /\ reqs[t].gate \in 1..Len(Route(reqs[t].kind))
  BY <1>1, RequestAtGate
<1>3. reqs[t].kind \in {"info", "access"} /\ reqs[t].gate = 1
  BY <1>1, <1>2, RouteGates DEF GateOf
<1>4. World(t) \in [Items -> BOOLEAN] /\ reqs[t].cred \in Sent
  BY <1>1, WorldsAreWorlds
<1>5. byKey \in Users \cup {NoUser}
  BY <1>4, KeysHaveUsers
<1>6. PICK user \in IF byKey # NoUser THEN {byKey}
                    ELSE {NoUser} \cup {u \in Users : World(t)[u]}, fate \in Fates :
        LET n == FailuresAt(reqs[t].cred, byKey, user)
        IN /\ IF n > 0 THEN Fail(t, {"row"}, fate) ELSE fate = "none" /\ UNCHANGED recent
           /\ reqs' = [reqs EXCEPT ![t] =
                IF user = NoUser THEN Over(Failed(@, n, fate), "none")
                ELSE Onward(Used(Failed(@, n, fate)), user)]
  BY DEF Key
<1> DEFINE n == FailuresAt(reqs[t].cred, byKey, user)  y == Failed(reqs[t], n, fate)
<1>7. user \in Users \cup {NoUser}
  BY <1>5, <1>6
<1>8. n \in {0, 1}
  BY DEF FailuresAt
<1>9. /\ n > 0 => Fail(t, {"row"}, fate)
      /\ ~(n > 0) => UNCHANGED recent
      /\ reqs' = [reqs EXCEPT ![t] = IF user = NoUser THEN Over(y, "none")
                                     ELSE Onward(Used(y), user)]
  BY <1>6
<1>10. y = Failed(reqs[t], n, fate)
  OBVIOUS
<1> HIDE DEF byKey, n, y
<1>11. recent' \in Seq(Failures) /\ \A l \in {"bearer", "row"} : Hits(l)' <= FailureMax
  <2>1. CASE n > 0
    BY <1>9, <2>1, FailedOnce DEF DoorInv
  <2>2. CASE ~(n > 0)
    BY <1>9, <2>2, SameWindow
  <2> QED BY <2>1, <2>2
<1>12. CASE user = NoUser
  <2>1. "none" \in Rows /\ reqs' = [reqs EXCEPT ![t] = Over(y, "none")]
    BY <1>9, <1>12 DEF Rows
  <2> QED BY <1>1, <1>3, <1>8, <1>10, <1>11, <2>1, EndsAtGate
<1>13. CASE user # NoUser
  <2>1. reqs[t].kind # "mcp" /\ reqs' = [reqs EXCEPT ![t] = Onward(Used(y), user)]
    BY <1>3, <1>9, <1>13
  <2> QED BY <1>1, <1>3, <1>7, <1>8, <1>10, <1>11, <2>1, PastGate
<1> QED BY <1>12, <1>13

\* Naming the user of a proxied call keeps the invariant.
LEMMA IdentifyStep ==
  ASSUME DoorInv, NEW t \in Threads, Identify(t)
  PROVE  DoorInv'
<1> DEFINE byKey == KeyUser(World(t), reqs[t].cred, {"rpc"})
<1>1. reqs[t].phase = "gates" /\ GateOf(t) = "identify" /\ UNCHANGED <<config, ledger>>
  BY DEF Identify, At
<1>2. /\ reqs[t] \in ReqType /\ reqs[t].kind \in Kinds
      /\ reqs[t].gate \in 1..Len(Route(reqs[t].kind))
  BY <1>1, RequestAtGate
<1>3. reqs[t].kind = "object" /\ reqs[t].gate = 4
  BY <1>1, <1>2, RouteGates DEF GateOf
<1>4. World(t) \in [Items -> BOOLEAN] /\ reqs[t].cred \in Sent
  BY <1>1, WorldsAreWorlds
<1>5. byKey \in Users \cup {NoUser}
  BY <1>4, KeysHaveUsers
<1>6. ASSUME NEW user \in Users \cup {NoUser},
             reqs' = [reqs EXCEPT ![t] = Onward(reqs[t], user)], UNCHANGED recent
      PROVE  DoorInv'
  <2> DEFINE n == 0
  <2>1. n \in {0, 1} /\ n # 1 /\ reqs[t].gate < 7 /\ reqs[t].kind # "mcp" /\ "none" \in Fates
    BY <1>3 DEF Fates
  <2> HIDE DEF n
  <2>2. recent' \in Seq(Failures) /\ \A l \in {"bearer", "row"} : Hits(l)' <= FailureMax
    BY <1>6, SameWindow
  <2> QED BY <1>1, <1>6, <2>1, <2>2, PastGate
<1>7. ASSUME NEW user \in Users \cup {NoUser}, NEW fate, Fail(t, {"row"}, fate),
             reqs' = [reqs EXCEPT ![t] = Onward(Failed(reqs[t], 1, fate), user)]
      PROVE  DoorInv'
  <2>1. /\ recent' \in Seq(Failures) /\ \A l \in {"bearer", "row"} : Hits(l)' <= FailureMax
        /\ fate \in Fates
    BY <1>7, FailedOnce DEF DoorInv
  <2> DEFINE n == 1
  <2>2. /\ n \in {0, 1} /\ reqs[t].gate < 7 /\ reqs[t].kind # "mcp"
        /\ reqs[t].kind = "object" /\ reqs[t].gate = 4
        /\ reqs' = [reqs EXCEPT ![t] = Onward(Failed(reqs[t], n, fate), user)]
    BY <1>3, <1>7
  <2> HIDE DEF n
  <2> QED BY <1>1, <2>1, <2>2, PastGate
<1>8. NoUser \in Users \cup {NoUser}
  OBVIOUS
<1> HIDE DEF byKey
<1> QED BY <1>5, <1>6, <1>7, <1>8 DEF Identify, byKey

\* A gate that an action of its own passes has no verdict.
LEMMA OrdinaryGates ==
  ASSUME NEW t, NEW gate \in {"bearer", "key", "identify", "dispatch", "log", "marshal"}
  PROVE  Verdicts(t, gate) = {}
<1>1. /\ gate # "switch" /\ gate # "origin" /\ gate # "enabled" /\ gate # "access"
      /\ gate \notin {"version", "limit", "shape", "name", "exists"}
  OBVIOUS
<1> QED BY <1>1 DEF Verdicts

\* Where a request stands whose gate has a verdict.
LEMMA VerdictGates ==
  ASSUME DoorInv, NEW t \in Threads, reqs[t].phase = "gates", Verdicts(t, GateOf(t)) # {}
  PROVE  /\ reqs[t].kind = "object" => reqs[t].gate < 7
         /\ reqs[t].kind = "mcp" => GoodAt(reqs[t], reqs[t].user, worlds)
<1> DEFINE x == reqs[t]
<1>1. /\ x \in ReqType /\ ReqInv(x, worlds) /\ x.phase = "gates" /\ x.kind \in Kinds
      /\ x.gate \in 1..Len(Route(x.kind)) /\ x.gate \in 1..9
  BY RequestAtGate
<1>2. Route(x.kind)[x.gate] \notin {"bearer", "key", "identify", "dispatch", "log", "marshal"}
  BY OrdinaryGates DEF GateOf
<1> HIDE DEF x
<1>3. /\ ~(x.kind = "mcp" /\ x.gate = 1)
      /\ ~(x.kind = "object" /\ x.gate = 7) /\ ~(x.kind = "object" /\ x.gate = 8)
      /\ ~(x.kind = "object" /\ x.gate = 9)
  BY <1>1, <1>2, RouteGates
<1>4. x.kind = "object" => x.gate < 7
  BY <1>1, <1>3
<1>5. x.kind = "mcp" => GoodAt(x, x.user, worlds)
  BY <1>1, <1>3 DEF ReqInv, Admitted
<1> QED BY <1>4, <1>5 DEF x

\* Passing an ordinary gate keeps the invariant.
LEMMA PassStep ==
  ASSUME DoorInv, NEW t \in Threads, Pass(t)
  PROVE  DoorInv'
<1>1. /\ reqs[t].phase = "gates" /\ Verdicts(t, GateOf(t)) # {}
      /\ reqs' = [reqs EXCEPT ![t] = Onward(reqs[t], reqs[t].user)]
      /\ UNCHANGED <<config, recent, ledger>>
  BY DEF Pass
<1>2. /\ reqs[t].kind = "object" => reqs[t].gate < 7
      /\ reqs[t].kind = "mcp" => GoodAt(reqs[t], reqs[t].user, worlds)
  BY <1>1, VerdictGates
<1>3. reqs[t].user \in Users \cup {NoUser} /\ "none" \in Fates
  BY <1>1, RequestAtGate DEF ReqType, Fates
<1> DEFINE n == 0
<1>4. n \in {0, 1} /\ n # 1
  OBVIOUS
<1>5. recent' \in Seq(Failures) /\ \A l \in {"bearer", "row"} : Hits(l)' <= FailureMax
  BY <1>1, SameWindow
<1> HIDE DEF n
<1> QED BY <1>1, <1>2, <1>3, <1>4, <1>5, PastGate

\* A refusal at an ordinary gate keeps the invariant.
LEMMA RefuseStep ==
  ASSUME DoorInv, NEW t \in Threads, Refuse(t)
  PROVE  DoorInv'
<1>1. /\ reqs[t].phase = "gates" /\ Verdicts(t, GateOf(t)) # {}
      /\ UNCHANGED <<config, recent, ledger>>
  BY DEF Refuse
<1>2. PICK row \in Inserted(RefusalRow(GateOf(t))) : reqs' = [reqs EXCEPT ![t] = Over(reqs[t], row)]
  BY DEF Refuse
<1>3. reqs[t].kind = "object" => reqs[t].gate < 8
  <2>1. /\ reqs[t].kind = "object" => reqs[t].gate < 7
        /\ reqs[t].gate \in 1..9
    BY <1>1, VerdictGates, RequestAtGate
  <2> QED BY <2>1
<1>4. row \in Rows /\ "none" \in Fates
  BY DEF Inserted, RefusalRow, Rows, Fates
<1> DEFINE n == 0
<1>5. n \in {0, 1} /\ n # 1
  OBVIOUS
<1>6. recent' \in Seq(Failures) /\ \A l \in {"bearer", "row"} : Hits(l)' <= FailureMax
  BY <1>1, SameWindow
<1> HIDE DEF n
<1> QED BY <1>1, <1>2, <1>3, <1>4, <1>5, <1>6, EndsAtGate

\* A request of the proxy at a late gate stays placed there.
LEMMA LateGates ==
  ASSUME NEW ws, NEW x, NEW y, Placed(x, ws), x.kind = "object", y.kind = "object",
         y.gate \in 1..9, y.snap = x.snap, y.floor = x.floor
  PROVE  Placed(y, ws)
<1> DEFINE last == Len(Route(y.kind))
<1>1. y.gate \in 1..9 /\ last = 9
  BY RouteGates DEF Kinds
<1> HIDE DEF last
<1>2. y.gate <= last
  BY ONLY <1>1
<1> QED BY <1>2 DEF Placed, last

\* The proxied call, made or not, keeps the invariant: its row is still to come.
LEMMA DispatchStep ==
  ASSUME DoorInv, NEW t \in Threads, Dispatch(t)
  PROVE  DoorInv'
<1> DEFINE x == reqs[t]  z == Used(x)  o == Onward(z, x.user)
<1>1. PICK c \in Calls, done \in BOOLEAN, reply \in {"success", "error"} :
        /\ reply = "success" => done
        /\ made' = IF done THEN made \cup {c} ELSE made
        /\ reqs' = [reqs EXCEPT ![t] = [o EXCEPT !.call = c, !.reply = reply]]
  BY DEF Dispatch
<1>2. x.phase = "gates" /\ GateOf(t) = "dispatch" /\ UNCHANGED <<config, recent, entries, lost>>
  BY DEF Dispatch, At
<1>3. /\ x \in ReqType /\ ReqInv(x, worlds) /\ x.kind \in Kinds
      /\ x.gate \in 1..Len(Route(x.kind))
  BY <1>2, RequestAtGate
<1>4. x.kind = "object" /\ x.gate = 7 /\ Len(Route(x.kind)) = 9
  BY <1>2, <1>3, RouteGates DEF GateOf
<1> DEFINE y == [o EXCEPT !.call = c, !.reply = reply]
<1>5. reqs' = [reqs EXCEPT ![t] = y]
  BY <1>1
<1>6. /\ Placed(x, worlds) /\ x.call = NoCall /\ x.failures <= 1
  BY <1>2, <1>3, <1>4, AtGates
<1>7. reqs[t].call = NoCall
  BY <1>6
<1> HIDE DEF x
<1>8. x.user \in Users \cup {NoUser} /\ x.gate <= Len(Route(x.kind))
  BY <1>3, <1>6 DEF ReqType, Placed
<1>9. /\ o \in ReqType /\ o.phase = "gates" /\ o.gate = 8 /\ o.kind = "object"
      /\ o.snap = x.snap /\ o.floor = x.floor /\ o.failures = x.failures
      /\ o.row = x.row
  <2>1. x.gate # Len(Route(x.kind)) /\ x.gate + 1 = 8
    BY <1>4
  <2>2. /\ z \in ReqType /\ z.phase = "gates" /\ z.gate = x.gate /\ z.kind = x.kind
        /\ z.snap = x.snap /\ z.floor = x.floor /\ z.failures = x.failures /\ z.row = x.row
    BY <1>2, <1>3, UsedChanges DEF x
  <2>3. z.gate <= Len(Route(z.kind)) /\ z.gate # Len(Route(z.kind))
    BY <1>8, <2>1, <2>2
  <2> HIDE DEF z
  <2>4. /\ Onward(z, x.user) \in ReqType
        /\ Onward(z, x.user).phase = z.phase /\ Onward(z, x.user).gate = z.gate + 1
        /\ Onward(z, x.user).kind = z.kind
        /\ Onward(z, x.user).snap = z.snap /\ Onward(z, x.user).floor = z.floor
        /\ Onward(z, x.user).failures = z.failures /\ Onward(z, x.user).row = z.row
    BY <1>8, <2>2, <2>3, OnwardChanges
  <2> QED BY <1>4, <2>1, <2>2, <2>4
<1> HIDE DEF o
<1>10. /\ y \in ReqType /\ y.phase = "gates" /\ y.gate = 8 /\ y.kind = "object"
       /\ y.snap = x.snap /\ y.floor = x.floor /\ y.failures = x.failures
       /\ y.call = c /\ y.reply = reply /\ y.row = x.row
  BY <1>9 DEF ReqType
<1> HIDE DEF y
<1>11. Placed(y, worlds)
  BY <1>4, <1>6, <1>10, LateGates
<1>12. ~Admitted(y) /\ Shape(y) /\ Counts(y)
  BY <1>6, <1>10 DEF Admitted, Shape, Counts, Uncounted
<1>13. ReqInv(y, worlds)
  BY <1>11, <1>12 DEF ReqInv
<1>14. made \in SUBSET Calls /\ lost \in SUBSET Calls /\ lost' = lost
  BY <1>2 DEF DoorInv, Types
<1>15. CallTrue(y, made', lost')
  BY <1>1, <1>10 DEF CallTrue
<1>16. recent' \in Seq(Failures) /\ \A l \in {"bearer", "row"} : Hits(l)' <= FailureMax
  BY <1>2, SameWindow
<1>17. UNCHANGED <<worlds, signalled, entries>>
  BY <1>2 DEF config
<1>18. /\ made \subseteq made' /\ made' \subseteq made \cup {y.call} /\ made' \in SUBSET Calls
  BY <1>1, <1>10, <1>14
<1> QED BY <1>5, <1>7, <1>10, <1>13, <1>14, <1>15, <1>16, <1>17, <1>18, OneRequest

\* Writing the row keeps the invariant: it tells of what was made, or is lost.
LEMMA LogStep ==
  ASSUME DoorInv, NEW t \in Threads, Log(t)
  PROVE  DoorInv'
<1> DEFINE x == reqs[t]  o == Onward(x, x.user)
<1>1. PICK row \in {x.reply, "none"} :
        /\ reqs' = [reqs EXCEPT ![t] = IF x.reply = "success" THEN [o EXCEPT !.row = row]
                                       ELSE Over(x, row)]
        /\ lost' = IF row = "none" THEN lost \cup {x.call} ELSE lost
  BY DEF Log, Inserted, RowOf
<1>2. x.phase = "gates" /\ GateOf(t) = "log" /\ UNCHANGED <<config, recent, made, entries>>
  BY DEF Log, At
<1>3. /\ x \in ReqType /\ ReqInv(x, worlds) /\ CallTrue(x, made, lost) /\ x.kind \in Kinds
      /\ x.gate \in 1..Len(Route(x.kind))
  BY <1>2, RequestAtGate, InvariantOfRequest
<1>4. x.kind = "object" /\ x.gate = 8 /\ Len(Route(x.kind)) = 9
  BY <1>2, <1>3, RouteGates DEF GateOf
<1>5. Placed(x, worlds) /\ x.failures <= 1 /\ x.call \in Calls /\ x.phase = "gates"
  BY <1>2, <1>3, <1>4 DEF ReqInv, Shape, Counts
<1>6. /\ made \in SUBSET Calls /\ lost \in SUBSET Calls /\ made' = made
      /\ UNCHANGED <<worlds, signalled, entries>>
  BY <1>2 DEF DoorInv, Types, config
<1>7. recent' \in Seq(Failures) /\ \A l \in {"bearer", "row"} : Hits(l)' <= FailureMax
  BY <1>2, SameWindow
<1>8. reqs[t].call = x.call
  OBVIOUS
<1> HIDE DEF x
<1>9. row \in Rows /\ (row = "success" => x.call \in made) /\ (row = "none" => x.call \in lost')
  <2>1. x.reply \in {"none", "success", "error"}
    BY <1>3 DEF ReqType
  <2>2. x.reply = "success" => x.call \in made
    BY <1>3, <1>5, NamesAreDistinct DEF CallTrue
  <2> QED BY <1>1, <2>1, <2>2 DEF Rows
<1>10. lost \subseteq lost' /\ lost' \in SUBSET Calls
  BY <1>1, <1>5, <1>6
<1>11. CASE x.reply = "success"
  <2> DEFINE y == [o EXCEPT !.row = row]
  <2>1. reqs' = [reqs EXCEPT ![t] = y]
    BY <1>1, <1>11
  <2>2. x.user \in Users \cup {NoUser} /\ x.gate <= Len(Route(x.kind))
    BY <1>3, <1>5 DEF ReqType, Placed
  <2>3. /\ o \in ReqType /\ o.phase = "gates" /\ o.gate = 9 /\ o.kind = "object"
        /\ o.snap = x.snap /\ o.floor = x.floor /\ o.failures = x.failures
        /\ o.call = x.call /\ o.reply = x.reply
    <3>1. x.gate # Len(Route(x.kind)) /\ x.gate + 1 = 9
      BY <1>4
    <3> QED BY <1>3, <1>4, <1>5, <2>2, <3>1, OnwardChanges
  <2> HIDE DEF o
  <2>4. /\ y \in ReqType /\ y.phase = "gates" /\ y.gate = 9 /\ y.kind = "object"
        /\ y.snap = x.snap /\ y.floor = x.floor /\ y.failures = x.failures
        /\ y.call = x.call /\ y.reply = x.reply /\ y.row = row
    BY <1>9, <2>3 DEF ReqType
  <2> HIDE DEF y
  <2>5. Placed(y, worlds)
    BY <1>4, <1>5, <2>4, LateGates
  <2>6. ~Admitted(y) /\ Shape(y) /\ Counts(y)
    BY <1>5, <2>4 DEF Admitted, Shape, Counts, Uncounted
  <2>7. ReqInv(y, worlds)
    BY <2>5, <2>6 DEF ReqInv
  <2>8. CallTrue(y, made', lost')
    BY <1>3, <1>6, <1>9, <2>4 DEF CallTrue
  <2> QED BY <1>6, <1>7, <1>8, <1>10, <2>1, <2>4, <2>7, <2>8, OneRequest
<1>12. CASE x.reply # "success"
  <2> DEFINE y == Over(x, row)
  <2>1. reqs' = [reqs EXCEPT ![t] = y]
    BY <1>1, <1>12
  <2>2. y \in ReqType /\ ReqInv(y, worlds)
    BY <1>3, <1>4, <1>5, <1>9, Ends, HistoryHasLength
  <2>3. y.call = x.call /\ y.reply = x.reply /\ y.row = row
    BY <1>3, <1>9, OverChanges
  <2> HIDE DEF y
  <2>4. CallTrue(y, made', lost')
    BY <1>6, <1>9, <1>12, <2>3 DEF CallTrue
  <2> QED BY <1>6, <1>7, <1>8, <1>10, <2>1, <2>2, <2>3, <2>4, OneRequest
<1> QED BY <1>11, <1>12

\* Marshalling the result keeps the invariant.
LEMMA MarshalStep ==
  ASSUME DoorInv, NEW t \in Threads, Marshal(t)
  PROVE  DoorInv'
<1> DEFINE x == reqs[t]  y == Over(x, x.row)
<1>1. /\ x.phase = "gates" /\ GateOf(t) = "marshal"
      /\ UNCHANGED <<config, recent, ledger>> /\ reqs' = [reqs EXCEPT ![t] = y]
  BY DEF Marshal, At
<1>2. /\ x \in ReqType /\ ReqInv(x, worlds) /\ CallTrue(x, made, lost) /\ x.kind \in Kinds
      /\ x.gate \in 1..Len(Route(x.kind))
  BY <1>1, RequestAtGate, InvariantOfRequest
<1>3. x.kind = "object" /\ x.gate = 9
  BY <1>1, <1>2, RouteGates DEF GateOf
<1>4. reqs[t].call = x.call
  OBVIOUS
<1> HIDE DEF x
<1>5. Placed(x, worlds) /\ x.failures <= 1 /\ x.row \in Rows
  BY <1>2 DEF ReqInv, Counts, ReqType
<1>6. y \in ReqType /\ ReqInv(y, worlds)
  BY <1>2, <1>3, <1>5, Ends, HistoryHasLength
<1>7. y.call = x.call /\ y.reply = x.reply /\ y.row = x.row
  BY <1>2, <1>5, OverChanges
<1> HIDE DEF y
<1>8. /\ UNCHANGED <<worlds, signalled, entries>> /\ made' = made /\ lost' = lost
      /\ made \in SUBSET Calls /\ lost \in SUBSET Calls
  BY <1>1 DEF config, ledger, DoorInv, Types
<1>9. CallTrue(y, made', lost')
  BY <1>2, <1>3, <1>7, <1>8 DEF CallTrue
<1>10. recent' \in Seq(Failures) /\ \A l \in {"bearer", "row"} : Hits(l)' <= FailureMax
  BY <1>1, SameWindow
<1> QED BY <1>1, <1>4, <1>6, <1>7, <1>8, <1>9, <1>10, OneRequest

\* The answer of a REST endpoint keeps the invariant.
LEMMA ReportStep ==
  ASSUME DoorInv, NEW t \in Threads, Report(t)
  PROVE  DoorInv'
<1> DEFINE x == reqs[t]
<1>1. x.phase = "served" /\ UNCHANGED <<config, recent, ledger>>
  BY DEF Report
<1>2. PICK row \in Inserted(IF x.kind = "access" THEN "success" ELSE "none") :
        reqs' = [reqs EXCEPT ![t] = Over(x, row)]
  BY DEF Report
<1>3. x \in ReqType /\ ReqInv(x, worlds)
  BY <1>1, InvariantOfRequest
<1>4. Placed(x, worlds) /\ x.failures <= 1 /\ x.call = NoCall /\ row \in Rows
  BY <1>1, <1>3 DEF ReqInv, Counts, Shape, Inserted, Rows
<1>5. Over(x, row) \in ReqType /\ ReqInv(Over(x, row), worlds) /\ Over(x, row).call = NoCall
  BY <1>3, <1>4, Ends, HistoryHasLength, OverChanges
<1>6. recent' \in Seq(Failures) /\ \A l \in {"bearer", "row"} : Hits(l)' <= FailureMax
  BY <1>1, SameWindow
<1> QED BY <1>1, <1>2, <1>4, <1>5, <1>6, OneWithoutCall

\* A rerun keeps the invariant.
LEMMA RerunStep ==
  ASSUME DoorInv, NEW t \in Threads, Rerun(t)
  PROVE  DoorInv'
<1> DEFINE x == reqs[t]  y == Restarted(x)
<1>1. /\ x.phase = "served" /\ x.kind = "mcp" /\ x.try < MaxTries
      /\ UNCHANGED <<config, recent, ledger>> /\ reqs' = [reqs EXCEPT ![t] = y]
  BY DEF Rerun
<1>2. x \in ReqType /\ ReqInv(x, worlds) /\ Len(worlds) \in Nat
  BY <1>1, InvariantOfRequest
<1> HIDE DEF x
<1>3. x.try + 1 \in 1..MaxTries
  <2>1. x.try \in 1..MaxTries /\ MaxTries \in Nat
    BY <1>2, BoundsAreBounds DEF ReqType
  <2> QED BY <1>1, <2>1
<1>4. /\ y \in ReqType /\ y.phase = "gates" /\ y.gate = 1 /\ y.kind = "mcp"
      /\ y.snap = Len(worlds) /\ y.floor = x.floor /\ y.failures = x.failures
      /\ y.call = x.call
  <2> DEFINE snap == Len(worlds)  try == x.try + 1
  <2>1. y = [x EXCEPT !.phase = "gates", !.gate = 1, !.user = NoUser, !.snap = snap, !.try = try]
    BY DEF Restarted, Latest
  <2>2. snap \in Nat /\ try \in 1..MaxTries
    BY <1>2, <1>3
  <2> HIDE DEF snap, try, y
  <2>3. /\ y \in ReqType /\ y.phase = "gates" /\ y.gate = 1 /\ y.kind = "mcp"
        /\ y.snap = snap /\ y.floor = x.floor /\ y.failures = x.failures
        /\ y.call = x.call
    <3>1. y \in ReqType
      <4> DEFINE a == [x EXCEPT !.phase = "gates", !.gate = 1, !.user = NoUser]
      <4>1. a \in ReqType
        <5> DEFINE p == [x EXCEPT !.phase = "gates"]  q == [p EXCEPT !.gate = 1]
        <5>1. p \in ReqType
          BY <1>2 DEF ReqType
        <5> HIDE DEF p
        <5>2. q \in ReqType
          BY <5>1 DEF ReqType
        <5> HIDE DEF q
        <5>3. [q EXCEPT !.user = NoUser] \in ReqType
          BY <5>2 DEF ReqType
        <5>4. a = [q EXCEPT !.user = NoUser]
          BY <1>2 DEF ReqType, p, q
        <5> QED BY <5>3, <5>4
      <4>2. y = [a EXCEPT !.snap = snap, !.try = try]
        BY <1>2, <2>1 DEF ReqType
      <4> HIDE DEF a
      <4> QED BY <2>2, <4>1, <4>2 DEF ReqType
    <3>2. /\ y.phase = "gates" /\ y.gate = 1 /\ y.kind = x.kind
          /\ y.snap = snap /\ y.floor = x.floor /\ y.failures = x.failures
          /\ y.call = x.call
      BY <1>2, <2>1 DEF ReqType
    <3> QED BY <1>1, <3>1, <3>2
  <2> QED BY <2>3 DEF snap
<1> HIDE DEF y
<1>5. Placed(y, worlds)
  <2>1. Len(Route("mcp")) = 3
    BY RouteGates DEF Kinds
  <2>2. 1 <= Len(Route("mcp"))
    BY <2>1
  <2>3. 1 <= x.floor /\ x.floor <= x.snap /\ x.snap <= Len(worlds) /\ x.floor \in Nat /\ x.snap \in Nat
    BY <1>2 DEF ReqInv, Placed, ReqType
  <2> QED BY <1>2, <1>4, <2>2, <2>3 DEF Placed
<1>6. ~Admitted(y) /\ Shape(y) /\ x.call = NoCall
  BY <1>1, <1>2, <1>4 DEF ReqInv, Admitted, Shape
<1>7. Counts(y)
  BY <1>1, <1>2, <1>4 DEF ReqInv, Counts, Uncounted
<1>8. ReqInv(y, worlds)
  BY <1>5, <1>6, <1>7 DEF ReqInv
<1>9. recent' \in Seq(Failures) /\ \A l \in {"bearer", "row"} : Hits(l)' <= FailureMax
  BY <1>1, SameWindow
<1>10. reqs[t].call = NoCall
  BY <1>6 DEF x
<1> QED BY <1>1, <1>4, <1>6, <1>8, <1>9, <1>10, OneWithoutCall

\* The end of a request keeps the invariant: its call has the row that commits
\* with it, or is lost.
LEMMA ReturnStep ==
  ASSUME DoorInv, NEW t \in Threads, Return(t)
  PROVE  DoorInv'
<1> DEFINE x == reqs[t]
<1>1. /\ x.phase = "over" \/ (x.phase = "served" /\ x.kind = "mcp")
      /\ reqs' = [reqs EXCEPT ![t] = Idle] /\ UNCHANGED <<worlds, signalled, recent, made>>
  BY DEF Return, config
<1>2. \/ /\ entries' = [c \in Calls |-> IF Holds(t, c) THEN x.row ELSE entries[c]]
         /\ lost' = lost
      \/ lost' = lost \cup {c \in Calls : Holds(t, c)} /\ entries' = entries
  BY DEF Return
<1>3. Types /\ LegacyLogIsTrue /\ made \in SUBSET Calls /\ lost \in SUBSET Calls
      /\ entries \in [Calls -> Rows] /\ reqs \in [Threads -> ReqType \cup {Idle}]
  BY DEF DoorInv, Types
<1>4. x \in ReqType /\ ReqInv(x, worlds) /\ CallTrue(x, made, lost) /\ x.row \in Rows
  <2>1. x.phase # "idle"
    BY <1>1
  <2>2. x \in ReqType /\ ReqInv(x, worlds) /\ CallTrue(x, made, lost)
    BY <2>1, InvariantOfRequest
  <2> HIDE DEF x
  <2> QED BY <2>2 DEF ReqType
<1>5. \A c : Holds(t, c) <=> c = x.call
  BY <1>4, RequestsAreNotIdle DEF Holds
<1>6. ASSUME x.call \in Calls PROVE x.phase = "over"
  BY <1>1, <1>4, <1>6, NamesAreDistinct DEF ReqInv, Shape
<1>7. reqs' \in [Threads -> ReqType \cup {Idle}] /\ reqs'[t] = Idle
      /\ \A u \in Threads : u # t => reqs'[u] = reqs[u]
  BY <1>1, <1>3
<1>8. \A c \in Calls : c # x.call => (InFlight(c) => InFlight(c)')
  BY <1>5, <1>7 DEF InFlight, Holds
<1> HIDE DEF x
<1>9. lost \subseteq lost' /\ lost' \in SUBSET Calls
  BY <1>2, <1>3
<1>10. entries' \in [Calls -> Rows]
  <2>1. CASE entries' = [c \in Calls |-> IF Holds(t, c) THEN x.row ELSE entries[c]]
    BY <1>3, <1>4, <2>1
  <2> QED BY <1>2, <1>3, <2>1
<1>11. Types'
  BY <1>1, <1>3, <1>7, <1>9, <1>10 DEF Types, Latest
<1>12. ASSUME NEW c \in Calls
       PROVE  /\ entries'[c] = "success" => c \in made'
              /\ c \in made' => entries'[c] # "none" \/ c \in lost' \/ InFlight(c)'
  <2>1. /\ entries[c] = "success" => c \in made
        /\ c \in made => entries[c] # "none" \/ c \in lost \/ InFlight(c)
    BY <1>3 DEF LegacyLogIsTrue
  <2>2. CASE c # x.call
    <3>1. entries'[c] = entries[c]
      BY <1>2, <1>5, <2>2
    <3> QED BY <1>1, <1>8, <1>9, <2>1, <2>2, <3>1
  <2>3. CASE c = x.call
    <3>1. /\ x.row = "success" => c \in made
          /\ x.row # "none" \/ c \in lost
      BY <1>4, <1>6, <2>3, NamesAreDistinct DEF CallTrue
    <3>2. CASE entries' = [d \in Calls |-> IF Holds(t, d) THEN x.row ELSE entries[d]]
      <4>1. entries'[c] = x.row
        BY <1>5, <2>3, <3>2
      <4> QED BY <1>1, <1>9, <3>1, <4>1
    <3>3. CASE lost' = lost \cup {d \in Calls : Holds(t, d)} /\ entries' = entries
      <4>1. c \in lost'
        BY <1>5, <2>3, <3>3
      <4> QED BY <1>1, <2>1, <3>3, <4>1
    <3> QED BY <1>2, <3>2, <3>3
  <2> QED BY <2>2, <2>3
<1>13. \A l \in {"bearer", "row"} : Hits(l)' <= FailureMax
  BY <1>1, SameWindow
<1>14. ASSUME NEW u \in Threads, reqs'[u] # Idle
       PROVE  ReqInv(reqs'[u], worlds') /\ CallTrue(reqs'[u], made', lost')
  <2>1. reqs'[u] = reqs[u]
    BY <1>7, <1>14
  <2>2. ReqInv(reqs[u], worlds) /\ CallTrue(reqs[u], made, lost)
    BY <1>14, <2>1 DEF DoorInv
  <2> QED BY <1>1, <1>9, <2>1, <2>2 DEF CallTrue
<1> QED BY <1>11, <1>12, <1>13, <1>14 DEF DoorInv, LegacyLogIsTrue

-----------------------------------------------------------------------------
(***************************************************************************)
(* Steps that change what all requests share.                              *)
(***************************************************************************)

\* A crash keeps the invariant: what was under way is lost.
LEMMA CrashStep ==
  ASSUME DoorInv, Crash
  PROVE  DoorInv'
<1>1. /\ Types /\ reqs' = [t \in Threads |-> Idle] /\ recent' = <<>>
      /\ worlds' = worlds /\ signalled' = signalled /\ made' = made /\ entries' = entries
      /\ lost' = lost \cup {c \in Calls : InFlight(c)}
  BY DEF DoorInv, Crash, config
<1>2. Types'
  <2>1. reqs' \in [Threads -> ReqType \cup {Idle}]
    BY <1>1
  <2>2. recent' \in Seq((SUBSET {"bearer", "row"}) \ {{}})
    BY <1>1
  <2>3. worlds' \in Seq([Items -> BOOLEAN]) /\ signalled' \in 1..Latest'
    BY <1>1 DEF Types, Latest
  <2>4. made' \in SUBSET Calls /\ lost' \in SUBSET Calls /\ entries' \in [Calls -> Rows]
    BY <1>1 DEF Types
  <2> QED BY <2>1, <2>2, <2>3, <2>4 DEF Types
<1>3. ASSUME NEW l \in {"bearer", "row"} PROVE Hits(l)' <= FailureMax
  <2>1. {i \in DOMAIN recent' : l \in recent'[i]} = {}
    BY <1>1
  <2>2. Hits(l)' = 0
    BY <2>1, FS_EmptySet DEF Hits
  <2> QED BY <2>2, BoundsAreBounds
<1>4. \A t \in Threads : reqs'[t] = Idle
  BY <1>1
<1>5. LegacyLogIsTrue'
  <2>1. LegacyLogIsTrue
    BY DEF DoorInv
  <2> QED BY <1>1, <2>1 DEF LegacyLogIsTrue
<1> QED BY <1>2, <1>3, <1>4, <1>5 DEF DoorInv

\* A step that leaves the requests and the ledger alone leaves what was said of
\* calls.
LEMMA CallsStay ==
  ASSUME DoorInv, reqs' = reqs, UNCHANGED ledger
  PROVE  /\ LegacyLogIsTrue' /\ made' = made /\ lost' = lost /\ entries' = entries
         /\ \A t \in Threads : reqs'[t] # Idle => CallTrue(reqs'[t], made', lost')
<1>1. made' = made /\ lost' = lost /\ entries' = entries
  BY DEF ledger
<1>2. LegacyLogIsTrue /\ \A t \in Threads : reqs[t] # Idle => CallTrue(reqs[t], made, lost)
  BY DEF DoorInv
<1>3. LegacyLogIsTrue'
  BY <1>1, <1>2 DEF LegacyLogIsTrue, InFlight, Holds
<1> QED BY <1>1, <1>2, <1>3

\* What is said of a request holds of it when the worlds go on.
LEMMA WorldsGoOn ==
  ASSUME NEW ws \in Seq([Items -> BOOLEAN]), NEW w \in [Items -> BOOLEAN],
         NEW x \in ReqType, ReqInv(x, ws)
  PROVE  ReqInv(x, Append(ws, w))
<1> DEFINE us == Append(ws, w)
<1>1. Len(us) = Len(ws) + 1 /\ Len(ws) \in Nat /\ \A v \in 1..Len(ws) : us[v] = ws[v]
  BY AppendProperties
<1>2. /\ x.floor \in Nat /\ x.snap \in Nat /\ x.gate <= Len(Route(x.kind))
      /\ 1 <= x.floor /\ x.floor <= x.snap /\ x.snap <= Len(ws)
  BY DEF ReqType, ReqInv, Placed
<1> HIDE DEF us
<1>3. Placed(x, us)
  BY <1>1, <1>2 DEF Placed
<1>4. us[x.snap] = ws[x.snap] /\ \A v \in x.floor..x.snap : us[v] = ws[v]
  BY <1>1, <1>2
<1>5. Admitted(x) => GoodAt(x, x.user, us)
  <2>1. SUFFICES ASSUME GoodAt(x, x.user, ws) PROVE GoodAt(x, x.user, us)
    BY DEF ReqInv
  <2> QED BY <1>4, <2>1 DEF GoodAt
<1> QED BY <1>3, <1>5 DEF ReqInv, us

\* An administrator's change keeps the invariant.
LEMMA EditStep ==
  ASSUME DoorInv, NEW item \in Items, Edit(item)
  PROVE  DoorInv'
<1> DEFINE w == [worlds[Latest] EXCEPT ![item] = ~@]
<1>1. /\ worlds' = Append(worlds, w) /\ signalled' = signalled /\ recent' = recent
      /\ reqs' = reqs /\ UNCHANGED ledger
  BY DEF Edit
<1>2. /\ Types /\ worlds \in Seq([Items -> BOOLEAN]) /\ Len(worlds) \in Nat
      /\ signalled \in 1..Len(worlds)
  BY DEF DoorInv, Types, Latest
<1>3. w \in [Items -> BOOLEAN]
  <2>1. Latest \in 1..Len(worlds)
    BY <1>2 DEF Latest
  <2>2. worlds[Latest] \in [Items -> BOOLEAN]
    BY <1>2, <2>1
  <2> QED BY <2>2
<1> HIDE DEF w
<1>4. worlds' \in Seq([Items -> BOOLEAN]) /\ Len(worlds') = Len(worlds) + 1
  BY <1>1, <1>2, <1>3, AppendProperties
<1>5. Types'
  <2>1. signalled' \in 1..Latest'
    BY <1>1, <1>2, <1>4 DEF Latest
  <2> QED BY <1>1, <1>2, <1>4, <2>1, CallsStay DEF Types
<1>6. \A l \in {"bearer", "row"} : Hits(l)' <= FailureMax
  BY <1>1 DEF DoorInv, Hits
<1>7. ASSUME NEW t \in Threads, reqs'[t] # Idle PROVE ReqInv(reqs'[t], worlds')
  <2>1. reqs[t] \in ReqType /\ ReqInv(reqs[t], worlds)
    BY <1>1, <1>2, <1>7 DEF DoorInv, Types
  <2> QED BY <1>1, <1>2, <1>3, <2>1, WorldsGoOn
<1> QED BY <1>1, <1>5, <1>6, <1>7, CallsStay DEF DoorInv

\* A signal keeps the invariant.
LEMMA SignalStep ==
  ASSUME DoorInv, Signal
  PROVE  DoorInv'
<1>1. /\ worlds' = worlds /\ signalled' = Latest /\ recent' = recent /\ reqs' = reqs
      /\ Types /\ UNCHANGED ledger
  BY DEF Signal, DoorInv
<1>2. Types'
  <2>1. Len(worlds) \in Nat /\ signalled \in 1..Len(worlds)
    BY <1>1 DEF Types, Latest
  <2>2. signalled' \in 1..Latest'
    BY <1>1, <2>1 DEF Latest
  <2> QED BY <1>1, <2>2, CallsStay DEF Types
<1>3. \A l \in {"bearer", "row"} : Hits(l)' <= FailureMax
  BY <1>1 DEF DoorInv, Hits
<1> QED BY <1>1, <1>2, <1>3, CallsStay DEF DoorInv

\* A failure that leaves the window keeps the invariant.
LEMMA ForgetStep ==
  ASSUME DoorInv, Forget
  PROVE  DoorInv'
<1>1. /\ worlds' = worlds /\ signalled' = signalled /\ recent # <<>>
      /\ recent' = Tail(recent) /\ reqs' = reqs /\ Types
      /\ UNCHANGED ledger
  BY DEF Forget, DoorInv, config
<1>2. recent \in Seq(Failures) /\ FailureMax \in Nat
  BY <1>1, BoundsAreBounds DEF Types, Failures
<1>3. recent' \in Seq(Failures)
  BY <1>1, <1>2, ForgottenPlaces
<1>4. Types'
  BY <1>1, <1>3, CallsStay DEF Types, Latest, Failures
<1>5. ASSUME NEW l \in {"bearer", "row"} PROVE Hits(l)' <= FailureMax
  <2>1. Hits(l) = Cardinality(Places(recent, l)) /\ Hits(l)' = Cardinality(Places(recent', l))
    BY DEF Hits, Places
  <2>2. Hits(l)' <= Hits(l) /\ Hits(l) \in Nat /\ Hits(l)' \in Nat
    BY <1>1, <1>2, <1>3, <2>1, ForgottenPlaces, PlacesAreFew
  <2>3. Hits(l) <= FailureMax
    BY DEF DoorInv
  <2> QED BY <1>2, <2>2, <2>3
<1> QED BY <1>1, <1>4, <1>5, CallsStay DEF DoorInv

-----------------------------------------------------------------------------
(***************************************************************************)
(* The theorems.                                                           *)
(***************************************************************************)

\* The door starts as the invariant has it.
LEMMA DoorInit ==
  ASSUME Init
  PROVE  DoorInv
<1>1. /\ worlds = <<[i \in Items |-> i # "origins"]>> /\ signalled = 1 /\ recent = <<>>
      /\ reqs = [t \in Threads |-> Idle] /\ made = {} /\ lost = {}
      /\ entries = [c \in Calls |-> "none"]
  BY DEF Init
<1>2. worlds \in Seq([Items -> BOOLEAN]) /\ Len(worlds) = 1
  <2> DEFINE w == [i \in Items |-> i # "origins"]
  <2>1. w \in [Items -> BOOLEAN] /\ worlds = <<w>>
    BY <1>1
  <2> HIDE DEF w
  <2> QED BY <2>1
<1>3. recent \in Seq((SUBSET {"bearer", "row"}) \ {{}})
  BY <1>1
<1>4. Types
  BY <1>1, <1>2, <1>3 DEF Types, Latest, Rows
<1>5. ASSUME NEW l \in {"bearer", "row"} PROVE Hits(l) <= FailureMax
  <2>1. {i \in DOMAIN recent : l \in recent[i]} = {}
    BY <1>1
  <2>2. Hits(l) = 0
    BY <2>1, FS_EmptySet DEF Hits
  <2> QED BY <2>2, BoundsAreBounds
<1>6. LegacyLogIsTrue
  BY <1>1 DEF LegacyLogIsTrue
<1> QED BY <1>1, <1>4, <1>5, <1>6 DEF DoorInv

\* Every step keeps the invariant.
LEMMA DoorStep ==
  ASSUME DoorInv, [Next]_vars
  PROVE  DoorInv'
<1>1. ASSUME NEW t \in Threads, NEW arrival \in Arrivals, Begin(t, arrival[1], arrival[2])
      PROVE  DoorInv'
  BY <1>1, BeginStep
<1>2. ASSUME NEW t \in Threads,
             \/ Bearer(t) \/ Key(t) \/ Identify(t) \/ Pass(t) \/ Refuse(t)
             \/ Dispatch(t) \/ Log(t) \/ Marshal(t) \/ Report(t) \/ Rerun(t) \/ Return(t)
      PROVE  DoorInv'
  BY <1>2, BearerStep, KeyStep, IdentifyStep, PassStep, RefuseStep, DispatchStep,
     LogStep, MarshalStep, ReportStep, RerunStep, ReturnStep
<1>3. ASSUME NEW item \in Items, Edit(item) PROVE DoorInv'
  BY <1>3, EditStep
<1>4. CASE Signal \/ Forget \/ Crash
  BY <1>4, SignalStep, ForgetStep, CrashStep
<1>5. CASE UNCHANGED vars
  <2>1. UNCHANGED <<worlds, signalled, recent, reqs, ledger>>
    BY <1>5 DEF vars, config
  <2>2. Types' /\ \A l \in {"bearer", "row"} : Hits(l)' <= FailureMax
    BY <2>1, CallsStay DEF DoorInv, Types, Latest, Hits
  <2> QED BY <2>1, <2>2, CallsStay DEF DoorInv
<1> QED BY <1>1, <1>2, <1>3, <1>4, <1>5 DEF Next

\* The inductive invariant holds throughout.
THEOREM DoorInvariant == Spec => []DoorInv
<1> QED BY DoorInit, DoorStep, PTL DEF Spec

\* Requests, worlds and the window stay well formed, and the window of
\* failures never exceeds what the limiters allow.
THEOREM DoorTypeCorrect == Spec => []TypeOK
<1>1. ASSUME DoorInv PROVE TypeOK
  <2>1. Types
    BY <1>1 DEF DoorInv
  <2>2. ASSUME NEW t \in Threads, reqs[t] # Idle
        PROVE  /\ reqs[t].phase \in {"gates", "served", "over"}
               /\ reqs[t].user \in Users \cup {NoUser}
               /\ reqs[t].floor <= reqs[t].snap /\ reqs[t].snap <= Latest
               /\ reqs[t].row \in Rows /\ reqs[t].fate \in Fates
               /\ reqs[t].call \in Calls \cup {NoCall} /\ reqs[t].try \in 1..MaxTries
    <3>1. reqs[t] \in ReqType /\ Placed(reqs[t], worlds)
      BY <1>1, <2>1, <2>2 DEF DoorInv, Types, ReqInv
    <3> QED BY <3>1 DEF ReqType, Placed, Latest
  <2> QED BY <1>1, <2>1, <2>2 DEF TypeOK, Types, DoorInv
<1> QED BY <1>1, DoorInvariant, PTL

\* Whoever is served at /mcp holds a credential that was in force, of an active
\* user and client, in the snapshot that very run began on.
THEOREM TheRevokedAreRefused == Spec => []RevokedIsRefused
<1>1. ASSUME DoorInv PROVE RevokedIsRefused
  <2> SUFFICES ASSUME NEW t \in Threads, reqs[t].phase = "served", reqs[t].kind = "mcp"
               PROVE  LET cred == reqs[t].cred
                      IN /\ cred \in Creds /\ Describe[cred].door \in {"key", "token"}
                         /\ reqs[t].user = Describe[cred].user
                         /\ World(t)[cred] /\ World(t)[reqs[t].user]
                         /\ Describe[cred].door = "token" =>
                              /\ Describe[cred].here /\ World(t)[Describe[cred].client]
                              /\ TRUE \in Cached(t, "oauth")
    BY DEF RevokedIsRefused
  <2>1. ReqInv(reqs[t], worlds) /\ worlds \in Seq([Items -> BOOLEAN]) /\ reqs[t] \in ReqType
    BY <1>1, InvariantOfRequest
  <2>2. GoodAt(reqs[t], reqs[t].user, worlds)
    BY <2>1 DEF ReqInv, Admitted
  <2>3. ASSUME NEW v \in reqs[t].floor..reqs[t].snap, worlds[v]["oauth"]
        PROVE  TRUE \in Cached(t, "oauth")
    <3>1. v \in 1..Len(worlds)
      BY <2>1 DEF ReqInv, Placed, ReqType
    <3>2. worlds[v] \in [Items -> BOOLEAN] /\ "oauth" \in Items
      <4>1. worlds[v] \in [Items -> BOOLEAN]
        BY <2>1, <3>1
      <4>2. "oauth" \in Items
        BY DEF Items, Switches
      <4> QED BY <4>1, <4>2
    <3>3. worlds[v]["oauth"] = TRUE
      BY <2>3, <3>2
    <3> QED BY <3>3 DEF Cached
  <2> QED BY <2>2, <2>3 DEF GoodAt, World
<1> QED BY <1>1, DoorInvariant, PTL

\* Whatever crashes and failed commits come between a proxied call and its row,
\* a row of success is of a call that was made, and a call that was made lacks a
\* row only while its request is under way or for one of those reasons.
THEOREM TheLegacyLogIsTrue == Spec => []LegacyLogIsTrue
<1>1. ASSUME DoorInv PROVE LegacyLogIsTrue
  BY <1>1 DEF DoorInv
<1> QED BY <1>1, DoorInvariant, PTL

\* A request is counted as a failure once, whatever doors and runs it meets.
THEOREM FailuresAreCountedOnce == Spec => []CountedOnce
<1>1. ASSUME DoorInv PROVE CountedOnce
  BY <1>1, InvariantOfRequest DEF CountedOnce, ReqInv, Counts
<1> QED BY <1>1, DoorInvariant, PTL

-----------------------------------------------------------------------------
(***************************************************************************)
(* Failures and their rows.                                                *)
(***************************************************************************)

\* The steps of one request, its arrival apart.
StepOf(t) ==
  \/ Bearer(t) \/ Key(t) \/ Identify(t) \/ Pass(t) \/ Refuse(t)
  \/ Dispatch(t) \/ Log(t) \/ Marshal(t) \/ Report(t) \/ Rerun(t) \/ Return(t)

\* A step of one request leaves the others as they are.
LEMMA OthersStay ==
  ASSUME Types, NEW u \in Threads, NEW t \in Threads, t # u,
         StepOf(u) \/ \E arrival \in Arrivals : Begin(u, arrival[1], arrival[2])
  PROVE  reqs'[t] = reqs[t]
<1>1. reqs \in [Threads -> ReqType \cup {Idle}]
  BY DEF Types
<1>2. \A y : reqs' = [reqs EXCEPT ![u] = y] => reqs'[t] = reqs[t]
  BY <1>1
<1>3. CASE \E arrival \in Arrivals : Begin(u, arrival[1], arrival[2])
  BY <1>2, <1>3 DEF Begin
<1>4. CASE Bearer(u)
  BY <1>2, <1>4 DEF Bearer
<1>5. CASE Key(u)
  BY <1>2, <1>5 DEF Key
<1>6. CASE Identify(u)
  BY <1>2, <1>6 DEF Identify
<1>7. CASE Pass(u) \/ Refuse(u)
  BY <1>2, <1>7 DEF Pass, Refuse
<1>8. CASE Dispatch(u) \/ Log(u) \/ Marshal(u) \/ Report(u)
  BY <1>2, <1>8 DEF Dispatch, Log, Marshal, Report
<1>9. CASE Rerun(u) \/ Return(u)
  BY <1>2, <1>9 DEF Rerun, Return
<1> QED BY <1>3, <1>4, <1>5, <1>6, <1>7, <1>8, <1>9 DEF StepOf

\* Ending leaves the record of failures as it is.
LEMMA OverKeepsFailures ==
  ASSUME NEW x \in ReqType, NEW row
  PROVE  Over(x, row).failures = x.failures /\ Over(x, row).fate = x.fate
BY DEF Over, ReqType

\* Going on leaves it as it is, too.
LEMMA OnwardKeepsFailures ==
  ASSUME NEW x \in ReqType, NEW u
  PROVE  Onward(x, u).failures = x.failures /\ Onward(x, u).fate = x.fate
BY DEF Onward, ReqType

\* A request at a gate that gains a failure was at a door, and its failure was
\* put to the row limiter.
LEMMA FailuresArePutToLimiters ==
  ASSUME DoorInv, NEW t \in Threads, reqs[t].phase = "gates", StepOf(t),
         reqs'[t].phase # "idle", reqs'[t].failures # reqs[t].failures
  PROVE  \E limiters \in {{"row"}, {"bearer", "row"}} : Fail(t, limiters, reqs'[t].fate)
<1> DEFINE x == reqs[t]
<1>1. /\ x \in ReqType /\ x.gate <= Len(Route(x.kind))
      /\ reqs \in [Threads -> ReqType \cup {Idle}] /\ x.phase = "gates"
  BY RequestAtGate DEF DoorInv, Types, ReqInv, Placed
<1>2. ASSUME NEW y, reqs' = [reqs EXCEPT ![t] = y]
      PROVE  y.failures # x.failures /\ y # Idle /\ reqs'[t] = y
  BY <1>1, <1>2 DEF Idle
<1>3. ASSUME NEW n \in Nat, NEW fate \in Fates, NEW row, NEW u,
             \/ reqs' = [reqs EXCEPT ![t] = Over(Failed(x, n, fate), row)]
             \/ reqs' = [reqs EXCEPT ![t] = Onward(Failed(x, n, fate), u)]
             \/ reqs' = [reqs EXCEPT ![t] = Onward(Used(Failed(x, n, fate)), u)]
      PROVE  n # 0 /\ reqs'[t].fate = fate
  <2> DEFINE f == Failed(x, n, fate)
  <2>1. f \in ReqType /\ f.failures = x.failures + n /\ f.fate = fate
    BY <1>1, FailedChanges
  <2>2. x.failures \in Nat
    BY <1>1 DEF ReqType
  <2> HIDE DEF f, x
  <2>3. /\ Over(f, row).failures = f.failures /\ Over(f, row).fate = fate
        /\ Onward(f, u).failures = f.failures /\ Onward(f, u).fate = fate
        /\ Onward(Used(f), u).failures = f.failures /\ Onward(Used(f), u).fate = fate
    BY <2>1, OverKeepsFailures, OnwardKeepsFailures, UsedChanges
  <2>4. CASE reqs' = [reqs EXCEPT ![t] = Over(f, row)]
    <3>1. Over(f, row).failures # x.failures /\ reqs'[t] = Over(f, row)
      BY <1>2, <2>4
    <3> QED BY <2>1, <2>2, <2>3, <3>1
  <2>5. CASE reqs' = [reqs EXCEPT ![t] = Onward(f, u)]
    <3>1. Onward(f, u).failures # x.failures /\ reqs'[t] = Onward(f, u)
      BY <1>2, <2>5
    <3> QED BY <2>1, <2>2, <2>3, <3>1
  <2>6. CASE reqs' = [reqs EXCEPT ![t] = Onward(Used(f), u)]
    <3>1. Onward(Used(f), u).failures # x.failures /\ reqs'[t] = Onward(Used(f), u)
      BY <1>2, <2>6
    <3> QED BY <2>1, <2>2, <2>3, <3>1
  <2> QED BY <1>3, <2>4, <2>5, <2>6 DEF f
<1>4. ASSUME NEW row, reqs' = [reqs EXCEPT ![t] = Over(x, row)] PROVE FALSE
  BY <1>1, <1>2, <1>4, OverKeepsFailures
<1>5. ASSUME NEW u, reqs' = [reqs EXCEPT ![t] = Onward(x, u)] PROVE FALSE
  BY <1>1, <1>2, <1>5, OnwardKeepsFailures
<1>6. ASSUME NEW limiters \in {{"row"}, {"bearer", "row"}}, NEW fate \in Fates,
             Fail(t, limiters, fate), NEW row, NEW u,
             \/ reqs' = [reqs EXCEPT ![t] = Over(Failed(x, 1, fate), row)]
             \/ reqs' = [reqs EXCEPT ![t] = Onward(Failed(x, 1, fate), u)]
      PROVE  Fail(t, limiters, reqs'[t].fate)
  <2>1. reqs'[t].fate = fate
    BY <1>3, <1>6
  <2> QED BY <1>6, <2>1
<1> HIDE DEF x
<1>7. CASE Bearer(t)
  BY <1>4, <1>5, <1>6, <1>7 DEF Bearer, x
<1>8. CASE Key(t)
  <2> DEFINE byKey == KeyUser(World(t), x.cred, {"rpc"})
  <2>1. PICK user \in IF byKey # NoUser THEN {byKey}
                      ELSE {NoUser} \cup {u \in Users : World(t)[u]}, fate \in Fates :
          LET n == FailuresAt(x.cred, byKey, user)
          IN /\ IF n > 0 THEN Fail(t, {"row"}, fate) ELSE fate = "none" /\ UNCHANGED recent
             /\ reqs' = [reqs EXCEPT ![t] =
                  IF user = NoUser THEN Over(Failed(x, n, fate), "none")
                  ELSE Onward(Used(Failed(x, n, fate)), user)]
    BY <1>8 DEF Key, x
  <2> DEFINE n == FailuresAt(x.cred, byKey, user)
  <2>2. n \in {0, 1} /\ n \in Nat
    BY DEF FailuresAt
  <2>3. /\ n > 0 => Fail(t, {"row"}, fate)
        /\ \/ reqs' = [reqs EXCEPT ![t] = Over(Failed(x, n, fate), "none")]
           \/ reqs' = [reqs EXCEPT ![t] = Onward(Used(Failed(x, n, fate)), user)]
    <3>1. /\ n > 0 => Fail(t, {"row"}, fate)
          /\ reqs' = [reqs EXCEPT ![t] = IF user = NoUser THEN Over(Failed(x, n, fate), "none")
                                         ELSE Onward(Used(Failed(x, n, fate)), user)]
      BY <2>1
    <3> HIDE DEF n, byKey
    <3>2. CASE user = NoUser
      BY <3>1, <3>2
    <3>3. CASE user # NoUser
      BY <3>1, <3>3
    <3> QED BY <3>2, <3>3
  <2> HIDE DEF n, byKey
  <2>4. n # 0 /\ reqs'[t].fate = fate
    BY <1>3, <2>2, <2>3
  <2> QED BY <2>2, <2>3, <2>4
<1>9. CASE Identify(t)
  BY <1>5, <1>6, <1>9 DEF Identify, x
<1>10. CASE Pass(t)
  BY <1>5, <1>10 DEF Pass, x
<1>11. CASE Refuse(t)
  BY <1>4, <1>11 DEF Refuse, x
<1>12. CASE Dispatch(t)
  <2> DEFINE z == Used(x)  o == Onward(z, x.user)
  <2>1. PICK c, reply : reqs' = [reqs EXCEPT ![t] = [o EXCEPT !.call = c, !.reply = reply]]
    BY <1>12 DEF Dispatch, x
  <2> DEFINE y == [o EXCEPT !.call = c, !.reply = reply]
  <2>2. o \in ReqType /\ o.failures = x.failures
    <3>1. x.user \in Users \cup {NoUser}
      BY <1>1 DEF ReqType
    <3>2. /\ z \in ReqType /\ z.gate <= Len(Route(z.kind))
          /\ z.failures = x.failures
      BY <1>1, UsedChanges
    <3> HIDE DEF z
    <3> QED BY <3>1, <3>2, OnwardChanges
  <2> HIDE DEF o
  <2>3. y.failures = o.failures
    BY <2>2 DEF ReqType
  <2> QED BY <1>2, <2>1, <2>2, <2>3
<1>13. CASE Log(t)
  <2> DEFINE o == Onward(x, x.user)
  <2>1. PICK row : reqs' = [reqs EXCEPT ![t] = IF x.reply = "success" THEN [o EXCEPT !.row = row]
                                               ELSE Over(x, row)]
    BY <1>13 DEF Log, x
  <2> DEFINE y == [o EXCEPT !.row = row]
  <2>2. o \in ReqType /\ o.failures = x.failures
    <3>1. x.user \in Users \cup {NoUser}
      BY <1>1 DEF ReqType
    <3> QED BY <1>1, <3>1, OnwardChanges
  <2>3. CASE x.reply = "success"
    <3>1. reqs' = [reqs EXCEPT ![t] = y]
      BY <2>1, <2>3
    <3> HIDE DEF o
    <3>2. y.failures = o.failures
      BY <2>2 DEF ReqType
    <3> QED BY <1>2, <2>2, <3>1, <3>2
  <2>4. CASE x.reply # "success"
    BY <1>4, <2>1, <2>4
  <2> QED BY <2>3, <2>4
<1>14. CASE Marshal(t)
  BY <1>4, <1>14 DEF Marshal, x
<1>15. ~Report(t) /\ ~Rerun(t)
  BY <1>1 DEF Report, Rerun, x
<1>16. ~Return(t)
  BY <1>2 DEF Return
<1> QED BY <1>7, <1>8, <1>9, <1>10, <1>11, <1>12, <1>13, <1>14, <1>15, <1>16 DEF StepOf

\* A failure's row is tried, and written or swallowed, unless the window is full
\* of failures.
THEOREM OnlyFloodsSilence == Spec => SilenceMeansFlood
<1>1. ASSUME DoorInv, Next, NEW t \in Threads, reqs[t].phase = "gates",
             reqs'[t].phase # "idle", reqs'[t].failures > reqs[t].failures
      PROVE  Len(recent) >= FailureMax \/ reqs'[t].fate \in {"written", "swallowed"}
  <2>1. Types /\ \A l \in {"bearer", "row"} : Hits(l) <= FailureMax
    BY <1>1 DEF DoorInv
  <2>2. reqs[t] \in ReqType
    BY <1>1, RequestAtGate
  <2>3. reqs'[t].failures # reqs[t].failures
    BY <1>1, <2>2 DEF ReqType
  <2>4. CASE StepOf(t)
    <3>1. PICK limiters \in {{"row"}, {"bearer", "row"}} : Fail(t, limiters, reqs'[t].fate)
      BY <1>1, <2>3, <2>4, FailuresArePutToLimiters
    <3> QED BY <2>1, <3>1, FailedOnce
  <2>5. ASSUME NEW arrival \in Arrivals, Begin(t, arrival[1], arrival[2])
        PROVE  FALSE
    BY <1>1, <2>5 DEF Begin, Idle
  <2>6. ASSUME NEW u \in Threads, u # t,
               StepOf(u) \/ \E arrival \in Arrivals : Begin(u, arrival[1], arrival[2])
        PROVE  FALSE
    BY <2>1, <2>3, <2>6, OthersStay
  <2>7. ASSUME \/ \E item \in Items : Edit(item)
               \/ Signal \/ Forget
        PROVE  FALSE
    BY <2>3, <2>7 DEF Edit, Signal, Forget
  <2>8. ~Crash
    BY <1>1 DEF Crash, Idle
  <2> QED BY <1>1, <2>4, <2>5, <2>6, <2>7, <2>8 DEF Next, StepOf
<1>2. ASSUME DoorInv, [Next]_vars
      PROVE  [\A t \in Threads :
               reqs[t].phase = "gates" /\ reqs'[t].phase # "idle" /\ reqs'[t].failures > reqs[t].failures =>
                 \/ Len(recent) >= FailureMax
                 \/ reqs'[t].fate \in {"written", "swallowed"}]_vars
  BY <1>1, <1>2
<1> QED BY <1>2, DoorInvariant, PTL DEF SilenceMeansFlood, Spec
=============================================================================
