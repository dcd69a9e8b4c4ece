---------------------------- MODULE McpCallProofs ----------------------------
(***************************************************************************)
(* Proofs about McpCall, for any callers, records, requests and limits:    *)
(* the inductive invariant CallInv, the properties it implies, and the     *)
(* refinement of AtomicCalls.                                              *)
(***************************************************************************)
EXTENDS McpCall, TLAPS

USE NobodyIsNoCaller

-----------------------------------------------------------------------------
(***************************************************************************)
(* The inductive invariant.                                                *)
(***************************************************************************)
CallType ==
  [phase : {"idle", "screen", "tool", "commit", "over"},
   asks : Requests \cup {NoRequest}, try : 0..MaxTries,
   seen : [Records -> SUBSET Callers], wrote : SUBSET Records, row : BOOLEAN,
   answer : Answers, dropped : BOOLEAN]

Types ==
  /\ enabled \in BOOLEAN /\ limitAudited \in BOOLEAN
  /\ rows \in [Records -> SUBSET Callers]
  /\ owner \in [Records -> Callers \cup {Nobody}]
  /\ calls \in [Callers -> CallType]
  /\ log \in [Callers -> [Kinds -> Nat]]
  /\ hits \in Nat /\ (Cap > 0 => hits <= Cap)
  /\ audits \in 0..AuditMax

\* What a call's own record says at each phase.
InScreen(x) ==
  x.phase = "screen" => x.wrote = {} /\ x.answer = "none"

InTool(x) ==
  x.phase = "tool" => x.answer = "none"

\* A call about to commit has all its writes or none, as it is going to say.
InCommit(x) ==
  x.phase = "commit" =>
    /\ x.answer \notin {"none", "lost", "gave up"}
    /\ x.wrote = IF x.answer = "ok" THEN x.asks.writes ELSE {}

IsOver(x) ==
  x.phase = "over" => x.wrote = {} /\ x.answer # "none"

\* Why it was answered as it was.
AnswersWell(x) ==
  /\ x.answer = "failed" => x.asks.ends = "badly"
  /\ x.answer = "gave up" => x.try = MaxTries
  /\ x.answer = "incomplete" => ~Denied(x.asks)

Tidy(x) ==
  /\ x.phase = "idle" => x = Idle
  /\ x.phase # "idle" => x.asks \in Requests /\ x.try >= 1
  /\ x.wrote \subseteq x.asks.writes
  /\ x.row => x.phase = "commit" /\ x.answer = "ok"
  /\ InScreen(x) /\ InTool(x) /\ InCommit(x) /\ IsOver(x) /\ AnswersWell(x)

\* The audit rows l of a call with record x: none while it may still be rerun,
\* none beside the success row that waits for the commit, then at most one.
Empty(l) == \A k \in Kinds : l[k] = 0
AtMost(l, k) == l[k] <= 1 /\ \A j \in Kinds \ {k} : l[j] = 0

Explains(x, l) ==
  Audits(x.asks) /\ x.answer \notin {"disabled", "limited", "gave up", "lost"} =>
    IF x.phase = "commit" /\ x.answer = "ok" THEN x.row <=> ~x.dropped
    ELSE Empty(l) <=> x.dropped

Logged(x, l) ==
  /\ x.phase \in {"idle", "screen", "tool"} => Empty(l)
  /\ x.phase = "commit" /\ x.answer = "ok" => Empty(l)
  /\ x.phase \in {"commit", "over"} =>
       IF x.answer = "lost" THEN \E k \in Kinds \ {"model_access"} : AtMost(l, k)
       ELSE AtMost(l, Truth(x.answer)) /\ Explains(x, l)

\* Locks are held by the calls that wrote the rows, and a locked row is still
\* what its holder has read.
LocksCoverWrites(c) ==
  \A r \in Records :
    /\ owner[r] = c <=> r \in calls[c].wrote
    /\ r \in calls[c].wrote => rows[r] = calls[c].seen[r]

\* A success row is committed with the writes, and they stay.
WritesStay(c) ==
  log[c]["model_access"] > 0 =>
    /\ calls[c].phase = "over" /\ calls[c].answer = "ok"
    /\ \A r \in calls[c].asks.writes : c \in rows[r]

CallInv ==
  /\ Types
  /\ \A c \in Callers :
       Tidy(calls[c]) /\ Logged(calls[c], log[c]) /\ LocksCoverWrites(c) /\ WritesStay(c)
-----------------------------------------------------------------------------
(***************************************************************************)
(* The invariant is inductive.                                             *)
(***************************************************************************)
\* The limits are numbers, and there is at least one run.
LEMMA Limits == Cap \in Nat /\ AuditMax \in Nat /\ MaxTries \in Nat /\ MaxTries >= 1
BY LimitsAreLimits

\* A call that has not begun is well formed and wrote nothing.
LEMMA IdleCall == Idle \in CallType /\ Tidy(Idle)
BY Limits DEF Idle, CallType, Tidy, InScreen, InTool, InCommit, IsOver, AnswersWell,
       NoRequest, Answers, Refusals

\* No request has come, nothing is locked, and the log is empty.
LEMMA InitCallInv == Init => CallInv
<1> SUFFICES ASSUME Init PROVE CallInv
  OBVIOUS
<1> USE DEF Init
<1>1. Types
  <2>1. calls \in [Callers -> CallType]
    BY IdleCall
  <2>2. log \in [Callers -> [Kinds -> Nat]]
    OBVIOUS
  <2>3. /\ rows \in [Records -> SUBSET Callers]
        /\ owner \in [Records -> Callers \cup {Nobody}]
    OBVIOUS
  <2>4. hits \in Nat /\ (Cap > 0 => hits <= Cap) /\ audits \in 0..AuditMax
    BY Limits
  <2>5. enabled \in BOOLEAN /\ limitAudited \in BOOLEAN
    OBVIOUS
  <2> HIDE DEF Init
  <2> QED BY <2>1, <2>2, <2>3, <2>4, <2>5 DEF Types
<1>2. ASSUME NEW c \in Callers
      PROVE  /\ Tidy(calls[c]) /\ Logged(calls[c], log[c])
             /\ LocksCoverWrites(c) /\ WritesStay(c)
  <2>1. calls[c] = Idle /\ \A k \in Kinds : log[c][k] = 0
    OBVIOUS
  <2>2. Logged(calls[c], log[c])
    BY <2>1 DEF Logged, Empty, Idle
  <2>3. LocksCoverWrites(c)
    BY <2>1 DEF LocksCoverWrites, Idle
  <2>4. WritesStay(c)
    BY <2>1 DEF WritesStay, Kinds
  <2> QED BY <2>1, <2>2, <2>3, <2>4, IdleCall
<1> QED BY <1>1, <1>2 DEF CallInv

\* Of one call's step it is enough to look at that call, if it changes no row,
\* takes or frees locks for itself only, and logs no success.
LEMMA OneCall ==
  ASSUME CallInv, NEW c \in Callers, NEW x \in CallType,
         calls' = [calls EXCEPT ![c] = x],
         log' \in [Callers -> [Kinds -> Nat]],
         \A d \in Callers \ {c} : log'[d] = log[d],
         log'[c]["model_access"] = log[c]["model_access"],
         calls[c].phase # "over",
         rows' = rows, enabled' = enabled, limitAudited' \in BOOLEAN,
         hits' \in Nat, Cap > 0 => hits' <= Cap, audits' \in 0..AuditMax,
         owner' \in [Records -> Callers \cup {Nobody}],
         \A r \in Records : owner'[r] = c <=> r \in x.wrote,
         \A r \in Records, d \in Callers \ {c} : owner'[r] = d <=> owner[r] = d,
         \A r \in x.wrote : rows[r] = x.seen[r],
         Tidy(x), Logged(x, log'[c])
  PROVE  CallInv'
<1> USE DEF CallInv
<1>1. calls'[c] = x /\ \A d \in Callers \ {c} : calls'[d] = calls[d]
  BY DEF Types
<1>2. Types'
  BY <1>1 DEF Types
<1>3. ASSUME NEW d \in Callers \ {c}
      PROVE  /\ Tidy(calls'[d]) /\ Logged(calls'[d], log'[d])
             /\ LocksCoverWrites(d)' /\ WritesStay(d)'
  BY <1>1 DEF LocksCoverWrites, WritesStay
<1>4. LocksCoverWrites(c)'
  BY <1>1 DEF LocksCoverWrites
<1>5. WritesStay(c)'
  BY <1>1 DEF WritesStay
<1> QED BY <1>1, <1>2, <1>3, <1>4, <1>5

\* The same when the call keeps the locks it has, and when it gives them up.
LEMMA KeepsLocks ==
  ASSUME CallInv, NEW c \in Callers, NEW x \in CallType,
         calls' = [calls EXCEPT ![c] = x],
         log' \in [Callers -> [Kinds -> Nat]],
         \A d \in Callers \ {c} : log'[d] = log[d],
         log'[c]["model_access"] = log[c]["model_access"],
         calls[c].phase # "over",
         rows' = rows, enabled' = enabled, limitAudited' \in BOOLEAN,
         hits' \in Nat, Cap > 0 => hits' <= Cap, audits' \in 0..AuditMax,
         owner' = owner, x.wrote = calls[c].wrote, x.seen = calls[c].seen,
         Tidy(x), Logged(x, log'[c])
  PROVE  CallInv'
<1>1. owner' \in [Records -> Callers \cup {Nobody}]
  BY DEF CallInv, Types
<1>2. \A r \in Records : owner'[r] = c <=> r \in x.wrote
  BY DEF CallInv, LocksCoverWrites
<1>3. \A r \in x.wrote : rows[r] = x.seen[r]
  BY DEF CallInv, LocksCoverWrites, CallType
<1> QED BY <1>1, <1>2, <1>3, OneCall

\* A rollback to the savepoint or to the start frees what the call wrote.
LEMMA FreesLocks ==
  ASSUME CallInv, NEW c \in Callers, NEW x \in CallType,
         calls' = [calls EXCEPT ![c] = x],
         log' \in [Callers -> [Kinds -> Nat]],
         \A d \in Callers \ {c} : log'[d] = log[d],
         log'[c]["model_access"] = log[c]["model_access"],
         calls[c].phase # "over",
         rows' = rows, enabled' = enabled, limitAudited' \in BOOLEAN,
         hits' \in Nat, Cap > 0 => hits' <= Cap, audits' \in 0..AuditMax,
         owner' = Released(c), x.wrote = {},
         Tidy(x), Logged(x, log'[c])
  PROVE  CallInv'
<1>1. owner \in [Records -> Callers \cup {Nobody}]
  BY DEF CallInv, Types
<1>2. owner' \in [Records -> Callers \cup {Nobody}]
  BY <1>1 DEF Released
<1>3. \A r \in Records : owner'[r] = c <=> r \in x.wrote
  BY DEF Released
<1>4. \A r \in Records, d \in Callers \ {c} : owner'[r] = d <=> owner[r] = d
  BY DEF Released
<1>5. \A r \in x.wrote : rows[r] = x.seen[r]
  OBVIOUS
<1> QED BY <1>2, <1>3, <1>4, <1>5, OneCall

\* An answer changes a call's phase, its answer and nothing else.
LEMMA AnswerFields ==
  ASSUME Types, NEW c \in Callers, NEW a \in Answers, Answer(c, a)
  PROVE  /\ calls'[c] \in CallType /\ calls' = [calls EXCEPT ![c] = calls'[c]]
         /\ calls'[c].phase = "commit" /\ calls'[c].answer = a
         /\ calls'[c].asks = calls[c].asks /\ calls'[c].try = calls[c].try
         /\ calls'[c].seen = calls[c].seen /\ calls'[c].wrote = calls[c].wrote
         /\ calls'[c].row = calls[c].row /\ calls'[c].dropped = calls[c].dropped
<1> DEFINE y == [calls[c] EXCEPT !.phase = "commit", !.answer = a]
<1>1. calls \in [Callers -> CallType] /\ calls[c] \in CallType
  BY DEF Types
<1>2. /\ y \in CallType /\ y.phase = "commit" /\ y.answer = a
      /\ y.asks = calls[c].asks /\ y.try = calls[c].try /\ y.seen = calls[c].seen
      /\ y.wrote = calls[c].wrote /\ y.row = calls[c].row
      /\ y.dropped = calls[c].dropped
  BY <1>1 DEF CallType
<1>3. calls' = [calls EXCEPT ![c] = y]
  BY <1>1 DEF Answer
<1> HIDE DEF y
<1>4. calls'[c] = y
  BY <1>1, <1>3
<1> QED BY <1>2, <1>3, <1>4

\* An audit row of a call that has none, written or dropped.
LEMMA AuditedRow ==
  ASSUME Types, NEW c \in Callers, NEW kind \in Kinds \ {"model_access"},
         NEW written \in BOOLEAN, Audited(c, kind, written), Empty(log[c])
  PROVE  /\ log' \in [Callers -> [Kinds -> Nat]]
         /\ \A d \in Callers \ {c} : log'[d] = log[d]
         /\ log'[c]["model_access"] = log[c]["model_access"]
         /\ AtMost(log'[c], kind) /\ (Empty(log'[c]) <=> ~written)
         /\ audits' \in 0..AuditMax
<1>1. log \in [Callers -> [Kinds -> Nat]] /\ \A k \in Kinds : log[c][k] = 0
  BY DEF Types, Empty
<1>2. audits' \in 0..AuditMax
  BY Limits DEF Types, Audited, AuditOpen
<1>3. CASE ~written
  BY <1>1, <1>2, <1>3 DEF Audited, AtMost, Empty, Kinds
<1>4. CASE written
  <2>0. log[c][kind] + 1 = 1
    BY <1>1
  <2>1. log' = [log EXCEPT ![c] = [log[c] EXCEPT ![kind] = 1]]
    BY <1>4, <2>0 DEF Audited
  <2>2. log'[c] = [log[c] EXCEPT ![kind] = 1]
    BY <1>1, <2>1
  <2>3. log' \in [Callers -> [Kinds -> Nat]] /\ \A d \in Callers \ {c} : log'[d] = log[d]
    BY <1>1, <2>1
  <2>4. AtMost(log'[c], kind) /\ ~Empty(log'[c]) /\ log'[c]["model_access"] = log[c]["model_access"]
    BY <1>1, <2>2 DEF AtMost, Empty, Kinds
  <2> QED BY <1>2, <1>4, <2>3, <2>4
<1> QED BY <1>3, <1>4

\* Every answer is explained by a kind of row.
LEMMA TruthIsKind == ASSUME NEW a PROVE Truth(a) \in Kinds
BY DEF Truth, Kinds

\* Having no row is having at most one of any kind.
LEMMA EmptyIsAtMost ==
  ASSUME NEW l, Empty(l), NEW k \in Kinds PROVE AtMost(l, k)
BY DEF Empty, AtMost

\* A call at the screen may be answered so, if it is answered well.
LEMMA ScreenedCall ==
  ASSUME NEW x \in CallType, Tidy(x), x.phase = "screen",
         NEW y \in CallType, y.phase = "commit",
         y.answer \notin {"none", "lost", "gave up", "failed"},
         y.answer = "incomplete" => ~Denied(x.asks),
         y.answer = "ok" => x.asks.writes = {},
         y.asks = x.asks, y.try = x.try, y.wrote = x.wrote, y.row = x.row
  PROVE  Tidy(y)
BY DEF Tidy, InScreen, InTool, InCommit, IsOver, AnswersWell

\* The same of an answer that is audited, where the call is told of a lost row.
LEMMA AnswerAuditedFields ==
  ASSUME Types, NEW c \in Callers, NEW a \in Answers, NEW lost \in BOOLEAN,
         calls' = [calls EXCEPT ![c].phase = "commit", ![c].answer = a,
                                ![c].dropped = lost]
  PROVE  /\ calls'[c] \in CallType /\ calls' = [calls EXCEPT ![c] = calls'[c]]
         /\ calls'[c].phase = "commit" /\ calls'[c].answer = a
         /\ calls'[c].asks = calls[c].asks /\ calls'[c].try = calls[c].try
         /\ calls'[c].seen = calls[c].seen /\ calls'[c].wrote = calls[c].wrote
         /\ calls'[c].row = calls[c].row /\ calls'[c].dropped = lost
<1> DEFINE y == [calls[c] EXCEPT !.phase = "commit", !.answer = a,
                                 !.dropped = lost]
<1>1. calls \in [Callers -> CallType] /\ calls[c] \in CallType
  BY DEF Types
<1>2. /\ y \in CallType /\ y.phase = "commit" /\ y.answer = a
      /\ y.asks = calls[c].asks /\ y.try = calls[c].try /\ y.seen = calls[c].seen
      /\ y.wrote = calls[c].wrote /\ y.row = calls[c].row
      /\ y.dropped = lost
  BY <1>1 DEF CallType
<1>3. calls' = [calls EXCEPT ![c] = y]
  BY <1>1
<1> HIDE DEF y
<1>4. calls'[c] = y
  BY <1>1, <1>3
<1> QED BY <1>2, <1>3, <1>4

\* What the invariant says of one call that is being served.
LEMMA CallAt ==
  ASSUME CallInv, NEW c \in Callers
  PROVE  /\ Types /\ calls[c] \in CallType
         /\ Tidy(calls[c]) /\ Logged(calls[c], log[c])
         /\ calls[c].phase \in {"idle", "screen", "tool"} => Empty(log[c])
         /\ log \in [Callers -> [Kinds -> Nat]]
         /\ audits \in 0..AuditMax /\ limitAudited \in BOOLEAN
         /\ hits \in Nat /\ (Cap > 0 => hits <= Cap)
BY DEF CallInv, Types, Logged

\* A run begins on a fresh snapshot, with nothing written or logged.
LEMMA StartedCall ==
  ASSUME Types, NEW q \in Requests, NEW n \in 1..MaxTries, NEW l, Empty(l)
  PROVE  LET x == Started(q, n)
         IN  /\ x \in CallType /\ x.phase = "screen" /\ x.wrote = {} /\ x.seen = rows
             /\ x.asks = q /\ Tidy(x) /\ Logged(x, l)
<1> DEFINE x == Started(q, n)
<1>1. /\ x.phase = "screen" /\ x.asks = q /\ x.try = n /\ x.seen = rows
      /\ x.wrote = {} /\ x.row = FALSE /\ x.answer = "none" /\ x.dropped = FALSE
  BY DEF Started, Idle
<1>2. x \in CallType
  <2>1. rows \in [Records -> SUBSET Callers] /\ n \in 0..MaxTries
    BY Limits DEF Types
  <2> QED BY <2>1, IdleCall DEF Started, CallType
<1> HIDE DEF x
<1>3. Tidy(x)
  BY <1>1 DEF Tidy, InScreen, InTool, InCommit, IsOver, AnswersWell
<1>4. Logged(x, l)
  BY <1>1 DEF Logged
<1> QED BY <1>1, <1>2, <1>3, <1>4 DEF x

\* A request arrives and takes its first snapshot.
LEMMA ReceiveCallInv ==
  ASSUME CallInv, NEW c \in Callers, Receive(c) PROVE CallInv'
<1> PICK q \in Requests : Receive(c)!(q)
  BY DEF Receive
<1> DEFINE x == Started(q, 1)
<1>1. /\ calls[c].phase = "idle" /\ calls' = [calls EXCEPT ![c] = x]
      /\ UNCHANGED <<rows, owner, log, enabled, hits, audits, limitAudited>>
  BY DEF shared
<1>2. /\ x \in CallType /\ x.phase = "screen" /\ x.wrote = {} /\ x.seen = rows
      /\ Tidy(x) /\ Logged(x, log[c])
  BY <1>1, CallAt, StartedCall, Limits
<1>3. calls[c].wrote = {} /\ Released(c) = owner
  <2>1. calls[c].wrote = {}
    BY <1>1, CallAt DEF Tidy, Idle
  <2>2. owner \in [Records -> Callers \cup {Nobody}] /\ \A r \in Records : owner[r] # c
    BY <2>1 DEF CallInv, Types, LocksCoverWrites
  <2> QED BY <2>1, <2>2 DEF Released
<1> HIDE DEF x
<1> QED BY <1>1, <1>2, <1>3, CallAt, FreesLocks

\* handle_rpc answers before the limiter: nothing is logged.
LEMMA ScreenedOut ==
  ASSUME CallInv, NEW c \in Callers, calls[c].phase = "screen",
         NEW a \in Answers \ {"none", "lost", "gave up", "failed", "incomplete"},
         a = "ok" => calls[c].asks.writes = {},
         Audits(calls[c].asks) => a \in {"disabled", "limited"},
         Answer(c, a), UNCHANGED <<enabled, rows, owner, log>>,
         limitAudited' \in BOOLEAN, hits' \in Nat, Cap > 0 => hits' <= Cap,
         audits' \in 0..AuditMax
  PROVE  CallInv'
<1> DEFINE x == calls'[c]
<1>1. /\ x \in CallType /\ calls' = [calls EXCEPT ![c] = x]
      /\ x.phase = "commit" /\ x.answer = a /\ x.asks = calls[c].asks
      /\ x.try = calls[c].try /\ x.seen = calls[c].seen
      /\ x.wrote = calls[c].wrote /\ x.row = calls[c].row
  BY CallAt, AnswerFields
<1> HIDE DEF x
<1>2. Tidy(x)
  BY <1>1, CallAt, ScreenedCall
<1>3. Empty(log[c])
  BY CallAt
<1>4. Logged(x, log'[c])
  <2>1. log'[c] = log[c] /\ Empty(log'[c])
    BY <1>3
  <2>2. AtMost(log'[c], Truth(a))
    BY <2>1, EmptyIsAtMost, TruthIsKind
  <2>3. AtMost(log'[c], Truth(x.answer))
    BY <1>1, <2>2
  <2>4. Explains(x, log'[c])
    BY <1>1 DEF Explains
  <2> QED BY <1>1, <2>1, <2>3, <2>4 DEF Logged
<1> QED BY <1>1, <1>2, <1>4, CallAt, KeepsLocks

\* The global switch is off.
LEMMA DisabledCallInv ==
  ASSUME CallInv, NEW c \in Callers, Disabled(c) PROVE CallInv'
BY CallAt, ScreenedOut DEF Disabled, shared, Answers, Refusals

\* The envelope is no request.
LEMMA MalformedCallInv ==
  ASSUME CallInv, NEW c \in Callers, Malformed(c) PROVE CallInv'
BY CallAt, ScreenedOut DEF Malformed, shared, Answers, Refusals, Audits

\* A refusal with an audit row on a cursor of its own, written or dropped.
LEMMA RefusedAudited ==
  ASSUME CallInv, NEW c \in Callers, calls[c].phase = "screen",
         NEW a \in Answers \ {"none", "lost", "gave up", "failed", "ok"},
         a = "incomplete" => ~Denied(calls[c].asks),
         NEW kind \in Kinds \ {"model_access"}, kind = Truth(a),
         AnswerAudited(c, a, kind), UNCHANGED <<enabled, rows, owner>>,
         limitAudited' \in BOOLEAN, hits' \in Nat, Cap > 0 => hits' <= Cap
  PROVE  CallInv'
<1>0. Types /\ Empty(log[c]) /\ a \in Answers
  BY CallAt
<1>1. PICK written \in BOOLEAN :
           /\ Audited(c, kind, written)
           /\ calls' = [calls EXCEPT ![c].phase = "commit", ![c].answer = a,
                                     ![c].dropped = ~written]
  BY DEF AnswerAudited
<1> DEFINE x == calls'[c]
<1>2. /\ x \in CallType /\ calls' = [calls EXCEPT ![c] = x]
      /\ x.phase = "commit" /\ x.answer = a /\ x.asks = calls[c].asks
      /\ x.try = calls[c].try /\ x.seen = calls[c].seen
      /\ x.wrote = calls[c].wrote /\ x.row = calls[c].row
      /\ x.dropped = ~written
  BY <1>0, <1>1, AnswerAuditedFields
<1> HIDE DEF x
<1>3. Tidy(x)
  BY <1>2, CallAt, ScreenedCall
<1>4. /\ log' \in [Callers -> [Kinds -> Nat]]
      /\ \A d \in Callers \ {c} : log'[d] = log[d]
      /\ log'[c]["model_access"] = log[c]["model_access"]
      /\ AtMost(log'[c], kind) /\ (Empty(log'[c]) <=> ~written)
      /\ audits' \in 0..AuditMax
  BY <1>0, <1>1, AuditedRow
<1>5. Logged(x, log'[c])
  <2>1. AtMost(log'[c], Truth(x.answer))
    BY <1>2, <1>4
  <2>2. Explains(x, log'[c])
    BY <1>2, <1>4 DEF Explains
  <2> QED BY <1>2, <2>1, <2>2 DEF Logged
<1> QED BY <1>2, <1>3, <1>4, <1>5, CallAt, KeepsLocks

\* The limiter refuses, with an audit row if it is the window's first.
LEMMA OverLimitCallInv ==
  ASSUME CallInv, NEW c \in Callers, OverLimit(c) PROVE CallInv'
<1>1. /\ calls[c].phase = "screen" /\ limitAudited' \in BOOLEAN
      /\ UNCHANGED <<enabled, rows, owner, hits>>
  BY DEF OverLimit
<1>2. CASE Answer(c, "limited") /\ UNCHANGED <<log, audits>>
  BY <1>1, <1>2, CallAt, ScreenedOut DEF Answers, Refusals
<1>3. CASE AnswerAudited(c, "limited", "rate_limit")
  BY <1>1, <1>3, CallAt, RefusedAudited DEF Answers, Refusals, Kinds, Truth
<1> QED BY <1>2, <1>3 DEF OverLimit

\* What the limiter lets through, it counts at most up to the cap.
LEMMA AdmittedCounts ==
  ASSUME CallInv, NEW c \in Callers, Admitted(c)
  PROVE  /\ calls[c].phase = "screen" /\ UNCHANGED <<enabled, limitAudited>>
         /\ hits' \in Nat /\ (Cap > 0 => hits' <= Cap) /\ limitAudited' \in BOOLEAN
         /\ calls[c].asks \in Requests
<1>1. hits \in Nat /\ (Cap > 0 => hits <= Cap) /\ Cap \in Nat
  BY CallAt, Limits
<1>2. hits' \in Nat /\ (Cap > 0 => hits' <= Cap)
  BY <1>1 DEF Admitted, Limited
<1>3. calls[c].phase = "screen" /\ UNCHANGED <<enabled, limitAudited>>
  BY DEF Admitted
<1> QED BY <1>2, <1>3, CallAt DEF Tidy

\* A method without side effects is answered at once.
LEMMA PlainCallInv ==
  ASSUME CallInv, NEW c \in Callers, Plain(c) PROVE CallInv'
<1>1. Admitted(c) /\ UNCHANGED <<rows, owner, log, audits>>
  BY DEF Plain
<1>2. CASE calls[c].asks.method \in {"ping", "list"} /\ Answer(c, "ok")
  <2>1. calls[c].asks.writes = {} /\ ~Audits(calls[c].asks)
    BY <1>1, <1>2, AdmittedCounts, RequestsAreRequests DEF Audits
  <2> QED
    BY <1>1, <1>2, <2>1, AdmittedCounts, CallAt, ScreenedOut DEF Answers, Refusals
<1>3. CASE calls[c].asks.method = "unknown" /\ Answer(c, "method not found")
  BY <1>1, <1>3, AdmittedCounts, CallAt, ScreenedOut DEF Answers, Refusals, Audits
<1> QED BY <1>2, <1>3 DEF Plain

\* A gate refuses, and the row says which kind of refusal it was.
LEMMA GatedCallInv ==
  ASSUME CallInv, NEW c \in Callers, Gated(c) PROVE CallInv'
<1> DEFINE a == Gate(calls[c].asks)
           kind == IF a = "denied" THEN "permission_denied" ELSE "E400"
<1>1. Admitted(c) /\ AnswerAudited(c, a, kind) /\ UNCHANGED <<rows, owner>>
  BY DEF Gated
<1>2. a \in {"invalid", "not an object", "denied", "incomplete"}
  BY DEF Gated, Gate
<1>3. a = "incomplete" => ~Denied(calls[c].asks)
  BY DEF Gate
<1> HIDE DEF a
<1>4. a \in Answers \ {"none", "lost", "gave up", "failed", "ok"}
  BY <1>2 DEF Answers, Refusals
<1>5. kind \in Kinds \ {"model_access"} /\ kind = Truth(a)
  BY <1>2 DEF Kinds, Truth
<1> HIDE DEF kind
<1> QED BY <1>1, <1>3, <1>4, <1>5, AdmittedCounts, RefusedAudited

\* The gates are passed; the call is as it was, but in the tool.
LEMMA EnterCallInv ==
  ASSUME CallInv, NEW c \in Callers, Enter(c) PROVE CallInv'
<1> DEFINE x == [calls[c] EXCEPT !.phase = "tool"]
<1>1. /\ Admitted(c) /\ UNCHANGED <<rows, owner, log, audits>>
      /\ calls' = [calls EXCEPT ![c] = x]
  BY CallAt DEF Enter, Types
<1>2. calls[c].phase = "screen" /\ calls[c] \in CallType
  BY <1>1, AdmittedCounts, CallAt
<1>3. /\ x \in CallType /\ x.phase = "tool" /\ x.asks = calls[c].asks
      /\ x.try = calls[c].try /\ x.seen = calls[c].seen /\ x.wrote = calls[c].wrote
      /\ x.row = calls[c].row /\ x.answer = calls[c].answer
  BY <1>2 DEF CallType
<1> HIDE DEF x
<1>4. Tidy(x)
  BY <1>2, <1>3, CallAt DEF Tidy, InScreen, InTool, InCommit, IsOver, AnswersWell
<1>5. Logged(x, log'[c])
  BY <1>1, <1>2, <1>3, CallAt DEF Logged
<1> QED BY <1>1, <1>2, <1>3, <1>4, <1>5, AdmittedCounts, CallAt, KeepsLocks

-----------------------------------------------------------------------------
\* A write takes a free row that is still as the call has read it.
LEMMA WriteCallInv ==
  ASSUME CallInv, NEW c \in Callers, NEW r \in Records, Write(c, r) PROVE CallInv'
<1> DEFINE x == [calls[c] EXCEPT !.wrote = @ \cup {r}]
<1>1. /\ calls[c].phase = "tool" /\ r \in calls[c].asks.writes
      /\ owner[r] = Nobody /\ rows[r] = calls[c].seen[r]
      /\ owner' = [owner EXCEPT ![r] = c]
      /\ UNCHANGED <<rows, log, enabled, hits, audits, limitAudited>>
  BY DEF Write, Missing, shared
<1>2. calls[c] \in CallType /\ calls' = [calls EXCEPT ![c] = x]
  BY CallAt DEF Write, Types
<1>3. /\ x \in CallType /\ x.phase = "tool" /\ x.asks = calls[c].asks
      /\ x.try = calls[c].try /\ x.seen = calls[c].seen
      /\ x.wrote = calls[c].wrote \cup {r}
      /\ x.row = calls[c].row /\ x.answer = calls[c].answer
  BY <1>1, <1>2 DEF CallType
<1> HIDE DEF x
<1>4. Tidy(x)
  BY <1>1, <1>3, CallAt DEF Tidy, InScreen, InTool, InCommit, IsOver, AnswersWell
<1>5. Logged(x, log'[c])
  BY <1>1, <1>3, CallAt DEF Logged
<1>6. owner \in [Records -> Callers \cup {Nobody}]
  BY DEF CallInv, Types
<1>7. /\ owner' \in [Records -> Callers \cup {Nobody}]
      /\ \A s \in Records : owner'[s] = IF s = r THEN c ELSE owner[s]
  BY <1>1, <1>6
<1>8. \A s \in Records : /\ owner[s] = c <=> s \in calls[c].wrote
                         /\ s \in calls[c].wrote => rows[s] = calls[c].seen[s]
  BY DEF CallInv, LocksCoverWrites
<1>9. \A s \in Records : owner'[s] = c <=> s \in x.wrote
  BY <1>3, <1>7, <1>8
<1>10. \A s \in Records, d \in Callers \ {c} : owner'[s] = d <=> owner[s] = d
  BY <1>1, <1>7
<1>11. \A s \in x.wrote : rows[s] = x.seen[s]
  BY <1>1, <1>2, <1>3, <1>8 DEF CallType
<1>12. calls[c].phase # "over"
  BY <1>1
<1> QED
  BY <1>1, <1>2, <1>3, <1>4, <1>5, <1>7, <1>9, <1>10, <1>11, <1>12, CallAt, OneCall

\* A conflict rolls the call back, and it runs again or gives up.
LEMMA ConflictCallInv ==
  ASSUME CallInv, NEW c \in Callers, Conflict(c) PROVE CallInv'
<1>1. calls[c].phase = "tool"
  BY DEF Conflict, OperationalError, Deadlocked, Waits
<1>2. /\ owner' = Released(c)
      /\ UNCHANGED <<rows, log, enabled, hits, audits, limitAudited>>
  BY DEF Conflict, Retried, shared
<1>3. /\ calls[c] \in CallType /\ calls[c].asks \in Requests
      /\ calls[c].try \in 1..MaxTries /\ Empty(log[c]) /\ Types
  BY <1>1, CallAt, Limits DEF Tidy, CallType
<1>4. CASE calls[c].try < MaxTries
  <2> DEFINE x == Started(calls[c].asks, calls[c].try + 1)
  <2>1. calls' = [calls EXCEPT ![c] = x]
    BY <1>4 DEF Conflict, Retried
  <2>2. calls[c].try + 1 \in 1..MaxTries
    BY <1>3, <1>4, Limits
  <2>3. /\ x \in CallType /\ x.wrote = {} /\ Tidy(x) /\ Logged(x, log[c])
    BY <1>3, <2>2, StartedCall
  <2> HIDE DEF x
  <2> QED BY <1>1, <1>2, <1>3, <2>1, <2>3, CallAt, FreesLocks
<1>5. CASE ~(calls[c].try < MaxTries)
  <2> DEFINE x == [calls[c] EXCEPT !.phase = "over", !.wrote = {}, !.row = FALSE,
                                   !.answer = "gave up"]
  <2>1. calls' = [calls EXCEPT ![c] = x]
    BY <1>5 DEF Conflict, Retried
  <2>2. /\ x \in CallType /\ x.phase = "over" /\ x.wrote = {} /\ x.row = FALSE
        /\ x.answer = "gave up" /\ x.asks = calls[c].asks /\ x.try = calls[c].try
    BY <1>3 DEF CallType, Answers, Refusals
  <2>3. x.try = MaxTries
    BY <1>3, <1>5, <2>2, Limits
  <2> HIDE DEF x
  <2>4. Tidy(x)
    BY <1>3, <2>2, <2>3, Limits DEF Tidy, InScreen, InTool, InCommit, IsOver, AnswersWell
  <2>5. AtMost(log[c], Truth(x.answer)) /\ Explains(x, log[c])
    BY <1>3, <2>2, TruthIsKind, EmptyIsAtMost DEF Explains
  <2>6. Logged(x, log[c])
    BY <2>2, <2>5 DEF Logged
  <2> QED BY <1>1, <1>2, <1>3, <2>1, <2>2, <2>4, <2>6, CallAt, FreesLocks
<1> QED BY <1>4, <1>5

\* The tool ends well with all its writes; its row waits, or is dropped.
LEMMA ToolSucceedsCallInv ==
  ASSUME CallInv, NEW c \in Callers, ToolSucceeds(c) PROVE CallInv'
<1> PICK kept \in BOOLEAN : ToolSucceeds(c)!(kept)
  BY DEF ToolSucceeds
<1> DEFINE x == [calls[c] EXCEPT !.phase = "commit", !.answer = "ok",
                                 !.row = kept, !.dropped = ~kept]
<1>1. /\ calls[c].phase = "tool" /\ calls[c].asks.writes \ calls[c].wrote = {}
      /\ UNCHANGED <<rows, owner, log, enabled, hits, audits, limitAudited>>
  BY DEF Missing, shared
<1>2. calls[c] \in CallType /\ calls' = [calls EXCEPT ![c] = x]
  BY CallAt DEF Types
<1>3. /\ x \in CallType /\ x.phase = "commit" /\ x.asks = calls[c].asks
      /\ x.try = calls[c].try /\ x.seen = calls[c].seen
      /\ x.wrote = calls[c].wrote /\ x.answer = "ok"
      /\ x.row = kept /\ x.dropped = ~kept
  BY <1>2 DEF CallType, Answers
<1> HIDE DEF x
<1>4. calls[c].wrote = calls[c].asks.writes
  BY <1>1, CallAt DEF Tidy
<1>5. Tidy(x)
  BY <1>1, <1>3, <1>4, CallAt DEF Tidy, InScreen, InTool, InCommit, IsOver, AnswersWell
<1>6. Empty(log[c])
  BY <1>1, CallAt
<1>7. AtMost(log[c], Truth(x.answer)) /\ Explains(x, log[c])
  BY <1>3, <1>6, TruthIsKind, EmptyIsAtMost DEF Explains
<1>8. Logged(x, log'[c])
  BY <1>1, <1>3, <1>6, <1>7 DEF Logged
<1> QED BY <1>1, <1>2, <1>3, <1>5, <1>8, CallAt, KeepsLocks

\* The tool fails: the savepoint is rolled back, and the failure audited.
LEMMA ToolFailsCallInv ==
  ASSUME CallInv, NEW c \in Callers, ToolFails(c) PROVE CallInv'
<1> DEFINE denied == calls[c].asks.ends = "denied"
           kind == IF denied THEN "permission_denied" ELSE "E500"
           a == IF denied THEN "denied" ELSE "failed"
<1>1. PICK written \in BOOLEAN :
        /\ Audited(c, kind, written)
        /\ calls' = [calls EXCEPT ![c].phase = "commit", ![c].wrote = {},
                                  ![c].answer = a, ![c].dropped = ~written]
  BY DEF ToolFails
<1>2. /\ calls[c].phase = "tool" /\ calls[c].asks.ends # "well"
      /\ owner' = Released(c) /\ UNCHANGED <<enabled, rows, hits, limitAudited>>
  BY DEF ToolFails
<1>3. /\ calls[c] \in CallType /\ calls[c].asks \in Requests /\ Empty(log[c])
      /\ Types /\ calls[c].row = FALSE
  BY <1>2, CallAt DEF Tidy, CallType
<1>4. calls[c].asks.ends \in {"denied", "badly"}
  BY <1>2, <1>3, RequestsAreRequests DEF RequestType
<1>5. kind \in Kinds \ {"model_access"} /\ a \in {"denied", "failed"} /\ kind = Truth(a)
  BY <1>4 DEF Kinds, Truth
<1>6. a = "failed" => calls[c].asks.ends = "badly"
  BY <1>4
<1> HIDE DEF kind, a
<1> DEFINE x == [calls[c] EXCEPT !.phase = "commit", !.wrote = {}, !.answer = a,
                                 !.dropped = ~written]
<1>7. calls' = [calls EXCEPT ![c] = x]
  BY <1>1, <1>3 DEF Types
<1>8. /\ x \in CallType /\ x.phase = "commit" /\ x.asks = calls[c].asks
      /\ x.try = calls[c].try /\ x.wrote = {} /\ x.answer = a
      /\ x.row = FALSE /\ x.dropped = ~written
  BY <1>3, <1>5 DEF CallType, Answers, Refusals
<1> HIDE DEF x
<1>9. Tidy(x)
  BY <1>2, <1>3, <1>5, <1>6, <1>8, CallAt
     DEF Tidy, InScreen, InTool, InCommit, IsOver, AnswersWell
<1>10. /\ log' \in [Callers -> [Kinds -> Nat]]
       /\ \A d \in Callers \ {c} : log'[d] = log[d]
       /\ log'[c]["model_access"] = log[c]["model_access"]
       /\ AtMost(log'[c], kind) /\ (Empty(log'[c]) <=> ~written)
       /\ audits' \in 0..AuditMax
  BY <1>1, <1>3, <1>5, AuditedRow
<1>11. AtMost(log'[c], Truth(x.answer)) /\ Explains(x, log'[c])
  BY <1>5, <1>8, <1>10 DEF Explains
<1>12. Logged(x, log'[c])
  BY <1>5, <1>8, <1>11 DEF Logged
<1> QED BY <1>2, <1>7, <1>8, <1>9, <1>10, <1>12, CallAt, FreesLocks

\* The commit makes the writes of one call visible, together with its row; the
\* lock on each has kept it as the call has read it.
LEMMA CommitWrites ==
  ASSUME CallInv, NEW c \in Callers, Commit(c)
  PROVE  /\ rows' = [r \in Records |-> IF r \in calls[c].wrote THEN rows[r] \cup {c}
                                                             ELSE rows[r]]
         /\ rows' \in [Records -> SUBSET Callers]
         /\ \A r \in Records : rows[r] \subseteq rows'[r]
<1>1. rows \in [Records -> SUBSET Callers]
  BY DEF CallInv, Types
<1>2. \A r \in Records : r \in calls[c].wrote => rows[r] = calls[c].seen[r]
  BY DEF CallInv, LocksCoverWrites
<1>3. rows' = [r \in Records |-> IF r \in calls[c].wrote THEN rows[r] \cup {c}
                                                        ELSE rows[r]]
  BY <1>2 DEF Commit
<1> QED BY <1>1, <1>3

\* The log of a commit: the success row, if one was waiting.
LEMMA CommitLog ==
  ASSUME CallInv, NEW c \in Callers, Commit(c)
  PROVE  /\ log' \in [Callers -> [Kinds -> Nat]]
         /\ \A d \in Callers \ {c} : log'[d] = log[d]
         /\ calls[c].row => AtMost(log'[c], "model_access") /\ ~Empty(log'[c])
         /\ ~calls[c].row => log' = log
<1>1. log \in [Callers -> [Kinds -> Nat]]
  BY CallAt
<1>2. CASE calls[c].row
  <2>1. calls[c].phase = "commit" /\ calls[c].answer = "ok"
    BY <1>2, CallAt DEF Tidy
  <2>2. \A k \in Kinds : log[c][k] = 0
    BY <2>1, CallAt DEF Logged, Empty
  <2>3. log[c]["model_access"] + 1 = 1
    BY <2>2 DEF Kinds
  <2>4. log' = [log EXCEPT ![c] = [log[c] EXCEPT !["model_access"] = 1]]
    BY <1>2, <2>3 DEF Commit
  <2>5. log'[c] = [log[c] EXCEPT !["model_access"] = 1]
    BY <1>1, <2>4
  <2>6. log' \in [Callers -> [Kinds -> Nat]] /\ \A d \in Callers \ {c} : log'[d] = log[d]
    BY <1>1, <2>4 DEF Kinds
  <2>7. AtMost(log'[c], "model_access") /\ ~Empty(log'[c])
    BY <1>1, <2>2, <2>5 DEF AtMost, Empty, Kinds
  <2> QED BY <1>2, <2>6, <2>7
<1>3. CASE ~calls[c].row
  BY <1>1, <1>3 DEF Commit
<1> QED BY <1>2, <1>3

\* A commit touches no row another call has locked, and answers for its own.
LEMMA CommitCallInv ==
  ASSUME CallInv, NEW c \in Callers, Commit(c) PROVE CallInv'
<1> DEFINE x == [calls[c] EXCEPT !.phase = "over", !.wrote = {}, !.row = FALSE]
<1>1. calls[c].phase = "commit" /\ calls[c] \in CallType /\ Types
  BY CallAt DEF Commit
<1>2. /\ calls' = [calls EXCEPT ![c] = x] /\ owner' = Released(c)
      /\ UNCHANGED <<enabled, hits, audits, limitAudited>>
  BY <1>1 DEF Commit, shared, Types
<1>3. /\ x \in CallType /\ x.phase = "over" /\ x.wrote = {} /\ x.row = FALSE
      /\ x.asks = calls[c].asks /\ x.try = calls[c].try
      /\ x.answer = calls[c].answer /\ x.dropped = calls[c].dropped
  BY <1>1 DEF CallType
<1> HIDE DEF x
<1>4. calls'[c] = x /\ \A d \in Callers \ {c} : calls'[d] = calls[d]
  BY <1>1, <1>2 DEF Types
<1>5. owner \in [Records -> Callers \cup {Nobody}]
  BY <1>1 DEF Types
<1>6. /\ owner' \in [Records -> Callers \cup {Nobody}]
      /\ \A r \in Records : owner'[r] # c
      /\ \A r \in Records, d \in Callers \ {c} : owner'[r] = d <=> owner[r] = d
  BY <1>2, <1>5 DEF Released
<1>7. Types'
  BY <1>1, <1>2, <1>3, <1>6, CommitWrites, CommitLog DEF Types
<1>8. Tidy(calls[c]) /\ Logged(calls[c], log[c])
  BY CallAt
<1>9. Tidy(x)
  BY <1>1, <1>3, <1>8 DEF Tidy, InScreen, InTool, InCommit, IsOver, AnswersWell
<1>10. Logged(x, log'[c])
  <2>1. calls[c].answer # "lost"
    BY <1>1, <1>8 DEF Tidy, InCommit
  <2>2. CASE calls[c].row
    <3>1. calls[c].answer = "ok" /\ Truth("ok") = "model_access"
      BY <2>2, <1>8 DEF Tidy, Truth
    <3>2. Explains(x, log'[c])
      <4>1. Audits(x.asks) => (calls[c].row <=> ~calls[c].dropped)
        BY <1>1, <1>3, <1>8, <3>1 DEF Logged, Explains
      <4>2. ~Empty(log'[c])
        BY <2>2, CommitLog
      <4> QED BY <1>3, <2>2, <4>1, <4>2 DEF Explains
    <3> QED BY <1>3, <2>1, <2>2, <3>1, <3>2, CommitLog DEF Logged
  <2>3. CASE ~calls[c].row
    <3>1. log'[c] = log[c]
      BY <2>3, CommitLog
    <3>2. AtMost(log[c], Truth(x.answer))
      BY <1>1, <1>3, <1>8, <2>1 DEF Logged
    <3>3. Explains(calls[c], log[c])
      BY <1>1, <1>8, <2>1 DEF Logged
    <3>4. calls[c].answer = "ok" => Empty(log[c])
      BY <1>1, <1>8 DEF Logged
    <3>5. Explains(x, log[c])
      BY <1>1, <1>3, <2>3, <3>3, <3>4 DEF Explains, CallType
    <3> QED BY <1>3, <2>1, <3>1, <3>2, <3>5 DEF Logged
  <2> QED BY <2>2, <2>3
<1>11. ASSUME NEW d \in Callers
       PROVE  LocksCoverWrites(d)'
  <2>1. CASE d = c
    BY <1>3, <1>4, <1>6, <2>1 DEF LocksCoverWrites
  <2>2. CASE d # c
    <3>1. \A r \in Records : /\ owner[r] = d <=> r \in calls[d].wrote
                             /\ r \in calls[d].wrote => rows[r] = calls[d].seen[r]
                             /\ owner[r] = c <=> r \in calls[c].wrote
      BY DEF CallInv, LocksCoverWrites
    <3>2. \A r \in Records : r \in calls[d].wrote => rows'[r] = rows[r]
      BY <2>2, <3>1, CommitWrites
    <3> QED BY <1>4, <1>6, <2>2, <3>1, <3>2 DEF LocksCoverWrites
  <2> QED BY <2>1, <2>2
<1>12. ASSUME NEW d \in Callers
       PROVE  WritesStay(d)'
  <2>1. CASE d = c
    <3>1. WritesStay(c)
      BY DEF CallInv
    <3>2. log[c]["model_access"] = 0
      BY <1>1, <3>1, CallAt DEF WritesStay, Kinds
    <3>3. CASE ~calls[c].row
      BY <2>1, <3>2, <3>3, CommitLog DEF WritesStay
    <3>4. CASE calls[c].row
      <4>1. calls[c].answer = "ok" /\ calls[c].wrote = calls[c].asks.writes
        BY <1>1, <1>8, <3>4 DEF Tidy, InCommit
      <4>2. calls[c].wrote \subseteq Records
        BY <1>1 DEF CallType
      <4> QED BY <1>3, <1>4, <2>1, <4>1, <4>2, CommitWrites DEF WritesStay
    <3> QED BY <3>3, <3>4
  <2>2. CASE d # c
    <3>1. WritesStay(d) /\ log'[d] = log[d] /\ calls'[d] = calls[d]
      BY <1>4, <2>2, CommitLog DEF CallInv
    <3>2. calls[d].phase = "over" => calls[d].asks.writes \subseteq Records
      BY CallAt, RequestsAreRequests DEF Tidy, RequestType
    <3> QED BY <3>1, <3>2, CommitWrites DEF WritesStay
  <2> QED BY <2>1, <2>2
<1>13. ASSUME NEW d \in Callers
       PROVE  Tidy(calls'[d]) /\ Logged(calls'[d], log'[d])
  BY <1>4, <1>9, <1>10, CallAt, CommitLog
<1> QED BY <1>7, <1>11, <1>12, <1>13 DEF CallInv

\* A crash frees every lock and answers nobody.
LEMMA CrashCallInv == CallInv /\ Crash => CallInv'
<1> SUFFICES ASSUME CallInv, Crash PROVE CallInv'
  OBVIOUS
<1>1. ASSUME NEW c \in Callers
      PROVE  /\ calls'[c] \in CallType /\ Tidy(calls'[c]) /\ Logged(calls'[c], log[c])
             /\ calls'[c].wrote = {} /\ WritesStay(c)'
  <2>1. /\ calls[c] \in CallType /\ Tidy(calls[c]) /\ Logged(calls[c], log[c])
        /\ WritesStay(c)
    BY CallAt DEF CallInv
  <2>2. rows' = rows /\ log' = log
    BY DEF Crash
  <2>3. CASE calls[c].phase \in {"idle", "over"}
    <3>1. calls'[c] = calls[c]
      BY <2>3 DEF Crash
    <3>2. calls[c].wrote = {}
      BY <2>1, <2>3 DEF Tidy, IsOver, Idle
    <3> QED BY <2>1, <2>2, <3>1, <3>2 DEF WritesStay
  <2>4. CASE calls[c].phase \notin {"idle", "over"}
    <3> DEFINE x == [calls[c] EXCEPT !.phase = "over", !.wrote = {}, !.row = FALSE,
                                     !.answer = "lost"]
    <3>1. calls'[c] = x
      BY <2>4 DEF Crash
    <3>2. /\ x \in CallType /\ x.phase = "over" /\ x.wrote = {} /\ x.row = FALSE
          /\ x.answer = "lost" /\ x.asks = calls[c].asks /\ x.try = calls[c].try
      BY <2>1 DEF CallType, Answers
    <3> HIDE DEF x
    <3>3. Tidy(x)
      BY <2>1, <2>4, <3>2 DEF Tidy, InScreen, InTool, InCommit, IsOver, AnswersWell
    <3>4. \E k \in Kinds \ {"model_access"} : AtMost(log[c], k)
      <4>1. CASE Empty(log[c])
        BY <4>1, EmptyIsAtMost DEF Kinds
      <4>2. CASE ~Empty(log[c])
        <5>1. calls[c].phase = "commit" /\ calls[c].answer # "ok" /\ calls[c].answer # "lost"
          BY <2>1, <2>4, <4>2 DEF Logged, CallType, Tidy, InCommit
        <5>2. AtMost(log[c], Truth(calls[c].answer))
          BY <2>1, <5>1 DEF Logged
        <5>3. Truth(calls[c].answer) \in Kinds \ {"model_access"}
          BY <5>1 DEF Truth, Kinds
        <5> QED BY <5>2, <5>3
      <4> QED BY <4>1, <4>2
    <3>5. Logged(x, log[c])
      BY <3>2, <3>4 DEF Logged
    <3>6. WritesStay(c)'
      BY <2>1, <2>2, <2>4 DEF WritesStay
    <3> QED BY <3>1, <3>2, <3>3, <3>5, <3>6
  <2> QED BY <2>3, <2>4
<1>2. DOMAIN calls' = Callers /\ calls' \in [Callers -> CallType]
  BY <1>1 DEF Crash
<1>3. /\ owner' = [r \in Records |-> Nobody] /\ hits' = 0 /\ audits' = 0
      /\ limitAudited' = FALSE /\ UNCHANGED <<enabled, rows, log>>
  BY DEF Crash
<1>4. Types'
  <2>1. owner' \in [Records -> Callers \cup {Nobody}]
    BY <1>3
  <2>2. hits' \in Nat /\ (Cap > 0 => hits' <= Cap) /\ audits' \in 0..AuditMax
    BY <1>3, Limits
  <2>3. enabled' \in BOOLEAN /\ limitAudited' \in BOOLEAN
    BY <1>3 DEF CallInv, Types
  <2>4. rows' \in [Records -> SUBSET Callers] /\ log' \in [Callers -> [Kinds -> Nat]]
    BY <1>3 DEF CallInv, Types
  <2> QED BY <1>2, <2>1, <2>2, <2>3, <2>4 DEF Types
<1>5. ASSUME NEW c \in Callers PROVE LocksCoverWrites(c)'
  BY <1>1, <1>3 DEF LocksCoverWrites
<1> QED BY <1>1, <1>3, <1>4, <1>5 DEF CallInv

\* Time, and the administrator's switch, touch no call.
LEMMA EnvironmentCallInv ==
  ASSUME CallInv, WindowMoves \/ Switch \/ UNCHANGED vars PROVE CallInv'
<1>1. UNCHANGED <<rows, owner, calls, log>>
  BY DEF WindowMoves, Switch, vars
<1>2. CASE WindowMoves
  <2>1. hits' \in Nat /\ (Cap > 0 => hits' <= Cap)
    BY <1>2, Limits DEF CallInv, Types, WindowMoves
  <2>2. audits' \in 0..AuditMax
    BY <1>2, Limits DEF CallInv, Types, WindowMoves
  <2>3. limitAudited' \in BOOLEAN /\ enabled' \in BOOLEAN
    BY <1>2 DEF CallInv, Types, WindowMoves
  <2>4. Types'
    BY <1>1, <2>1, <2>2, <2>3 DEF CallInv, Types
  <2> QED BY <1>1, <2>4 DEF CallInv, LocksCoverWrites, WritesStay
<1>3. CASE Switch
  <2>1. Types'
    BY <1>1, <1>3 DEF CallInv, Types, Switch
  <2> QED BY <1>1, <2>1 DEF CallInv, LocksCoverWrites, WritesStay
<1>4. CASE UNCHANGED vars
  BY <1>4 DEF vars, CallInv, Types, LocksCoverWrites, WritesStay
<1> QED BY <1>2, <1>3, <1>4

\* Every step keeps the invariant.
LEMMA NextCallInv == CallInv /\ [Next]_vars => CallInv'
<1> SUFFICES ASSUME CallInv, [Next]_vars PROVE CallInv'
  OBVIOUS
<1>1. ASSUME NEW c \in Callers, Receive(c) PROVE CallInv'
  BY <1>1, ReceiveCallInv
<1>2. ASSUME NEW c \in Callers, Handle(c) PROVE CallInv'
  <2>1. CASE Disabled(c)
    BY <2>1, DisabledCallInv
  <2>2. CASE Malformed(c)
    BY <2>2, MalformedCallInv
  <2>3. CASE OverLimit(c)
    BY <2>3, OverLimitCallInv
  <2>4. CASE Plain(c)
    BY <2>4, PlainCallInv
  <2>5. CASE Gated(c)
    BY <2>5, GatedCallInv
  <2>6. CASE Enter(c)
    BY <2>6, EnterCallInv
  <2>7. CASE Conflict(c)
    BY <2>7, ConflictCallInv
  <2>8. CASE ToolSucceeds(c)
    BY <2>8, ToolSucceedsCallInv
  <2>9. CASE ToolFails(c)
    BY <2>9, ToolFailsCallInv
  <2>10. CASE Commit(c)
    BY <2>10, CommitCallInv
  <2>11. ASSUME NEW r \in Records, Write(c, r) PROVE CallInv'
    BY <2>11, WriteCallInv
  <2> QED
    BY <1>2, <2>1, <2>2, <2>3, <2>4, <2>5, <2>6, <2>7, <2>8, <2>9, <2>10, <2>11
       DEF Handle
<1>3. CASE Crash
  BY <1>3, CrashCallInv
<1>4. CASE WindowMoves \/ Switch \/ UNCHANGED vars
  BY <1>4, EnvironmentCallInv
<1> QED BY <1>1, <1>2, <1>3, <1>4 DEF Next

\* In every reachable state each call's record, its locks, its writes and its
\* audit rows fit together.
THEOREM CallInvariant == Spec => []CallInv
BY InitCallInv, NextCallInv, PTL DEF Spec
-----------------------------------------------------------------------------
(***************************************************************************)
(* What it implies.                                                        *)
(***************************************************************************)
\* Every variable keeps its type, and a row is locked by its writer alone.
THEOREM CallTypeCorrect == Spec => []TypeOK
<1>1. CallInv => TypeOK
  <2> SUFFICES ASSUME CallInv PROVE TypeOK
    OBVIOUS
  <2>1. ASSUME NEW c \in Callers
        PROVE  calls[c] = Idle \/
                 /\ calls[c].phase \in {"screen", "tool", "commit", "over"}
                 /\ calls[c].asks \in Requests
                 /\ calls[c].try \in 1..MaxTries
                 /\ calls[c].wrote \subseteq calls[c].asks.writes
                 /\ \A r \in Records : owner[r] = c <=> r \in calls[c].wrote
                 /\ calls[c].answer \in Answers
    <3>1. calls[c] \in CallType /\ Tidy(calls[c])
      BY CallAt
    <3>2. \A r \in Records : owner[r] = c <=> r \in calls[c].wrote
      BY DEF CallInv, LocksCoverWrites
    <3> QED BY <3>1, <3>2, Limits DEF CallType, Tidy
  <2>2. Types /\ DOMAIN calls = Callers
    BY DEF CallInv, Types
  <2> QED BY <2>1, <2>2 DEF TypeOK, Types
<1> QED BY <1>1, CallInvariant, PTL

\* The audit log tells the truth about every call (the flags rejected and
\* concurrency_retry of _tools_call, and which cursor each row goes on).
THEOREM AuditTellsTheTruth == Spec => []AuditIsTrue
<1>1. CallInv => AuditIsTrue
  <2> SUFFICES ASSUME CallInv, NEW c \in Callers
               PROVE  AuditIsTrue!(c)
    BY DEF AuditIsTrue
  <2>1. /\ calls[c] \in CallType /\ Tidy(calls[c]) /\ Logged(calls[c], log[c])
        /\ log[c] \in [Kinds -> Nat] /\ WritesStay(c)
    BY CallAt DEF CallInv
  <2>2. PICK k \in Kinds : AtMost(log[c], k)
    BY <2>1, TruthIsKind, EmptyIsAtMost DEF Logged, CallType, Kinds
  <2>3. \A i \in Kinds, j \in Kinds :
          log[c][i] + (IF i = j THEN 0 ELSE log[c][j]) <= 1
    BY <2>1, <2>2 DEF AtMost
  <2>4. "model_access" \in RowsOf(c) =>
          /\ calls[c].phase = "over" /\ calls[c].answer = "ok"
          /\ \A r \in calls[c].asks.writes : c \in rows[r]
    BY <2>1 DEF WritesStay, RowsOf
  <2>5. calls[c].phase = "over" /\ calls[c].answer # "lost" =>
          RowsOf(c) \subseteq {Truth(calls[c].answer)}
    <3> SUFFICES ASSUME calls[c].phase = "over", calls[c].answer # "lost"
                 PROVE  RowsOf(c) \subseteq {Truth(calls[c].answer)}
      OBVIOUS
    <3>1. AtMost(log[c], Truth(calls[c].answer))
      BY <2>1 DEF Logged
    <3> QED BY <2>1, <3>1 DEF AtMost, RowsOf
  <2>6. /\ calls[c].phase = "over" /\ Audits(calls[c].asks)
        /\ calls[c].answer \notin {"disabled", "limited", "gave up", "lost"}
        => (RowsOf(c) = {} <=> calls[c].dropped)
    <3>1. RowsOf(c) = {} <=> Empty(log[c])
      BY <2>1 DEF RowsOf, Empty
    <3> QED BY <2>1, <3>1 DEF Logged, Explains
  <2> QED BY <2>3, <2>4, <2>5, <2>6
<1> QED BY <1>1, CallInvariant, PTL

\* A conflict is retried and never reported as the tool's failure (the re-raise
\* in _tools_call, and service.model.retrying).
THEOREM ConflictsAreRetried == Spec => []ConflictIsNoFailure
<1>1. CallInv => ConflictIsNoFailure
  BY CallAt DEF Tidy, AnswersWell, ConflictIsNoFailure
<1> QED BY <1>1, CallInvariant, PTL

\* Who may not call a tool does not learn its arguments (the order of the gates
\* of _tools_call).
THEOREM DeniedLearnNothing == Spec => []ArgumentsStayHidden
<1>1. CallInv => ArgumentsStayHidden
  BY CallAt DEF Tidy, AnswersWell, ArgumentsStayHidden
<1> QED BY <1>1, CallInvariant, PTL

-----------------------------------------------------------------------------
(***************************************************************************)
(* The refinement of AtomicCalls.                                          *)
(***************************************************************************)
Asked == [c \in Callers |-> calls[c].asks.writes]
Outcomes == [c \in Callers |-> Outcome(calls[c])]

\* The mapping changes where one call changes.
LEMMA OneCallMapped ==
  ASSUME Types, NEW c \in Callers, NEW x \in CallType,
         calls' = [calls EXCEPT ![c] = x]
  PROVE  /\ Asked' = [Asked EXCEPT ![c] = x.asks.writes]
         /\ Outcomes' = [Outcomes EXCEPT ![c] = Outcome(x)]
<1>1. calls'[c] = x /\ \A d \in Callers \ {c} : calls'[d] = calls[d]
  BY DEF Types
<1>2. Asked' = [Asked EXCEPT ![c] = x.asks.writes]
  <2>1. \A d \in Callers : calls'[d].asks.writes = IF d = c THEN x.asks.writes
                                                          ELSE calls[d].asks.writes
    BY <1>1
  <2>2. Asked' = [d \in Callers |-> calls'[d].asks.writes]
    BY DEF Asked
  <2> QED BY ONLY <2>1, <2>2, c \in Callers DEF Asked
<1>3. Outcomes' = [Outcomes EXCEPT ![c] = Outcome(x)]
  <2>1. \A d \in Callers : Outcome(calls'[d]) = IF d = c THEN Outcome(x)
                                                       ELSE Outcome(calls[d])
    BY <1>1
  <2>2. Outcomes' = [d \in Callers |-> Outcome(calls'[d])]
    BY DEF Outcomes
  <2> QED BY ONLY <2>1, <2>2, c \in Callers DEF Outcomes
<1> QED BY <1>2, <1>3

\* A step that leaves the request of the call, its outcome and the data alone
\* is none of AtomicCalls.
LEMMA Stutters ==
  ASSUME Types, NEW c \in Callers, NEW x \in CallType,
         calls' = [calls EXCEPT ![c] = x], rows' = rows,
         x.asks = calls[c].asks, Outcome(x) = Outcome(calls[c])
  PROVE  UNCHANGED <<rows, Asked, Outcomes>>
<1>1. calls'[c] = x /\ \A d \in Callers \ {c} : calls'[d] = calls[d]
  BY DEF Types
<1>2. \A d \in Callers : /\ calls'[d].asks.writes = calls[d].asks.writes
                         /\ Outcome(calls'[d]) = Outcome(calls[d])
  BY <1>1
<1>3. Asked' = Asked
  BY ONLY <1>2 DEF Asked
<1>4. Outcomes' = Outcomes
  BY ONLY <1>2 DEF Outcomes
<1> QED BY <1>3, <1>4

\* Before any request, nothing is asked and nothing done.
LEMMA InitAtomic == Init => Atomic!AtomicInit
<1> SUFFICES ASSUME Init PROVE Atomic!AtomicInit
  OBVIOUS
<1>1. \A c \in Callers : calls[c] = Idle
  BY DEF Init
<1>2. \A c \in Callers : calls[c].asks.writes = {} /\ Outcome(calls[c]) = "none"
  BY <1>1 DEF Idle, NoRequest, Outcome
<1>3. rows = [r \in Records |-> {}]
  BY DEF Init
<1> QED BY ONLY <1>2, <1>3 DEF Atomic!AtomicInit

\* A new request is an Ask.
LEMMA ReceiveAsks ==
  ASSUME CallInv, NEW c \in Callers, Receive(c)
  PROVE  \E S \in SUBSET Records : Atomic!Ask(c, S)
<1> PICK q \in Requests : Receive(c)!(q)
  BY DEF Receive
<1> DEFINE x == Started(q, 1)
<1>1. calls[c].phase = "idle" /\ calls' = [calls EXCEPT ![c] = x] /\ rows' = rows
  OBVIOUS
<1>2. x \in CallType /\ x.phase = "screen" /\ x.asks = q
  BY <1>1, CallAt, StartedCall, Limits
<1> HIDE DEF x
<1>3. Outcome(calls[c]) = "none" /\ Outcome(x) = "open"
  BY <1>1, <1>2 DEF Outcome
<1>4. q.writes \in SUBSET Records
  BY RequestsAreRequests DEF RequestType
<1>5. /\ Asked' = [Asked EXCEPT ![c] = q.writes]
      /\ Outcomes' = [Outcomes EXCEPT ![c] = "open"]
      /\ Outcomes[c] = "none" /\ rows' = rows
  <2>1. /\ Asked' = [Asked EXCEPT ![c] = x.asks.writes]
        /\ Outcomes' = [Outcomes EXCEPT ![c] = Outcome(x)]
    BY <1>1, <1>2, CallAt, OneCallMapped
  <2>2. Outcomes[c] = Outcome(calls[c])
    BY DEF Outcomes
  <2> QED BY <1>1, <1>2, <1>3, <2>1, <2>2
<1>6. Atomic!Ask(c, q.writes)
  BY <1>5 DEF Atomic!Ask, Asked, Outcomes
<1> QED BY <1>4, <1>6

\* The commit of a successful call is its Perform, that of any other a Refuse.
LEMMA CommitPerformsOrRefuses ==
  ASSUME CallInv, NEW c \in Callers, Commit(c)
  PROVE  Atomic!Perform(c) \/ Atomic!Refuse(c)
<1> DEFINE x == [calls[c] EXCEPT !.phase = "over", !.wrote = {}, !.row = FALSE]
<1>1. calls[c].phase = "commit" /\ calls[c] \in CallType /\ Types
  BY CallAt DEF Commit
<1>2. calls' = [calls EXCEPT ![c] = x]
  BY <1>1 DEF Commit, Types
<1>3. /\ x \in CallType /\ x.phase = "over" /\ x.asks = calls[c].asks
      /\ x.answer = calls[c].answer
  BY <1>1 DEF CallType
<1> HIDE DEF x
<1>4. /\ calls[c].answer \notin {"none", "lost"}
      /\ calls[c].wrote = IF calls[c].answer = "ok" THEN calls[c].asks.writes ELSE {}
  BY <1>1, CallAt DEF Tidy, InCommit
<1>5. /\ Outcome(calls[c]) = "open"
      /\ Outcome(x) = IF calls[c].answer = "ok" THEN "success" ELSE "refused"
  BY <1>1, <1>3, <1>4 DEF Outcome
<1>6. /\ Asked[c] = calls[c].asks.writes /\ Outcomes[c] = "open"
      /\ Asked' = [Asked EXCEPT ![c] = Asked[c]]
      /\ Outcomes' = [Outcomes EXCEPT ![c] = Outcome(x)]
  BY <1>1, <1>2, <1>3, <1>5, OneCallMapped DEF Asked, Outcomes
<1>7. Asked' = Asked
  <2>1. Asked = [d \in Callers |-> Asked[d]]
    BY DEF Asked
  <2> QED BY ONLY <1>6, <2>1
<1>8. rows' = [r \in Records |-> IF r \in calls[c].wrote THEN rows[r] \cup {c} ELSE rows[r]]
  BY CommitWrites
<1>9. CASE calls[c].answer = "ok"
  <2>1. rows' = [r \in Records |-> IF r \in Asked[c] THEN rows[r] \cup {c} ELSE rows[r]]
    BY <1>4, <1>6, <1>8, <1>9
  <2>2. Outcomes' = [Outcomes EXCEPT ![c] = "success"]
    BY <1>5, <1>6, <1>9
  <2>3. Atomic!Perform(c)
    BY <1>6, <1>7, <2>1, <2>2 DEF Atomic!Perform, Asked, Outcomes
  <2> QED BY <2>3
<1>10. CASE calls[c].answer # "ok"
  <2>1. rows' = rows
    BY <1>1, <1>4, <1>8, <1>10 DEF Types
  <2>2. Outcomes' = [Outcomes EXCEPT ![c] = "refused"]
    BY <1>5, <1>6, <1>10
  <2>3. Atomic!Refuse(c)
    BY <1>6, <1>7, <2>1, <2>2 DEF Atomic!Refuse, Asked, Outcomes
  <2> QED BY <2>3
<1> QED BY <1>9, <1>10

\* The death of the process is a Lose.
LEMMA CrashLoses == CallInv /\ Crash => Atomic!Lose
<1> SUFFICES ASSUME CallInv, Crash PROVE Atomic!Lose
  OBVIOUS
<1>1. ASSUME NEW c \in Callers
      PROVE  /\ calls'[c].asks.writes = calls[c].asks.writes
             /\ Outcome(calls'[c]) = IF Outcome(calls[c]) = "open" THEN "lost"
                                                                ELSE Outcome(calls[c])
  <2>1. calls[c] \in CallType
    BY CallAt
  <2>2. CASE calls[c].phase \in {"idle", "over"}
    <3>1. calls'[c] = calls[c]
      BY <2>2 DEF Crash
    <3>2. Outcome(calls[c]) # "open"
      BY <2>2 DEF Outcome
    <3> QED BY <3>1, <3>2
  <2>3. CASE calls[c].phase \notin {"idle", "over"}
    <3> DEFINE x == [calls[c] EXCEPT !.phase = "over", !.wrote = {}, !.row = FALSE,
                                     !.answer = "lost"]
    <3>1. calls'[c] = x
      BY <2>3 DEF Crash
    <3>2. x.phase = "over" /\ x.answer = "lost" /\ x.asks = calls[c].asks
      BY <2>1 DEF CallType
    <3> HIDE DEF x
    <3>3. Outcome(calls[c]) = "open" /\ Outcome(x) = "lost"
      BY <2>1, <2>3, <3>2 DEF Outcome, CallType
    <3> QED BY <3>1, <3>2, <3>3
  <2> QED BY <2>2, <2>3
<1>2. Asked' = Asked
  BY ONLY <1>1 DEF Asked
<1>3. Outcomes' = [c \in Callers |-> IF Outcomes[c] = "open" THEN "lost" ELSE Outcomes[c]]
  BY ONLY <1>1 DEF Outcomes
<1>4. rows' = rows
  BY DEF Crash
<1> QED BY <1>2, <1>3, <1>4 DEF Atomic!Lose, Asked, Outcomes

\* So is one that leaves an open call open.
LEMMA StaysOpen ==
  ASSUME Types, NEW c \in Callers, NEW x \in CallType,
         calls' = [calls EXCEPT ![c] = x], rows' = rows, x.asks = calls[c].asks,
         calls[c].phase \in {"screen", "tool"}, x.phase \in {"screen", "tool", "commit"}
  PROVE  UNCHANGED <<rows, Asked, Outcomes>>
<1>1. Outcome(x) = "open" /\ Outcome(calls[c]) = "open"
  BY DEF Outcome
<1> QED BY <1>1, Stutters

\* An answer is not yet the end of a call: it may still be lost.
LEMMA AnsweredStutters ==
  ASSUME CallInv, NEW c \in Callers, calls[c].phase \in {"screen", "tool"},
         rows' = rows, NEW a \in Answers,
         \/ Answer(c, a)
         \/ \E kind \in Kinds : AnswerAudited(c, a, kind)
  PROVE  UNCHANGED <<rows, Asked, Outcomes>>
<1>1. Types
  BY CallAt
<1>2. /\ calls'[c] \in CallType /\ calls' = [calls EXCEPT ![c] = calls'[c]]
      /\ calls'[c].phase = "commit" /\ calls'[c].asks = calls[c].asks
  <2>1. CASE Answer(c, a)
    BY <1>1, <2>1, AnswerFields
  <2>2. CASE \E kind \in Kinds : AnswerAudited(c, a, kind)
    <3>1. PICK lost \in BOOLEAN :
            calls' = [calls EXCEPT ![c].phase = "commit", ![c].answer = a,
                                   ![c].dropped = lost]
      BY <2>2 DEF AnswerAudited
    <3> QED BY <1>1, <3>1, AnswerAuditedFields
  <2> QED BY <2>1, <2>2
<1> QED BY <1>1, <1>2, StaysOpen

\* The gates do nothing but answer.
LEMMA GatesStutter ==
  ASSUME CallInv, NEW c \in Callers,
         Disabled(c) \/ Malformed(c) \/ OverLimit(c) \/ Plain(c) \/ Gated(c)
  PROVE  UNCHANGED <<rows, Asked, Outcomes>>
<1>1. CASE Disabled(c)
  BY <1>1, AnsweredStutters DEF Disabled, Answers, Refusals
<1>2. CASE Malformed(c)
  BY <1>2, AnsweredStutters DEF Malformed, Answers, Refusals
<1>3. CASE OverLimit(c)
  <2>1. /\ calls[c].phase = "screen" /\ rows' = rows
        /\ Answer(c, "limited") \/ AnswerAudited(c, "limited", "rate_limit")
    BY <1>3 DEF OverLimit
  <2> QED BY <2>1, AnsweredStutters DEF Answers, Refusals, Kinds
<1>4. CASE Plain(c)
  <2>1. /\ calls[c].phase = "screen" /\ rows' = rows
        /\ Answer(c, "ok") \/ Answer(c, "method not found")
    BY <1>4 DEF Plain, Admitted
  <2>2. "ok" \in Answers /\ "method not found" \in Answers
    BY DEF Answers, Refusals
  <2>3. CASE Answer(c, "ok")
    BY <2>1, <2>2, <2>3, AnsweredStutters
  <2>4. CASE Answer(c, "method not found")
    BY <2>1, <2>2, <2>4, AnsweredStutters
  <2> QED BY <2>1, <2>3, <2>4
<1>5. CASE Gated(c)
  <2>1. Gate(calls[c].asks) \in Answers
    <3>1. Gate(calls[c].asks) \in {"invalid", "not an object", "denied", "incomplete", "run"}
      BY DEF Gate
    <3>2. Gate(calls[c].asks) # "run"
      BY <1>5 DEF Gated
    <3> QED BY <3>1, <3>2 DEF Answers, Refusals
  <2>2. /\ calls[c].phase = "screen" /\ rows' = rows
        /\ \E kind \in Kinds : AnswerAudited(c, Gate(calls[c].asks), kind)
    BY <1>5 DEF Gated, Admitted, Kinds
  <2> QED BY <2>1, <2>2, AnsweredStutters
<1> QED BY <1>1, <1>2, <1>3, <1>4, <1>5

\* Nothing a tool does before the commit is visible, however it ends.
LEMMA ToolStutters ==
  ASSUME CallInv, NEW c \in Callers,
         \/ Enter(c) \/ ToolSucceeds(c) \/ ToolFails(c)
         \/ \E r \in Records : Write(c, r)
  PROVE  UNCHANGED <<rows, Asked, Outcomes>>
<1>0. Types /\ calls[c] \in CallType /\ calls \in [Callers -> CallType]
  BY CallAt DEF Types
<1>1. CASE Enter(c)
  <2> DEFINE x == [calls[c] EXCEPT !.phase = "tool"]
  <2>1. calls' = [calls EXCEPT ![c] = x] /\ calls[c].phase = "screen" /\ rows' = rows
    BY <1>0, <1>1 DEF Enter, Admitted
  <2>2. x \in CallType /\ x.phase = "tool" /\ x.asks = calls[c].asks
    BY <1>0 DEF CallType
  <2> HIDE DEF x
  <2> QED BY <1>0, <2>1, <2>2, StaysOpen
<1>2. CASE ToolSucceeds(c)
  <2>1. PICK kept \in BOOLEAN : ToolSucceeds(c)!(kept)
    BY <1>2 DEF ToolSucceeds
  <2> DEFINE x == [calls[c] EXCEPT !.phase = "commit", !.answer = "ok",
                                   !.row = kept, !.dropped = ~kept]
  <2>2. calls' = [calls EXCEPT ![c] = x] /\ calls[c].phase = "tool" /\ rows' = rows
    BY <1>0, <2>1
  <2>3. x \in CallType /\ x.phase = "commit" /\ x.asks = calls[c].asks
    BY <1>0 DEF CallType, Answers
  <2> HIDE DEF x
  <2> QED BY <1>0, <2>2, <2>3, StaysOpen
<1>3. CASE ToolFails(c)
  <2> DEFINE a == IF calls[c].asks.ends = "denied" THEN "denied" ELSE "failed"
  <2>1. PICK lost \in BOOLEAN :
          calls' = [calls EXCEPT ![c].phase = "commit", ![c].wrote = {},
                                 ![c].answer = a, ![c].dropped = lost]
    BY <1>3 DEF ToolFails
  <2>2. a \in Answers
    BY DEF Answers, Refusals
  <2> HIDE DEF a
  <2> DEFINE x == [calls[c] EXCEPT !.phase = "commit", !.wrote = {}, !.answer = a,
                                   !.dropped = lost]
  <2>3. calls' = [calls EXCEPT ![c] = x] /\ calls[c].phase = "tool" /\ rows' = rows
    BY <1>0, <1>3, <2>1 DEF ToolFails
  <2>4. x \in CallType /\ x.phase = "commit" /\ x.asks = calls[c].asks
    BY <1>0, <2>2 DEF CallType
  <2> HIDE DEF x
  <2> QED BY <1>0, <2>3, <2>4, StaysOpen
<1>4. CASE \E r \in Records : Write(c, r)
  <2>1. PICK r \in Records : Write(c, r)
    BY <1>4
  <2> DEFINE x == [calls[c] EXCEPT !.wrote = calls[c].wrote \cup {r}]
  <2>2. calls' = [calls EXCEPT ![c] = x] /\ calls[c].phase = "tool" /\ rows' = rows
    BY <1>0, <2>1 DEF Write
  <2>3. x \in CallType /\ x.phase = "tool" /\ x.asks = calls[c].asks
    BY <1>0, <2>2 DEF CallType
  <2> HIDE DEF x
  <2> QED BY <1>0, <2>2, <2>3, StaysOpen
<1> QED BY <1>1, <1>2, <1>3, <1>4

\* A rerun is invisible; when the runs are used up the call is refused.
LEMMA ConflictRefusesOrStutters ==
  ASSUME CallInv, NEW c \in Callers, Conflict(c)
  PROVE  Atomic!Refuse(c) \/ UNCHANGED <<rows, Asked, Outcomes>>
<1>1. /\ calls[c].phase = "tool" /\ rows' = rows /\ Empty(log[c])
      /\ calls[c] \in CallType /\ calls \in [Callers -> CallType] /\ Types
      /\ calls[c].asks \in Requests /\ calls[c].try \in 1..MaxTries
  BY CallAt, Limits
     DEF Conflict, Retried, OperationalError, Deadlocked, Waits, Types, CallType, Tidy
<1>2. CASE calls[c].try < MaxTries
  <2> DEFINE x == Started(calls[c].asks, calls[c].try + 1)
  <2>1. calls' = [calls EXCEPT ![c] = x]
    BY <1>2 DEF Conflict, Retried
  <2>2. calls[c].try + 1 \in 1..MaxTries
    BY <1>1, <1>2, Limits
  <2>3. x \in CallType /\ x.phase = "screen" /\ x.asks = calls[c].asks
    BY <1>1, <2>2, StartedCall
  <2> HIDE DEF x
  <2> QED BY <1>1, <2>1, <2>3, StaysOpen
<1>3. CASE ~(calls[c].try < MaxTries)
  <2> DEFINE x == [calls[c] EXCEPT !.phase = "over", !.wrote = {}, !.row = FALSE,
                                   !.answer = "gave up"]
  <2>1. calls' = [calls EXCEPT ![c] = x]
    BY <1>3 DEF Conflict, Retried
  <2>2. /\ x \in CallType /\ x.phase = "over" /\ x.answer = "gave up"
        /\ x.asks = calls[c].asks
    BY <1>1 DEF CallType, Answers, Refusals
  <2> HIDE DEF x
  <2>3. Outcome(calls[c]) = "open" /\ Outcome(x) = "refused"
    BY <1>1, <2>2 DEF Outcome
  <2>4. /\ Asked' = [Asked EXCEPT ![c] = x.asks.writes]
        /\ Outcomes' = [Outcomes EXCEPT ![c] = Outcome(x)]
    BY <1>1, <2>1, <2>2, OneCallMapped
  <2>5. Asked[c] = x.asks.writes /\ Outcomes[c] = "open"
    BY <2>2, <2>3 DEF Asked, Outcomes
  <2>6. Asked' = Asked
    <3>1. Asked = [d \in Callers |-> Asked[d]]
      BY DEF Asked
    <3> QED BY ONLY <2>4, <2>5, <3>1
  <2>7. Outcomes' = [Outcomes EXCEPT ![c] = "refused"]
    BY <2>3, <2>4
  <2> QED BY <1>1, <2>5, <2>6, <2>7 DEF Atomic!Refuse, Asked, Outcomes
<1> QED BY <1>2, <1>3

\* Every step is one of AtomicCalls', or invisible.
LEMMA NextAtomic == CallInv /\ [Next]_vars => [Atomic!AtomicNext]_Atomic!atomicVars
<1> SUFFICES ASSUME CallInv, [Next]_vars
             PROVE  Atomic!AtomicNext \/ UNCHANGED <<rows, Asked, Outcomes>>
  BY DEF Atomic!atomicVars, Asked, Outcomes
<1>1. ASSUME NEW c \in Callers, Receive(c) PROVE Atomic!AtomicNext
  BY <1>1, ReceiveAsks DEF Atomic!AtomicNext
<1>2. ASSUME NEW c \in Callers, Handle(c)
      PROVE  Atomic!AtomicNext \/ UNCHANGED <<rows, Asked, Outcomes>>
  <2>1. CASE Disabled(c) \/ Malformed(c) \/ OverLimit(c) \/ Plain(c) \/ Gated(c)
    BY <2>1, GatesStutter
  <2>2. CASE \/ Enter(c) \/ ToolSucceeds(c) \/ ToolFails(c)
             \/ \E r \in Records : Write(c, r)
    BY <2>2, ToolStutters
  <2>3. CASE Conflict(c)
    BY <2>3, ConflictRefusesOrStutters DEF Atomic!AtomicNext
  <2>4. CASE Commit(c)
    BY <2>4, CommitPerformsOrRefuses DEF Atomic!AtomicNext
  <2> QED BY <1>2, <2>1, <2>2, <2>3, <2>4 DEF Handle
<1>3. CASE Crash
  BY <1>3, CrashLoses DEF Atomic!AtomicNext
<1>4. CASE WindowMoves \/ Switch \/ UNCHANGED vars
  <2>1. calls' = calls /\ rows' = rows
    BY <1>4 DEF WindowMoves, Switch, vars
  <2> QED BY <2>1 DEF Asked, Outcomes
<1> QED BY <1>1, <1>2, <1>3, <1>4 DEF Next

\* Through savepoints, row locks, reruns and crashes, a call happens as a whole,
\* once and at one instant, or not at all, and its answer says which.
THEOREM CallsImplementAtomic == Spec => CallsAreAtomic
<1>1. Init => Atomic!AtomicInit
  BY InitAtomic
<1>2. CallInv /\ [Next]_vars => [Atomic!AtomicNext]_Atomic!atomicVars
  BY NextAtomic
<1> QED BY <1>1, <1>2, CallInvariant, PTL DEF Spec, CallsAreAtomic, Atomic!AtomicSpec
=============================================================================
