------------------------------ MODULE McpCall ------------------------------
(***************************************************************************)
(* One process serving POST /mcp: the gates of handle_rpc and tools/call   *)
(* in their order, the tool in its savepoint, the audit rows on the        *)
(* request's cursor and on cursors of their own, the framework's commit,   *)
(* and its rerun of the whole handler after a concurrency error.           *)
(*                                                                         *)
(* Business data is a set of records, and a record's value is the set of   *)
(* calls whose writes went into it, so that a lost, doubled or partial     *)
(* write shows.  A tool reads a record in its snapshot and writes it back  *)
(* with its own name added.  Requests run in REPEATABLE READ transactions: *)
(* a write waits for a row another call has written, and fails if the row  *)
(* has changed since the snapshot.                                         *)
(*                                                                         *)
(* The limiters' windows are counters that go down by themselves; that     *)
(* their check and their record are two steps is the subject of            *)
(* SlidingWindow.  A definition with a suffix, as in Gate_ArgsFirst, is a  *)
(* plausible slip of the one it precedes and is not used here.             *)
(***************************************************************************)
EXTENDS Integers, FiniteSets

CONSTANTS
  Callers,    \* requests in flight, one thread each
  Records,    \* business records
  Requests,   \* what a client may send, and what becomes of the tool it names
  Nobody,     \* the owner of a row that nobody has written
  Cap,        \* requests a user has per window; 0: not limited
  AuditMax,   \* audit rows an address has per window on cursors of their own
  MaxTries    \* service.model.retrying: runs of one request

\* A request: its method; the tool it names; whether its arguments are an
\* object and hold the required ones; whether the caller may run a custom
\* tool; whether the tool is marked read-only and the session may write; the
\* records the tool writes, and how it ends if nothing comes between.  For
\* resources/read the name is that of the resource; reading writes nothing.
RequestType ==
  [method : {"malformed", "ping", "list", "unknown", "resources/read", "tools/call"},
   name : {"unusable", "unknown", "builtin", "custom"},
   object : BOOLEAN, complete : BOOLEAN, mayRun : BOOLEAN,
   readOnlyTool : BOOLEAN, writeAllowed : BOOLEAN,
   writes : SUBSET Records, ends : {"well", "denied", "badly"}]

ASSUME RequestsAreRequests ==
  /\ Requests \subseteq RequestType
  /\ \A q \in Requests :
       /\ q.method = "resources/read" => q.object /\ q.complete
       /\ q.method # "tools/call" => q.writes = {}
ASSUME LimitsAreLimits == {Cap, AuditMax} \subseteq Nat /\ MaxTries \in Nat \ {0}
ASSUME NobodyIsNoCaller == Nobody \notin Callers

VARIABLES
  enabled,      \* the global switch, mcp_server.enabled
  rows,         \* committed business data
  owner,        \* who holds a row's lock
  calls,        \* the call of each caller
  log,          \* committed mcp.log rows: how many of each kind, per call
  hits,         \* requests counted in the user's window
  audits,       \* rows counted in the address's window
  limitAudited  \* a rate_limit row was written in this window

shared == <<enabled, hits, audits, limitAudited>>
vars == <<enabled, rows, owner, calls, log, hits, audits, limitAudited>>

Kinds == {"model_access", "E400", "E500", "permission_denied", "rate_limit"}
Refusals == {"disabled", "invalid request", "method not found", "limited",
             "invalid", "not an object", "denied", "incomplete", "failed",
             "gave up"}
Answers == {"none", "ok", "lost"} \cup Refusals

NoRequest == [writes |-> {}]

\* A call: where it is, what it asks, which run this is, its snapshot, the
\* rows it wrote, whether its success row waits for the commit, its answer,
\* and (history) whether an audit row of its was dropped.
Idle == [phase |-> "idle", asks |-> NoRequest, try |-> 0,
         seen |-> [r \in Records |-> {}], wrote |-> {}, row |-> FALSE,
         answer |-> "none", dropped |-> FALSE]

TypeOK ==
  /\ enabled \in BOOLEAN /\ limitAudited \in BOOLEAN
  /\ rows \in [Records -> SUBSET Callers]
  /\ owner \in [Records -> Callers \cup {Nobody}]
  /\ DOMAIN calls = Callers
  /\ \A c \in Callers : calls[c] = Idle \/
       /\ calls[c].phase \in {"screen", "tool", "commit", "over"}
       /\ calls[c].asks \in Requests
       /\ calls[c].try \in 1..MaxTries
       /\ calls[c].wrote \subseteq calls[c].asks.writes
       /\ \A r \in Records : owner[r] = c <=> r \in calls[c].wrote
       /\ calls[c].answer \in Answers
  /\ log \in [Callers -> [Kinds -> Nat]]
  /\ hits \in Nat /\ (Cap > 0 => hits <= Cap)
  /\ audits \in 0..AuditMax
-----------------------------------------------------------------------------
\* tools/call and resources/read: the first gate the request fails, or "run".
Unattributable(q) == q.name \in {"unusable", "unknown"}

RequiresWrite(q) == ~q.readOnlyTool

Denied(q) ==
  /\ q.method = "tools/call"
  /\ \/ q.name = "custom" /\ ~q.mayRun
     \/ RequiresWrite(q) /\ ~q.writeAllowed

Gate_ArgsFirst(q) ==
  IF Unattributable(q) THEN "invalid"
  ELSE IF ~q.object THEN "not an object"
  ELSE IF ~q.complete THEN "incomplete"
  ELSE IF Denied(q) THEN "denied"
  ELSE "run"

Gate(q) ==
  IF Unattributable(q) THEN "invalid"
  ELSE IF ~q.object THEN "not an object"
  ELSE IF Denied(q) THEN "denied"
  ELSE IF ~q.complete THEN "incomplete"
  ELSE "run"

Audits(q) == q.method \in {"tools/call", "resources/read"}

Counts(q) == q.method # "ping"

Limited == Cap > 0 /\ hits >= Cap

\* An audit row on a cursor of its own: it is written unless the address has
\* used up its window, in which nothing is counted, or the write itself fails.
AuditOpen_AtMax == audits <= AuditMax

AuditOpen == audits < AuditMax

Audited(c, kind, written) ==
  /\ written => AuditOpen
  /\ log' = IF written THEN [log EXCEPT ![c][kind] = @ + 1] ELSE log
  /\ audits' = IF AuditOpen THEN audits + 1 ELSE audits

\* Rolling back, to the savepoint or altogether, frees the rows c wrote.
Released(c) == [r \in Records |-> IF owner[r] = c THEN Nobody ELSE owner[r]]

\* A call that got as far as the gates and was refused there.
Answer(c, answer) ==
  calls' = [calls EXCEPT ![c].phase = "commit", ![c].answer = answer]

AnswerAudited(c, answer, kind) ==
  \E written \in BOOLEAN :
    /\ Audited(c, kind, written)
    /\ calls' = [calls EXCEPT ![c].phase = "commit", ![c].answer = answer,
                              ![c].dropped = ~written]

\* A run of the handler begins: it takes its snapshot while authenticating.
Started(q, try) ==
  [Idle EXCEPT !.phase = "screen", !.asks = q, !.try = try, !.seen = rows]

\* service.model.retrying: roll back and run the handler again, or give up.
Retried(c) ==
  /\ calls' = [calls EXCEPT ![c] =
       IF @.try < MaxTries THEN Started(@.asks, @.try + 1)
       ELSE [@ EXCEPT !.phase = "over", !.wrote = {}, !.row = FALSE,
                      !.answer = "gave up"]]
  /\ owner' = Released(c)
  /\ UNCHANGED <<rows, log>> /\ UNCHANGED shared
-----------------------------------------------------------------------------
Init ==
  /\ enabled \in BOOLEAN
  /\ rows = [r \in Records |-> {}]
  /\ owner = [r \in Records |-> Nobody]
  /\ calls = [c \in Callers |-> Idle]
  /\ log = [c \in Callers |-> [k \in Kinds |-> 0]]
  /\ hits = 0 /\ audits = 0 /\ limitAudited = FALSE

Receive(c) ==
  \E q \in Requests :
    /\ calls[c].phase = "idle"
    /\ calls' = [calls EXCEPT ![c] = Started(q, 1)]
    /\ UNCHANGED <<rows, owner, log>> /\ UNCHANGED shared

\* handle_rpc: the switch first, then the envelope, then the limiter.
Disabled(c) ==
  /\ calls[c].phase = "screen"
  /\ ~enabled
  /\ Answer(c, "disabled")
  /\ UNCHANGED <<rows, owner, log>> /\ UNCHANGED shared

Malformed(c) ==
  /\ calls[c].phase = "screen"
  /\ enabled
  /\ calls[c].asks.method = "malformed"
  /\ Answer(c, "invalid request")
  /\ UNCHANGED <<rows, owner, log>> /\ UNCHANGED shared

\* A parsed request the limiter lets through, and what it counts for it.
Admitted(c) ==
  /\ calls[c].phase = "screen"
  /\ enabled
  /\ calls[c].asks.method # "malformed"
  /\ Counts(calls[c].asks) => ~Limited
  /\ hits' = IF Counts(calls[c].asks) /\ Cap > 0 THEN hits + 1 ELSE hits
  /\ UNCHANGED <<enabled, limitAudited>>

\* 429: one rate_limit row per window, and the request is not counted.
OverLimit(c) ==
  /\ calls[c].phase = "screen"
  /\ enabled
  /\ calls[c].asks.method # "malformed"
  /\ Counts(calls[c].asks) /\ Limited
  /\ limitAudited' = TRUE
  /\ \/ limitAudited /\ Answer(c, "limited") /\ UNCHANGED <<log, audits>>
     \/ ~limitAudited /\ AnswerAudited(c, "limited", "rate_limit")
  /\ UNCHANGED <<enabled, rows, owner, hits>>

\* A method without side effects, or none that is known.
Plain(c) ==
  /\ Admitted(c)
  /\ \/ calls[c].asks.method \in {"ping", "list"} /\ Answer(c, "ok")
     \/ calls[c].asks.method = "unknown" /\ Answer(c, "method not found")
  /\ UNCHANGED <<rows, owner, log, audits>>

\* A gate refuses the call: a denial is logged as one, anything else as E400.
Gated(c) ==
  /\ Admitted(c)
  /\ Audits(calls[c].asks)
  /\ Gate(calls[c].asks) # "run"
  /\ AnswerAudited(c, Gate(calls[c].asks),
       IF Gate(calls[c].asks) = "denied" THEN "permission_denied" ELSE "E400")
  /\ UNCHANGED <<rows, owner>>

\* The gates are passed and the savepoint is opened.
Enter(c) ==
  /\ Admitted(c)
  /\ Audits(calls[c].asks)
  /\ Gate(calls[c].asks) = "run"
  /\ calls' = [calls EXCEPT ![c].phase = "tool"]
  /\ UNCHANGED <<rows, owner, log, audits>>
-----------------------------------------------------------------------------
\* The rows the tool has yet to write, in whatever order it does.
Missing(c) == calls[c].asks.writes \ calls[c].wrote

Write(c, r) ==
  /\ calls[c].phase = "tool"
  /\ r \in Missing(c)
  /\ owner[r] = Nobody
  /\ rows[r] = calls[c].seen[r]
  /\ owner' = [owner EXCEPT ![r] = c]
  /\ calls' = [calls EXCEPT ![c].wrote = @ \cup {r}]
  /\ UNCHANGED <<rows, log>> /\ UNCHANGED shared

\* Callers that wait for each other in a circle: the database ends one of them.
Waits(c) ==
  calls[c].phase = "tool" /\ \E r \in Missing(c) : owner[r] # Nobody

Deadlocked(c) ==
  /\ Waits(c)
  /\ \A r \in Missing(c) : owner[r] # Nobody /\ Waits(owner[r])

\* The row has changed since the snapshot, or the wait is hopeless.
OperationalError(c) ==
  \/ /\ calls[c].phase = "tool"
     /\ \E r \in Missing(c) : owner[r] = Nobody /\ rows[r] # calls[c].seen[r]
  \/ Deadlocked(c)

\* tools/call re-raises it, without an audit row.
Conflict_Swallowed(c) ==
  /\ OperationalError(c)
  /\ AnswerAudited(c, "failed", "E500")
  /\ owner' = Released(c)
  /\ UNCHANGED <<enabled, rows, hits, limitAudited>>

Conflict(c) ==
  /\ OperationalError(c)
  /\ Retried(c)

\* The tool ends well.  Its success row waits for the commit, unless the insert
\* fails, in a savepoint of its own.
ToolSucceeds_OwnCursor(c) ==
  /\ calls[c].phase = "tool"
  /\ calls[c].asks.ends = "well"
  /\ Missing(c) = {}
  /\ AnswerAudited(c, "ok", "model_access")
  /\ UNCHANGED <<enabled, rows, owner, hits, limitAudited>>

ToolSucceeds(c) ==
  \E kept \in BOOLEAN :
    /\ calls[c].phase = "tool"
    /\ calls[c].asks.ends = "well"
    /\ Missing(c) = {}
    /\ calls' = [calls EXCEPT ![c].phase = "commit", ![c].answer = "ok",
                              ![c].row = kept, ![c].dropped = ~kept]
    /\ UNCHANGED <<rows, owner, log>> /\ UNCHANGED shared

\* It raises, at any point, or returns what is no result: back to the savepoint.
ToolFails_NoSavepoint(c) ==
  /\ calls[c].phase = "tool"
  /\ calls[c].asks.ends # "well"
  /\ IF calls[c].asks.ends = "denied"
     THEN AnswerAudited(c, "denied", "permission_denied")
     ELSE AnswerAudited(c, "failed", "E500")
  /\ UNCHANGED <<enabled, rows, owner, hits, limitAudited>>

ToolFails(c) ==
  /\ calls[c].phase = "tool"
  /\ calls[c].asks.ends # "well"
  /\ \E written \in BOOLEAN :
       /\ Audited(c, IF calls[c].asks.ends = "denied" THEN "permission_denied"
                                                      ELSE "E500", written)
       /\ calls' = [calls EXCEPT ![c].phase = "commit", ![c].wrote = {},
                      ![c].answer = IF calls[c].asks.ends = "denied"
                                    THEN "denied" ELSE "failed",
                      ![c].dropped = ~written]
  /\ owner' = Released(c)
  /\ UNCHANGED <<enabled, rows, hits, limitAudited>>
-----------------------------------------------------------------------------
\* The handler has returned: the framework commits data and success row at
\* once, and only then is the answer sent.
Commit(c) ==
  /\ calls[c].phase = "commit"
  /\ rows' = [r \in Records |-> IF r \in calls[c].wrote
                                THEN calls[c].seen[r] \cup {c} ELSE rows[r]]
  /\ log' = IF calls[c].row THEN [log EXCEPT ![c]["model_access"] = @ + 1] ELSE log
  /\ calls' = [calls EXCEPT ![c].phase = "over", ![c].wrote = {}, ![c].row = FALSE]
  /\ owner' = Released(c)
  /\ UNCHANGED shared

\* The process dies: open transactions are rolled back, the limiters' memory is
\* gone, and the clients are left without an answer.
Crash ==
  /\ calls' = [c \in Callers |->
       IF calls[c].phase \in {"idle", "over"} THEN calls[c]
       ELSE [calls[c] EXCEPT !.phase = "over", !.wrote = {}, !.row = FALSE,
                             !.answer = "lost"]]
  /\ owner' = [r \in Records |-> Nobody]
  /\ hits' = 0 /\ audits' = 0 /\ limitAudited' = FALSE
  /\ UNCHANGED <<enabled, rows, log>>

\* Requests and rows leave their windows.
WindowMoves ==
  /\ hits' \in 0..hits
  /\ audits' \in 0..audits
  /\ limitAudited' \in {limitAudited, FALSE}
  /\ UNCHANGED <<enabled, rows, owner, calls, log>>

\* The administrator turns the switch.
Switch ==
  /\ enabled' = ~enabled
  /\ UNCHANGED <<rows, owner, calls, log, hits, audits, limitAudited>>

Handle(c) ==
  \/ Disabled(c) \/ Malformed(c) \/ OverLimit(c) \/ Plain(c) \/ Gated(c)
  \/ Enter(c) \/ Conflict(c) \/ ToolSucceeds(c) \/ ToolFails(c)
  \/ Commit(c)
  \/ \E r \in Records : Write(c, r)

Next ==
  \/ \E c \in Callers : Receive(c) \/ Handle(c)
  \/ Crash \/ WindowMoves \/ Switch

Spec == Init /\ [][Next]_vars
-----------------------------------------------------------------------------
(***************************************************************************)
(* Properties.                                                             *)
(***************************************************************************)

\* A call is all or nothing, once, at one instant, and the answer says which:
\* success means its writes, and nobody else's lost, are in the committed data;
\* a refusal, a failure, exhausted retries or a crash mean that none of them is
\* (the savepoint in _tools_call, its re-raise, and service.model.retrying).
Outcome(x) ==
  CASE x.phase = "idle" -> "none"
    [] x.phase \in {"screen", "tool", "commit"} -> "open"
    [] x.phase = "over" /\ x.answer = "ok" -> "success"
    [] x.phase = "over" /\ x.answer = "lost" -> "lost"
    [] OTHER -> "refused"

Atomic == INSTANCE AtomicCalls WITH
            effect <- rows,
            asked <- [c \in Callers |-> calls[c].asks.writes],
            outcome <- [c \in Callers |-> Outcome(calls[c])]

CallsAreAtomic == Atomic!AtomicSpec

\* The audit log tells the truth.  No call has two rows.  A model_access row
\* means that the call was answered with success and its writes are there,
\* even if the process died around it.  Of an audited call that was answered
\* there is a row unless one was dropped, and it says how the call ended (the
\* flags rejected and concurrency_retry, and which cursor each row goes on).
RowsOf(c) == {k \in Kinds : log[c][k] > 0}

Truth(answer) ==
  CASE answer = "ok" -> "model_access"
    [] answer = "denied" -> "permission_denied"
    [] answer = "limited" -> "rate_limit"
    [] answer = "failed" -> "E500"
    [] OTHER -> "E400"

AuditIsTrue ==
  \A c \in Callers :
    /\ \A k \in Kinds, l \in Kinds :
         log[c][k] + (IF k = l THEN 0 ELSE log[c][l]) <= 1
    /\ "model_access" \in RowsOf(c) =>
         /\ calls[c].phase = "over" /\ calls[c].answer = "ok"
         /\ \A r \in calls[c].asks.writes : c \in rows[r]
    /\ calls[c].phase = "over" /\ calls[c].answer # "lost" =>
         RowsOf(c) \subseteq {Truth(calls[c].answer)}
    /\ /\ calls[c].phase = "over" /\ Audits(calls[c].asks)
       /\ calls[c].answer \notin {"disabled", "limited", "gave up", "lost"}
       => RowsOf(c) = {} <=> calls[c].dropped

\* A transient conflict is never shown to the client as a failed tool: whatever
\* the races, a tool is reported failed only if it failed by itself, and a
\* caller told of an internal error had all the runs it was due.
ConflictIsNoFailure ==
  \A c \in Callers :
    /\ calls[c].answer = "failed" => calls[c].asks.ends = "badly"
    /\ calls[c].answer = "gave up" => calls[c].try = MaxTries

\* A caller who may not run the tool, or whose session may only read, is never
\* told which arguments the tool requires (the order of the gates).
ArgumentsStayHidden ==
  \A c \in Callers : calls[c].answer = "incomplete" => ~Denied(calls[c].asks)
=============================================================================
