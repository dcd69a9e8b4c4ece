---------------------------- MODULE LogRetention ----------------------------
(***************************************************************************)
(* The life of the audit log's rows and of the cron job that removes them: *)
(* mcp.log's log_event, cleanup_old_logs and _register_hook.  A cleanup is *)
(* one transaction of many batches, beside which requests log, the         *)
(* administrator changes the retention and the job, and workers load their *)
(* registries.                                                             *)
(***************************************************************************)
EXTENDS Integers, FiniteSets

CONSTANTS
  LogRows,       \* rows there may be
  BatchSize,     \* rows one search returns (1000)
  Workers,       \* worker processes that load a registry
  Jobs,          \* cron records there may be
  Retentions,    \* what log_retention_days is set to; zero or less keeps all
  MaxDay,        \* bound: the last day
  MaxJobEdits    \* bound: edits of the retention and of the job

ASSUME BatchesAreNotEmpty == BatchSize \in Nat \ {0}
ASSUME DaysAreNumbered == Retentions \subseteq Int /\ MaxDay \in Nat

VARIABLES
  day,
  born,        \* [LogRows -> the day a row was logged, Never or Gone]
  logging,     \* mcp_server.enable_logging
  keep,        \* mcp_server.log_retention_days
  sweep,       \* the running cleanup, or NoSweep
  job,         \* [Jobs -> "none", or "active" or "archived" with the name]
  booting,     \* workers whose hook found no job and has yet to create one
  jobEdits

retentionVars == <<day, born, logging, keep, sweep, job, booting, jobEdits>>

Never == -1
Gone == -2
NoSweep == [phase |-> "none"]

Kept(rows) == {r \in LogRows : rows[r] >= 0}

RetentionTypeOK ==
  /\ day \in 0..MaxDay
  /\ born \in [LogRows -> {Never, Gone} \cup 0..MaxDay]
  /\ logging \in BOOLEAN /\ keep \in Retentions
  /\ sweep = NoSweep \/
       /\ sweep.cutoff < day + 1
       /\ sweep.gone \subseteq sweep.seen /\ sweep.seen \subseteq LogRows
  /\ job \in [Jobs -> {"none", "active", "archived"}]
  /\ booting \subseteq Workers
-----------------------------------------------------------------------------
RetentionInit ==
  /\ day = 0
  /\ born = [r \in LogRows |-> Never]
  /\ logging = TRUE
  /\ keep \in Retentions
  /\ sweep = NoSweep
  /\ job = [j \in Jobs |-> "none"]
  /\ booting = {}
  /\ jobEdits = 0

\* log_event: a row of its own, unless logging is off or the cursor is
\* read-only.
LogEvent ==
  /\ logging
  /\ \E r \in {r \in LogRows : born[r] = Never} : born' = [born EXCEPT ![r] = day]
  /\ UNCHANGED <<day, logging, keep, sweep, job, booting, jobEdits>>

NextDay ==
  /\ day < MaxDay
  /\ day' = day + 1
  /\ UNCHANGED <<born, logging, keep, sweep, job, booting, jobEdits>>

\* cleanup_old_logs reads the retention and the clock once.
StartSweep ==
  /\ sweep = NoSweep
  /\ \E j \in Jobs : job[j] = "active"
  /\ keep > 0
  /\ sweep' = [phase |-> "batches", cutoff |-> day - keep, seen |-> Kept(born), gone |-> {}]
  /\ UNCHANGED <<day, born, logging, keep, job, booting, jobEdits>>

Expired == {r \in sweep.seen \ sweep.gone : born[r] < sweep.cutoff}

\* One search and unlink; an empty search ends the loop.
Batches(rows) ==
  IF Cardinality(rows) <= BatchSize THEN {rows}
  ELSE {b \in SUBSET rows : Cardinality(b) = BatchSize}

Ends_ShortBatch == Cardinality(Expired) <= BatchSize

Ends == Expired = {}

SweepBatch ==
  /\ sweep.phase = "batches"
  /\ IF Ends THEN sweep' = [sweep EXCEPT !.phase = "commit"]
     ELSE \E batch \in Batches(Expired) : sweep' = [sweep EXCEPT !.gone = @ \cup batch]
  /\ UNCHANGED <<day, born, logging, keep, job, booting, jobEdits>>

CommitSweep ==
  /\ sweep.phase = "commit"
  /\ born' = [r \in LogRows |-> IF r \in sweep.gone THEN Gone ELSE born[r]]
  /\ sweep' = NoSweep
  /\ UNCHANGED <<day, logging, keep, job, booting, jobEdits>>

\* An error or the death of the cron worker: nothing is removed.
AbortSweep ==
  /\ sweep # NoSweep
  /\ sweep' = NoSweep
  /\ UNCHANGED <<day, born, logging, keep, job, booting, jobEdits>>
-----------------------------------------------------------------------------
\* _register_hook.  The search sees active jobs only; the job it creates
\* is committed when the registry has been loaded.
Found == {j \in Jobs : job[j] = "active"}

BootChecks(w) ==
  /\ w \notin booting
  /\ Found = {}
  /\ booting' = booting \cup {w}
  /\ UNCHANGED <<day, born, logging, keep, sweep, job, jobEdits>>

BootCreates(w) ==
  /\ w \in booting
  /\ booting' = booting \ {w}
  /\ \E j \in Jobs : job[j] = "none" /\ job' = [job EXCEPT ![j] = "active"]
  /\ UNCHANGED <<day, born, logging, keep, sweep, jobEdits>>

\* The administrator switches the job off or on, or edits the settings.
Configure ==
  /\ jobEdits < MaxJobEdits
  /\ jobEdits' = jobEdits + 1
  /\ \/ /\ \E j \in Jobs :
             /\ job[j] # "none"
             /\ job' = [job EXCEPT ![j] = IF @ = "active" THEN "archived" ELSE "active"]
        /\ UNCHANGED <<logging, keep>>
     \/ /\ logging' \in BOOLEAN /\ keep' \in Retentions
        /\ UNCHANGED job
  /\ UNCHANGED <<day, born, sweep, booting>>

RetentionNext ==
  \/ LogEvent \/ NextDay
  \/ StartSweep \/ SweepBatch \/ CommitSweep \/ AbortSweep
  \/ \E w \in Workers : BootChecks(w) \/ BootCreates(w)
  \/ Configure

RetentionSpec == RetentionInit /\ [][RetentionNext]_retentionVars
-----------------------------------------------------------------------------
(***************************************************************************)
(* Properties.                                                             *)
(***************************************************************************)

\* Rows go all at once: when a cleanup ends, however many batches it took and
\* whatever was logged or configured beside it, the rows that are older than
\* its cutoff have gone, and none that is not, nor by any other way.
CleanupIsExact ==
  [][born' # born =>
       LET lost == Kept(born) \ Kept(born')
       IN \/ lost = {}
          \/ /\ sweep.phase = "commit"
             /\ lost = {r \in sweep.seen : born[r] < sweep.cutoff}]_retentionVars

\* "It must not touch an existing cron: an admin who disabled it ... would have
\* that reverted on restart": once the job is there and off, loading a registry
\* brings none back.
DisabledStaysDisabled ==
  [][(\E w \in Workers : BootCreates(w)) =>
       ((\E j \in Jobs : job[j] = "archived") => \E j \in Jobs : job[j] = "active")]_retentionVars
=============================================================================
