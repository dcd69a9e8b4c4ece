---------------------------- MODULE ConfigCache ----------------------------
(***************************************************************************)
(* Who may do what over MCP is configuration in the database: the global   *)
(* switches (ir.config_parameter) and one mcp.enabled.model row for each   *)
(* model.  Every gate reads it through an ormcache that each worker        *)
(* process keeps for itself; an edit clears the editor's cache, commits,   *)
(* and then signals the other workers, which look for signals when a       *)
(* request begins.                                                         *)
(*                                                                         *)
(* A configuration is a function over Items and a version its place in     *)
(* history, so that a cached answer is a version number.  The ormcache,    *)
(* the signals and the REPEATABLE READ transactions are Odoo's and         *)
(* PostgreSQL's; what is cached, what is written and when the cache is     *)
(* cleared are this repository's.                                          *)
(***************************************************************************)
EXTENDS Naturals, Sequences, FiniteSets, SequencesExt

CONSTANTS
  Procs,     \* worker processes
  Threads,   \* request threads
  Home,      \* [Threads -> Procs]; in a prefork deployment one thread each
  Params,    \* the global switches: mcp, oauth, origins
  Models,    \* the models an administrator may select (never mcp.*)
  Grants,    \* the sets of permissions a row may have
  Gates,     \* the gates that requests consult
  Initial,   \* configurations to start from
  Absent,    \* a model without a row
  MaxEdits   \* bound: edits

Permissions == {"read", "create", "write", "unlink", "call"}
Rows == [active : BOOLEAN, allows : Grants] \cup {Absent}
Items == Params \cup Models

Keys == (Params \X {"switch"}) \cup (Models \X (Permissions \cup {"enabled"}))

IsConfig(c) ==
  /\ DOMAIN c = Items /\ c = [i \in Items |-> c[i]]
  /\ \A p \in Params : c[p] \in BOOLEAN
  /\ \A m \in Models : c[m] \in Rows

ASSUME Deployment == Home \in [Threads -> Procs] /\ IsFiniteSet(Threads)
ASSUME GrantsArePermissions == Grants \subseteq SUBSET Permissions
ASSUME ItemsAreDistinct == Params \cap Models = {}
ASSUME InitialIsConfig == \A c \in Initial : IsConfig(c)
ASSUME GatesAskKeys == \A gate \in Gates : gate \in Seq(Keys)
ASSUME BoundIsBound == MaxEdits \in Nat

VARIABLES
  history,    \* the committed configurations: [config, wrote, by]
  signals,    \* the cache sequence in the database
  signalled,  \* the newest version whose signal is out
  procs,      \* [Procs -> [cache: keys filled -> version, heard: signals]]
  txns        \* [Threads -> the request the thread is serving]

vars == <<history, signals, signalled, procs, txns>>

Version == 1..Len(history)
Latest == Len(history)
At(v) == history[v].config

Idle == [phase |-> "idle"]

TypeOK ==
  /\ \A v \in Version : IsConfig(At(v))
  /\ signals \in 0..MaxEdits
  /\ signalled \in Version
  /\ \A p \in Procs :
       /\ procs[p].heard \in 0..signals
       /\ DOMAIN procs[p].cache \subseteq Keys
       /\ \A k \in DOMAIN procs[p].cache : procs[p].cache[k] \in Version
  /\ \A t \in Threads :
       txns[t].phase \in {"idle", "serving", "editing", "written", "unsignalled"}
-----------------------------------------------------------------------------
(***************************************************************************)
(* What is cached and asked.                                               *)
(***************************************************************************)

IsOn(row) == row # Absent /\ row.active

\* The cached methods: a switch, is_model_enabled, an operation, method calls.
Answer(c, key) ==
  CASE key[2] = "switch"  -> c[key[1]]
    [] key[2] = "enabled" -> IsOn(c[key[1]])
    [] OTHER              -> IsOn(c[key[1]]) /\ key[2] \in c[key[1]].allows

\* A gate is the sequence of cached answers it asks for, up to the first no.
SwitchGate(p) == <<<<p, "switch">>>>
ModelGate(m) == SwitchGate("mcp") \o <<<<m, "enabled">>>>
OperationGate(m, op) == SwitchGate("mcp") \o ModelGate(m) \o <<<<m, op>>>>
MethodGate(m) == SwitchGate("mcp") \o ModelGate(m) \o <<<<m, "call">>>>

\* The version whose answer thread t gets for a key: the cached one, or else
\* that of its own snapshot.
Seen(t, key) ==
  LET cache == procs[Home[t]].cache
  IN IF key \in DOMAIN cache THEN cache[key] ELSE txns[t].snap

Says(t, key) == Answer(At(Seen(t, key)), key)

\* The keys of a gate that are asked.
Asked(t, gate) ==
  {gate[i] : i \in {j \in DOMAIN gate : \A h \in 1..(j - 1) : Says(t, gate[h])}}

NoCache == [k \in {} |-> 0]

\* The cache once what was seen is in it.
Filled(cache, seen) ==
  [k \in DOMAIN cache \cup DOMAIN seen |-> IF k \in DOMAIN seen THEN seen[k] ELSE cache[k]]
-----------------------------------------------------------------------------
(***************************************************************************)
(* Edits.  A job is what an administrator saves; Changes is what it writes *)
(* when it runs on configuration c.                                        *)
(***************************************************************************)

\* Settings: the form saves every switch as displayed, one of them changed;
\* set_param leaves an equal value alone.
SettingsJobs ==
  {[kind |-> "settings", switches |-> [q \in Params |-> IF q = p THEN b ELSE At(v)[q]]] :
     v \in Version, p \in Params, b \in BOOLEAN}

SettingsChanges(job, c) ==
  [p \in {q \in Params : c[q] # job.switches[q]} |-> job.switches[p]]

\* One row: created, archived or restored, given other permissions, deleted.
RowJobs ==
  [kind : {"create"}, model : Models, allows : Grants]
    \cup [kind : {"activate"}, model : Models, active : BOOLEAN]
    \cup [kind : {"permit"}, model : Models, allows : Grants]
    \cup [kind : {"unlink"}, model : Models]

RowAfter(job, row) ==
  CASE job.kind = "create"   -> [active |-> TRUE, allows |-> job.allows]
    [] job.kind = "activate" -> [row EXCEPT !.active = job.active]
    [] job.kind = "permit"   -> [row EXCEPT !.allows = job.allows]
    [] job.kind = "unlink"   -> Absent

Missing(job, c) == job.kind \in {"activate", "permit", "unlink"} /\ c[job.model] = Absent

RowChanges(job, c) ==
  [m \in {n \in {job.model} : ~Missing(job, c)} |-> RowAfter(job, c[m])]

\* The wizard: rows for the selected models that have none, archived rows
\* reactivated with the selected permissions, active rows untouched.
WizardJobs == [kind : {"wizard"}, models : (SUBSET Models) \ {{}}, allows : Grants]

\* (In the slip an already active row is refreshed too.)
WizardChanges_All(job, c) ==
  [m \in job.models |-> [active |-> TRUE, allows |-> job.allows]]

WizardChanges(job, c) ==
  [m \in {n \in job.models : ~IsOn(c[n])} |-> [active |-> TRUE, allows |-> job.allows]]

Jobs == SettingsJobs \cup RowJobs \cup WizardJobs

Changes(job, c) ==
  CASE job.kind = "settings" -> SettingsChanges(job, c)
    [] job.kind = "wizard"   -> WizardChanges(job, c)
    [] OTHER                 -> RowChanges(job, c)

\* The rows a job inserts.
Inserted(job, c) ==
  CASE job.kind = "create" -> {job.model}
    [] job.kind = "wizard" -> {m \in job.models : c[m] = Absent}
    [] OTHER               -> {}

\* (In the slip what was not saved is lost.)
Overlay_SavedOnly(c, changes) ==
  [i \in DOMAIN changes |-> changes[i]]

Overlay(c, changes) ==
  [i \in Items |-> IF i \in DOMAIN changes THEN changes[i] ELSE c[i]]
-----------------------------------------------------------------------------
Init ==
  /\ \E c \in Initial : history = <<[config |-> c, wrote |-> {}, by |-> "install"]>>
  /\ signals = 0
  /\ signalled = 1
  /\ procs = [p \in Procs |-> [cache |-> NoCache, heard |-> 0]]
  /\ txns = [t \in Threads |-> Idle]

\* A request begins: its snapshot is taken, and a signal that the process has
\* not heard yet empties its cache.
Hear(proc) == IF proc.heard = signals THEN proc ELSE [cache |-> NoCache, heard |-> signals]

\* A client's request, which will consult gates.  floor: the newest version
\* that had been signalled when it began.
BeginServing(t) ==
  /\ txns[t].phase = "idle"
  /\ txns' = [txns EXCEPT ![t] = [phase |-> "serving", snap |-> Latest,
                                  floor |-> signalled, used |-> {}, granted |-> {}]]
  /\ procs' = [procs EXCEPT ![Home[t]] = Hear(@)]
  /\ UNCHANGED <<history, signals, signalled>>

\* The request asks a gate; what was not cached now is.
Consult(t, gate) ==
  LET asked == Asked(t, gate)
      seen == [k \in asked |-> Seen(t, k)]
  IN
    /\ txns[t].phase = "serving"
    /\ txns' = [txns EXCEPT ![t].used = @ \cup {seen[k] : k \in asked},
                            ![t].granted = @ \cup {k \in asked : Says(t, k)}]
    /\ procs' = [procs EXCEPT ![Home[t]].cache = Filled(@, seen)]
    /\ UNCHANGED <<history, signals, signalled>>

EndServing(t) ==
  /\ txns[t].phase = "serving"
  /\ txns' = [txns EXCEPT ![t] = Idle]
  /\ UNCHANGED <<history, signals, signalled, procs>>

\* An administrator's request, which will run a job.
Editors == {t \in Threads : txns[t].phase \in {"editing", "written", "unsignalled"}}

BeginEdit(t, job) ==
  /\ txns[t].phase = "idle"
  /\ Latest - 1 + Cardinality(Editors) < MaxEdits
  /\ signals + Cardinality(Editors) < MaxEdits
  /\ txns' = [txns EXCEPT ![t] = [phase |-> "editing", job |-> job, snap |-> Latest]]
  /\ procs' = [procs EXCEPT ![Home[t]] = Hear(@)]
  /\ UNCHANGED <<history, signals, signalled>>

\* Rows another transaction has written and not committed block the writer.
Blocked(t, items) ==
  \E u \in Threads \ {t} : txns[u].phase = "written" /\ DOMAIN txns[u].writes \cap items # {}

\* Rows committed by another since the snapshot fail it.
Clash(t, items) ==
  \E v \in (txns[t].snap + 1)..Latest : history[v].wrote \cap items # {}

Job(t) == txns[t].job
Base(t) == At(txns[t].snap)
Written(t) == DOMAIN Changes(Job(t), Base(t))

\* The job writes, and then clears its own worker's cache.  (In the slip that
\* is left to the signal, which only the other workers hear.)
Cleared_Not(proc) == proc

Cleared(proc) == [proc EXCEPT !.cache = NoCache]

Write(t) ==
  LET inserted == Inserted(Job(t), Base(t))
  IN
    /\ txns[t].phase = "editing"
    /\ ~ Missing(Job(t), Base(t))
    /\ ~ Blocked(t, Written(t))
    /\ \A m \in inserted : At(Latest)[m] = Absent /\ Base(t)[m] = Absent
    /\ ~ Clash(t, Written(t) \ inserted)
    /\ txns' = [txns EXCEPT ![t] =
                  IF Job(t).kind = "wizard" /\ Written(t) = {} THEN Idle
                  ELSE [phase |-> "written", writes |-> Changes(Job(t), Base(t)),
                        by |-> Job(t).kind]]
    /\ procs' = [procs EXCEPT ![Home[t]] =
                   IF Job(t).kind = "wizard" /\ Written(t) = {} THEN @ ELSE Cleared(@)]
    /\ UNCHANGED <<history, signals, signalled>>

\* A concurrency error: the request runs again on a fresh snapshot.
Rerun(t) ==
  /\ txns[t].phase = "editing"
  /\ ~ Missing(Job(t), Base(t))
  /\ ~ Blocked(t, Written(t))
  /\ Clash(t, Written(t) \ Inserted(Job(t), Base(t)))
  /\ txns' = [txns EXCEPT ![t].snap = Latest]
  /\ UNCHANGED <<history, signals, signalled, procs>>

\* The row is gone, or there already: the administrator is told.
Refuse(t) ==
  /\ txns[t].phase = "editing"
  /\ \/ Missing(Job(t), Base(t))
     \/ ~ Blocked(t, Written(t)) /\ \E m \in Inserted(Job(t), Base(t)) :
          At(Latest)[m] # Absent \/ Base(t)[m] # Absent
  /\ txns' = [txns EXCEPT ![t] = Idle]
  /\ UNCHANGED <<history, signals, signalled, procs>>

Commit(t) ==
  LET writes == txns[t].writes
  IN
    /\ txns[t].phase = "written"
    /\ history' = IF writes = NoCache THEN history
                  ELSE Append(history, [config |-> Overlay(At(Latest), writes),
                                        wrote |-> DOMAIN writes, by |-> txns[t].by])
    /\ txns' = [txns EXCEPT ![t] = [phase |-> "unsignalled", version |-> Len(history')]]
    /\ UNCHANGED <<signals, signalled, procs>>

\* The sequence is advanced, and this process will not hear its own signal.
Signal(t) ==
  /\ txns[t].phase = "unsignalled"
  /\ signals' = signals + 1
  /\ signalled' = IF txns[t].version > signalled THEN txns[t].version ELSE signalled
  /\ procs' = [procs EXCEPT ![Home[t]].heard = signals + 1]
  /\ txns' = [txns EXCEPT ![t] = Idle]
  /\ UNCHANGED history

\* A worker process dies: its requests and its cache are lost, and so is a
\* signal it had yet to send.
Crash(p) ==
  /\ procs' = [procs EXCEPT ![p] = [cache |-> NoCache, heard |-> signals]]
  /\ txns' = [t \in Threads |-> IF Home[t] = p THEN Idle ELSE txns[t]]
  /\ UNCHANGED <<history, signals, signalled>>

Next ==
  \/ \E t \in Threads :
       \/ BeginServing(t) \/ EndServing(t)
       \/ \E gate \in Gates : Consult(t, gate)
       \/ \E job \in Jobs : BeginEdit(t, job)
       \/ Write(t) \/ Rerun(t) \/ Refuse(t) \/ Commit(t) \/ Signal(t)
  \/ \E p \in Procs : Crash(p)

Spec == Init /\ [][Next]_vars
-----------------------------------------------------------------------------
(***************************************************************************)
(* Properties.                                                             *)
(***************************************************************************)

\* "A disabled model stops being served everywhere on the next request": no
\* request uses an answer older than the newest version signalled when it began,
\* or newer than its own snapshot.  (The requests of Door read their caches so.)
ReadsAreRegular ==
  \A t \in Threads : txns[t].phase = "serving" =>
    txns[t].used \subseteq txns[t].floor..txns[t].snap

\* The same said of what clients notice: what a request was granted, some
\* version that was in force at its beginning, or since, does grant.
OffMeansOff ==
  \A t \in Threads : txns[t].phase = "serving" =>
    \A k \in txns[t].granted : \E v \in txns[t].floor..Latest : Answer(At(v), k)

\* "An already-active row is left untouched", also one that another
\* administrator activated while the wizard was running.
WizardSparesActive ==
  \A v \in Version : history[v].by = "wizard" =>
    \A m \in Models : IsOn(At(v - 1)[m]) => At(v)[m] = At(v - 1)[m]
=============================================================================
