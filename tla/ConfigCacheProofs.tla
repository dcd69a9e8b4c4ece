------------------------- MODULE ConfigCacheProofs -------------------------
(***************************************************************************)
(* Proofs about ConfigCache, for any processes, threads, switches, models, *)
(* gates and number of edits: the inductive invariant CacheInv, which      *)
(* relates the rows transactions hold to the history they read, and for    *)
(* deployments of one thread per process the invariant FreshInv, which     *)
(* relates the caches to the signals.                                      *)
(***************************************************************************)
EXTENDS ConfigCache, FiniteSetTheorems, SequenceTheorems, TLAPS

-----------------------------------------------------------------------------
(***************************************************************************)
(* The inductive invariants.                                               *)
(***************************************************************************)
Kinds == {"install", "settings", "create", "activate", "permit", "unlink", "wizard"}

Configs == {c \in [Items -> BOOLEAN \cup Rows] : IsConfig(c)}

Commits == [config : Configs, wrote : SUBSET Items, by : Kinds]

Caches == UNION {[ks -> Nat] : ks \in SUBSET Keys}

Workers == [cache : Caches, heard : Nat]

Writes ==
  {w \in UNION {[is -> BOOLEAN \cup Rows] : is \in SUBSET Items} :
     \A i \in DOMAIN w : (i \in Params => w[i] \in BOOLEAN) /\ (i \in Models => w[i] \in Rows)}

AllJobs ==
  [kind : {"settings"}, switches : [Params -> BOOLEAN]] \cup RowJobs \cup WizardJobs

Serving == [phase : {"serving"}, snap : Nat, floor : Nat, used : SUBSET Nat,
            granted : SUBSET Keys]
Editing == [phase : {"editing"}, job : AllJobs, snap : Nat]
Holding == [phase : {"written"}, writes : Writes, by : Kinds]
Sending == [phase : {"unsignalled"}, version : Nat]

Requests == {Idle} \cup Serving \cup Editing \cup Holding \cup Sending

Types ==
  /\ history \in Seq(Commits) /\ Len(history) >= 1
  /\ signals \in Nat /\ signalled \in 1..Len(history)
  /\ procs \in [Procs -> Workers]
  /\ txns \in [Threads -> Requests]

\* Below, h is the history, w a worker process and x a request.

\* A process has heard no signal that was not sent and cached no version that
\* was not committed.
WorkerInv(w, last, sigs) ==
  w.heard <= sigs /\ \A k \in DOMAIN w.cache : w.cache[k] \in 1..last

\* What a request remembers is committed, and the rows that a wizard has
\* written are still not active in the newest version.
RequestInv(x, h) ==
  /\ x.phase = "serving" =>
       x.snap \in 1..Len(h) /\ x.floor \in 1..Len(h) /\ x.used \in SUBSET (1..Len(h))
  /\ x.phase = "editing" => x.snap \in 1..Len(h)
  /\ x.phase = "written" /\ x.by = "wizard" =>
       \A m \in DOMAIN x.writes : m \in Models /\ ~IsOn(h[Len(h)].config[m])
  /\ x.phase = "unsignalled" => x.version \in 1..Len(h)

\* Two transactions never hold the same row.
Apart(ts) ==
  \A t, u \in Threads : t # u /\ ts[t].phase = "written" /\ ts[u].phase = "written" =>
    DOMAIN ts[t].writes \cap DOMAIN ts[u].writes = {}

\* An item has one value from a version to another that no version between
\* them wrote.
Framed(h) ==
  \A a, b \in 1..Len(h) : \A i \in Items :
    a <= b /\ (\A v \in (a + 1)..b : i \notin h[v].wrote) => h[b].config[i] = h[a].config[i]

\* No version of the wizard's changed an active row.
Spared(h) ==
  \A v \in 1..Len(h) : h[v].by = "wizard" =>
    v > 1 /\ \A m \in Models : IsOn(h[v - 1].config[m]) => h[v].config[m] = h[v - 1].config[m]

CacheInv ==
  /\ Types
  /\ \A p \in Procs : WorkerInv(procs[p], Len(history), signals)
  /\ \A t \in Threads : RequestInv(txns[t], history)
  /\ Apart(txns)
  /\ Framed(history)
  /\ Spared(history)
  /\ signals + Cardinality(Editors) <= MaxEdits

\* A prefork deployment.
OneThreadEach == \A t, u \in Threads : Home[t] = Home[u] => t = u

\* A process that has heard the last signal has nothing cached that is older
\* than what was signalled.
FreshWorker(w, sigs, newest) ==
  w.heard = sigs => \A k \in DOMAIN w.cache : newest <= w.cache[k]

\* A request that is served by process w: what it has used, and what it may find
\* cached, lies between what was signalled when it began and its snapshot.
FreshRequest(x, w, sigs, newest) ==
  /\ x.phase = "serving" =>
       /\ w.heard = sigs => newest <= x.floor
       /\ x.floor <= x.snap
       /\ \A k \in DOMAIN w.cache : x.floor <= w.cache[k] /\ w.cache[k] <= x.snap
       /\ \A v \in x.used : x.floor <= v /\ v <= x.snap
  /\ x.phase \in {"written", "unsignalled"} => DOMAIN w.cache = {}

FreshInv ==
  OneThreadEach =>
    /\ \A p \in Procs : FreshWorker(procs[p], signals, signalled)
    /\ \A t \in Threads : FreshRequest(txns[t], procs[Home[t]], signals, signalled)

-----------------------------------------------------------------------------
(***************************************************************************)
(* Jobs and what they write.                                               *)
(***************************************************************************)

\* A function from some items to fitting values is a set of writes.
LEMMA WritesAreFunctions ==
  ASSUME NEW is \in SUBSET Items, NEW w \in [is -> BOOLEAN \cup Rows],
         \A i \in is : (i \in Params => w[i] \in BOOLEAN) /\ (i \in Models => w[i] \in Rows)
  PROVE  w \in Writes
BY DEF Writes

\* What writes are.
LEMMA WritesHaveItems ==
  ASSUME NEW w \in Writes
  PROVE  /\ DOMAIN w \in SUBSET Items
         /\ \A i \in DOMAIN w : /\ i \in Params => w[i] \in BOOLEAN
                                /\ i \in Models => w[i] \in Rows
BY DEF Writes

\* A switch is no model.
LEMMA SwitchesAreNoModels ==
  /\ Params \cap Models = {} /\ Items = Params \cup Models
BY ItemsAreDistinct DEF Items

\* A row that is given permissions or a state stays a row.
LEMMA RowsStayRows ==
  ASSUME NEW job \in RowJobs, NEW row \in Rows,
         job.kind \in {"activate", "permit"} => row # Absent
  PROVE  RowAfter(job, row) \in Rows
<1>1. job.kind \in {"create", "activate", "permit", "unlink"}
  BY DEF RowJobs
<1>2. CASE job.kind = "create"
  <2>1. RowAfter(job, row) = [active |-> TRUE, allows |-> job.allows] /\ job.allows \in Grants
    BY <1>2 DEF RowAfter, RowJobs
  <2> QED BY <2>1 DEF Rows
<1>3. CASE job.kind = "activate"
  <2>1. RowAfter(job, row) = [row EXCEPT !.active = job.active] /\ job.active \in BOOLEAN
    BY <1>3 DEF RowAfter, RowJobs
  <2>2. row \in [active : BOOLEAN, allows : Grants]
    BY <1>3 DEF Rows
  <2>3. [row EXCEPT !.active = job.active] \in [active : BOOLEAN, allows : Grants]
    BY <2>1, <2>2
  <2> QED BY <2>1, <2>3 DEF Rows
<1>4. CASE job.kind = "permit"
  <2>1. RowAfter(job, row) = [row EXCEPT !.allows = job.allows] /\ job.allows \in Grants
    BY <1>4 DEF RowAfter, RowJobs
  <2>2. row \in [active : BOOLEAN, allows : Grants]
    BY <1>4 DEF Rows
  <2>3. [row EXCEPT !.allows = job.allows] \in [active : BOOLEAN, allows : Grants]
    BY <2>1, <2>2
  <2> QED BY <2>1, <2>3 DEF Rows
<1>5. CASE job.kind = "unlink"
  <2>1. RowAfter(job, row) = Absent
    BY <1>5 DEF RowAfter
  <2> QED BY <2>1 DEF Rows
<1> QED BY <1>1, <1>2, <1>3, <1>4, <1>5

\* What a job writes fits the items it writes; the wizard writes models whose
\* rows are not active.
LEMMA ChangesAreWrites ==
  ASSUME NEW job \in AllJobs, NEW c, IsConfig(c)
  PROVE  /\ Changes(job, c) \in Writes
         /\ job.kind = "wizard" =>
              \A m \in DOMAIN Changes(job, c) : m \in Models /\ ~IsOn(c[m])
<1>1. CASE job \in [kind : {"settings"}, switches : [Params -> BOOLEAN]]
  <2> DEFINE is == {q \in Params : c[q] # job.switches[q]}
             w == [p \in is |-> job.switches[p]]
  <2>1. job.kind = "settings" /\ job.switches \in [Params -> BOOLEAN]
    BY <1>1
  <2>2. Changes(job, c) = w
    BY <2>1 DEF Changes, SettingsChanges
  <2>3. is \in SUBSET Items /\ is \in SUBSET Params
    BY DEF Items
  <2> HIDE DEF is
  <2>4. w \in [is -> BOOLEAN \cup Rows] /\ \A i \in is : w[i] \in BOOLEAN /\ i \notin Models
    BY <2>1, <2>3, SwitchesAreNoModels
  <2>5. w \in Writes
    BY <2>3, <2>4, WritesAreFunctions
  <2> QED BY <2>1, <2>2, <2>5
<1>2. CASE job \in WizardJobs
  <2> DEFINE is == {n \in job.models : ~IsOn(c[n])}
             w == [m \in is |-> [active |-> TRUE, allows |-> job.allows]]
  <2>1. job.kind = "wizard" /\ job.models \in SUBSET Models /\ job.allows \in Grants
    BY <1>2 DEF WizardJobs
  <2>2. Changes(job, c) = w
    BY <2>1 DEF Changes, WizardChanges
  <2>3. is \in SUBSET Items /\ is \in SUBSET Models /\ \A m \in is : ~IsOn(c[m])
    BY <2>1 DEF Items
  <2> HIDE DEF is
  <2>4. [active |-> TRUE, allows |-> job.allows] \in Rows
    BY <2>1 DEF Rows
  <2>5. w \in [is -> BOOLEAN \cup Rows] /\ \A i \in is : w[i] \in Rows /\ i \notin Params
    BY <2>3, <2>4, SwitchesAreNoModels
  <2>6. w \in Writes
    BY <2>3, <2>5, WritesAreFunctions
  <2>7. DOMAIN w = is
    OBVIOUS
  <2> QED BY <2>2, <2>3, <2>6, <2>7
<1>3. CASE job \in RowJobs
  <2> DEFINE is == {n \in {job.model} : ~Missing(job, c)}
             w == [m \in is |-> RowAfter(job, c[m])]
  <2>1. job.kind \in {"create", "activate", "permit", "unlink"} /\ job.model \in Models
    BY <1>3 DEF RowJobs
  <2>2. Changes(job, c) = w
    BY <2>1 DEF Changes, RowChanges
  <2>3. is \in SUBSET Items /\ is \in SUBSET Models
    BY <2>1 DEF Items
  <2>4. \A m \in is : RowAfter(job, c[m]) \in Rows
    <3>1. SUFFICES ASSUME NEW m \in is PROVE RowAfter(job, c[m]) \in Rows
      OBVIOUS
    <3>2. m = job.model /\ ~Missing(job, c) /\ c[m] \in Rows
      BY <2>1 DEF IsConfig
    <3>3. job.kind \in {"activate", "permit"} => c[m] # Absent
      BY <3>2 DEF Missing
    <3> QED BY <1>3, <3>2, <3>3, RowsStayRows
  <2> HIDE DEF is
  <2>5. w \in [is -> BOOLEAN \cup Rows] /\ \A i \in is : w[i] \in Rows /\ i \notin Params
    BY <2>3, <2>4, SwitchesAreNoModels
  <2>6. w \in Writes
    BY <2>3, <2>5, WritesAreFunctions
  <2> QED BY <2>1, <2>2, <2>6
<1> QED BY <1>1, <1>2, <1>3 DEF AllJobs

\* Writes over a configuration make a configuration.
LEMMA OverlayIsConfig ==
  ASSUME NEW c \in Configs, NEW w \in Writes
  PROVE  Overlay(c, w) \in Configs
<1> DEFINE d == Overlay(c, w)
<1>1. d = [i \in Items |-> IF i \in DOMAIN w THEN w[i] ELSE c[i]]
  BY DEF Overlay
<1>2. IsConfig(c)
  BY DEF Configs
<1>3. \A p \in Params : p \in Items /\ (p \in DOMAIN w => w[p] \in BOOLEAN) /\ c[p] \in BOOLEAN
  BY <1>2, WritesHaveItems, SwitchesAreNoModels DEF IsConfig
<1>4. \A m \in Models : m \in Items /\ (m \in DOMAIN w => w[m] \in Rows) /\ c[m] \in Rows
  BY <1>2, WritesHaveItems, SwitchesAreNoModels DEF IsConfig
<1>5. \A p \in Params : d[p] \in BOOLEAN
  BY <1>1, <1>3
<1>6. \A m \in Models : d[m] \in Rows
  BY <1>1, <1>4
<1>7. DOMAIN d = Items /\ d = [i \in Items |-> d[i]]
  BY <1>1
<1> HIDE DEF d
<1>8. \A i \in Items : d[i] \in BOOLEAN \cup Rows
  BY <1>5, <1>6, SwitchesAreNoModels
<1>9. d \in [Items -> BOOLEAN \cup Rows] /\ IsConfig(d)
  BY <1>5, <1>6, <1>7, <1>8 DEF IsConfig
<1> QED BY <1>9 DEF Configs, d

-----------------------------------------------------------------------------
(***************************************************************************)
(* Histories.                                                              *)
(***************************************************************************)

\* A version that writes what it says it wrote keeps the frame.
LEMMA FramedAppend ==
  ASSUME NEW h \in Seq(Commits), Len(h) >= 1, Framed(h), NEW e \in Commits,
         \A i \in Items : i \notin e.wrote => e.config[i] = h[Len(h)].config[i]
  PROVE  Framed(Append(h, e))
<1> DEFINE g == Append(h, e)  n == Len(h)
<1>1. /\ Len(g) = n + 1 /\ n \in Nat /\ n >= 1 /\ g[n + 1] = e
      /\ \A v \in 1..n : g[v] = h[v]
  BY AppendProperties
<1> HIDE DEF g
<1>2. SUFFICES ASSUME NEW a \in 1..Len(g), NEW b \in 1..Len(g), NEW i \in Items, a <= b,
                      \A v \in (a + 1)..b : i \notin g[v].wrote
               PROVE  g[b].config[i] = g[a].config[i]
  BY DEF Framed, g
<1>3. CASE b <= n
  <2>1. a \in 1..n /\ b \in 1..n /\ \A v \in (a + 1)..b : v \in 1..n
    BY <1>1, <1>2, <1>3
  <2>2. \A v \in (a + 1)..b : i \notin h[v].wrote
    BY <1>1, <1>2, <2>1
  <2>3. h[b].config[i] = h[a].config[i]
    BY <1>2, <2>1, <2>2 DEF Framed
  <2> QED BY <1>1, <2>1, <2>3
<1>4. CASE b = n + 1 /\ a <= n
  <2>1. a \in 1..n /\ n \in 1..n /\ a <= n
    BY <1>1, <1>2, <1>4
  <2>2. \A v \in (a + 1)..n : v \in (a + 1)..b /\ v \in 1..n
    BY <1>1, <1>4, <2>1
  <2>3. \A v \in (a + 1)..n : i \notin h[v].wrote
    BY <1>1, <1>2, <2>2
  <2>4. h[n].config[i] = h[a].config[i]
    BY <2>1, <2>3 DEF Framed
  <2>5. b \in (a + 1)..b
    BY <1>1, <1>4, <2>1
  <2>6. e.config[i] = h[n].config[i]
    BY <1>1, <1>2, <1>4, <2>5
  <2> QED BY <1>1, <1>4, <2>1, <2>4, <2>6
<1>5. CASE a = n + 1
  BY <1>1, <1>2, <1>5
<1> QED BY <1>1, <1>2, <1>3, <1>4, <1>5

\* A version that spares active rows, if it is the wizard's, keeps them spared.
LEMMA SparedAppend ==
  ASSUME NEW h \in Seq(Commits), Len(h) >= 1, Spared(h), NEW e \in Commits,
         e.by = "wizard" =>
           \A m \in Models : IsOn(h[Len(h)].config[m]) => e.config[m] = h[Len(h)].config[m]
  PROVE  Spared(Append(h, e))
<1> DEFINE g == Append(h, e)  n == Len(h)
<1>1. /\ Len(g) = n + 1 /\ n \in Nat /\ n >= 1 /\ g[n + 1] = e
      /\ \A v \in 1..n : g[v] = h[v]
  BY AppendProperties
<1> HIDE DEF g
<1>2. SUFFICES ASSUME NEW v \in 1..Len(g), g[v].by = "wizard"
               PROVE  /\ v > 1
                      /\ \A m \in Models :
                           IsOn(g[v - 1].config[m]) => g[v].config[m] = g[v - 1].config[m]
  BY DEF Spared, g
<1>3. CASE v <= n
  <2>1. v \in 1..n /\ h[v].by = "wizard"
    BY <1>1, <1>2, <1>3
  <2>2. v > 1 /\ \A m \in Models :
                   IsOn(h[v - 1].config[m]) => h[v].config[m] = h[v - 1].config[m]
    BY <2>1 DEF Spared
  <2>3. v - 1 \in 1..n
    BY <2>1, <2>2
  <2> QED BY <1>1, <2>1, <2>2, <2>3
<1>4. CASE v = n + 1
  <2>1. g[v] = e /\ v - 1 = n /\ n \in 1..n /\ v > 1
    BY <1>1, <1>4
  <2>2. g[v - 1] = h[n]
    BY <1>1, <2>1
  <2> QED BY <1>2, <2>1, <2>2
<1> QED BY <1>1, <1>2, <1>3, <1>4

-----------------------------------------------------------------------------
(***************************************************************************)
(* The administrators at work are counted.                                 *)
(***************************************************************************)
Busy == {"editing", "written", "unsignalled"}

\* There are finitely many of them.
LEMMA EditorsAreFinite ==
  IsFiniteSet(Editors) /\ Cardinality(Editors) \in Nat
<1>1. Editors \in SUBSET Threads /\ IsFiniteSet(Threads)
  BY Deployment DEF Editors
<1>2. IsFiniteSet(Editors)
  BY <1>1, FS_Subset
<1> QED BY <1>2, FS_CardinalityType

\* How their number changes with one thread's request.
LEMMA EditorsChange ==
  ASSUME Types, NEW t \in Threads, NEW y, txns' = [txns EXCEPT ![t] = y]
  PROVE  /\ Cardinality(Editors') \in Nat
         /\ Cardinality(Editors') <= Cardinality(Editors) + 1
         /\ y.phase \notin Busy \/ txns[t].phase \in Busy =>
              Cardinality(Editors') <= Cardinality(Editors)
         /\ y.phase \notin Busy /\ txns[t].phase \in Busy =>
              Cardinality(Editors') + 1 <= Cardinality(Editors)
<1>1. /\ txns \in [Threads -> Requests] /\ DOMAIN txns' = Threads
      /\ \A u \in Threads : txns'[u] = IF u = t THEN y ELSE txns[u]
  BY DEF Types
<1>2. Editors' = {u \in Threads : txns'[u].phase \in Busy}
  BY DEF Editors, Busy
<1>3. Editors = {u \in Threads : txns[u].phase \in Busy}
  BY DEF Editors, Busy
<1>4. IsFiniteSet(Editors) /\ Cardinality(Editors) \in Nat
  BY EditorsAreFinite
<1>5. CASE y.phase \in Busy /\ txns[t].phase \in Busy
  <2>1. Editors' = Editors
    BY <1>1, <1>2, <1>3, <1>5
  <2> QED BY <1>4, <1>5, <2>1
<1>6. CASE y.phase \in Busy /\ txns[t].phase \notin Busy
  <2>1. Editors' = Editors \cup {t} /\ t \notin Editors
    BY <1>1, <1>2, <1>3, <1>6
  <2>2. Cardinality(Editors') = Cardinality(Editors) + 1
    BY <1>4, <2>1, FS_AddElement
  <2> QED BY <1>4, <1>6, <2>2
<1>7. CASE y.phase \notin Busy /\ txns[t].phase \in Busy
  <2>1. Editors' = Editors \ {t} /\ t \in Editors
    BY <1>1, <1>2, <1>3, <1>7
  <2>2. Cardinality(Editors') = Cardinality(Editors) - 1
    BY <1>4, <2>1, FS_RemoveElement
  <2>3. Cardinality(Editors') \in Nat
    <3>1. IsFiniteSet(Editors \ {t})
      BY <1>4, FS_RemoveElement
    <3> QED BY <2>1, <3>1, FS_CardinalityType
  <2> QED BY <1>4, <1>7, <2>2, <2>3
<1>8. CASE y.phase \notin Busy /\ txns[t].phase \notin Busy
  <2>1. Editors' = Editors
    BY <1>1, <1>2, <1>3, <1>8
  <2> QED BY <1>4, <1>8, <2>1
<1> QED BY <1>5, <1>6, <1>7, <1>8

-----------------------------------------------------------------------------
(***************************************************************************)
(* Steps of one thread that commit nothing.                                *)
(***************************************************************************)

\* What the phases say of a request's type.
LEMMA RequestTypes ==
  ASSUME NEW x \in Requests
  PROVE  /\ x.phase \in {"idle", "serving", "editing", "written", "unsignalled"}
         /\ x.phase = "serving" => x \in Serving
         /\ x.phase = "editing" => x \in Editing
         /\ x.phase = "written" => x \in Holding
         /\ x.phase = "unsignalled" => x \in Sending
BY DEF Requests, Idle, Serving, Editing, Holding, Sending

\* A configuration in the history is one.
LEMMA HistoryHasConfigs ==
  ASSUME Types
  PROVE  \A v \in 1..Len(history) : At(v) \in Configs /\ IsConfig(At(v)) /\ history[v] \in Commits
<1>1. \A v \in 1..Len(history) : history[v] \in Commits
  BY DEF Types
<1> QED BY <1>1 DEF At, Commits, Configs

\* One thread gets a request, and its process a cache, as the invariant has
\* them, and no new editor is one too many.
LEMMA OneThread ==
  ASSUME CacheInv, NEW t \in Threads, NEW y \in Requests, txns' = [txns EXCEPT ![t] = y],
         NEW w \in Workers, procs' = [procs EXCEPT ![Home[t]] = w],
         UNCHANGED <<history, signals, signalled>>,
         WorkerInv(w, Len(history), signals), RequestInv(y, history),
         y.phase = "written" =>
           \A u \in Threads \ {t} : txns[u].phase = "written" =>
             DOMAIN txns[u].writes \cap DOMAIN y.writes = {},
         \/ y.phase \notin Busy \/ txns[t].phase \in Busy
         \/ signals + Cardinality(Editors) < MaxEdits
  PROVE  CacheInv'
<1>1. /\ Types /\ history' = history /\ signals' = signals /\ signalled' = signalled
      /\ signals \in Nat /\ MaxEdits \in Nat
  BY BoundIsBound DEF CacheInv, Types
<1>2. \A u \in Threads : txns'[u] = IF u = t THEN y ELSE txns[u]
  BY <1>1 DEF Types
<1>3. \A p \in Procs : procs'[p] = IF p = Home[t] THEN w ELSE procs[p]
  BY <1>1 DEF Types
<1>4. Types'
  <2>1. txns' \in [Threads -> Requests]
    BY <1>1 DEF Types
  <2>2. procs' \in [Procs -> Workers]
    BY <1>1 DEF Types
  <2> QED BY <1>1, <2>1, <2>2 DEF Types
<1>5. \A p \in Procs : WorkerInv(procs'[p], Len(history'), signals')
  BY <1>1, <1>3 DEF CacheInv
<1>6. \A u \in Threads : RequestInv(txns'[u], history')
  BY <1>1, <1>2 DEF CacheInv
<1>7. Apart(txns')
  <2>1. SUFFICES ASSUME NEW a \in Threads, NEW b \in Threads, a # b,
                        txns'[a].phase = "written", txns'[b].phase = "written"
                 PROVE  DOMAIN txns'[a].writes \cap DOMAIN txns'[b].writes = {}
    BY DEF Apart
  <2>2. CASE a # t /\ b # t
    BY <1>2, <2>1, <2>2 DEF CacheInv, Apart
  <2>3. CASE a = t
    <3>1. txns'[a] = y /\ txns'[b] = txns[b] /\ b \in Threads \ {t}
      BY <1>2, <2>1, <2>3
    <3> QED BY <2>1, <3>1
  <2>4. CASE b = t
    <3>1. txns'[b] = y /\ txns'[a] = txns[a] /\ a \in Threads \ {t}
      BY <1>2, <2>1, <2>4
    <3> QED BY <2>1, <3>1
  <2> QED BY <2>2, <2>3, <2>4
<1>8. signals' + Cardinality(Editors)' <= MaxEdits
  <2>1. /\ Cardinality(Editors)' \in Nat /\ Cardinality(Editors) \in Nat
        /\ Cardinality(Editors)' <= Cardinality(Editors) + 1
        /\ y.phase \notin Busy \/ txns[t].phase \in Busy =>
             Cardinality(Editors)' <= Cardinality(Editors)
    BY <1>1, EditorsChange, EditorsAreFinite
  <2>2. signals + Cardinality(Editors) <= MaxEdits
    BY DEF CacheInv
  <2> QED BY <1>1, <2>1, <2>2
<1> QED BY <1>1, <1>4, <1>5, <1>6, <1>7, <1>8 DEF CacheInv

\* The process of a thread, and what the invariant says of it.
LEMMA ProcessOf ==
  ASSUME CacheInv, NEW t \in Threads
  PROVE  /\ Home[t] \in Procs /\ procs[Home[t]] \in Workers
         /\ WorkerInv(procs[Home[t]], Len(history), signals)
         /\ procs = [procs EXCEPT ![Home[t]] = procs[Home[t]]]
         /\ txns[t] \in Requests /\ RequestInv(txns[t], history)
         /\ signals \in Nat /\ signalled \in 1..Len(history) /\ Len(history) \in Nat
<1>1. Home[t] \in Procs
  BY Deployment
<1> QED BY <1>1 DEF CacheInv, Types

\* A function from some keys to versions is a cache.
LEMMA CachesAreFunctions ==
  ASSUME NEW ks \in SUBSET Keys, NEW f \in [ks -> Nat]
  PROVE  f \in Caches
BY DEF Caches

\* An empty cache is a cache.
LEMMA NoCacheIsCache ==
  NoCache \in Caches /\ DOMAIN NoCache = {}
<1>1. NoCache \in [{} -> Nat] /\ {} \in SUBSET Keys
  BY DEF NoCache
<1> QED BY <1>1, CachesAreFunctions DEF NoCache

\* Hearing keeps a process as the invariant has it.
LEMMA HearKeeps ==
  ASSUME CacheInv, NEW t \in Threads
  PROVE  /\ Hear(procs[Home[t]]) \in Workers
         /\ WorkerInv(Hear(procs[Home[t]]), Len(history), signals)
         /\ Hear(procs[Home[t]]).heard = signals
         /\ \/ DOMAIN Hear(procs[Home[t]]).cache = {}
            \/ procs[Home[t]].heard = signals /\ Hear(procs[Home[t]]) = procs[Home[t]]
<1> DEFINE w == procs[Home[t]]
<1>1. w \in Workers /\ WorkerInv(w, Len(history), signals) /\ signals \in Nat
  BY ProcessOf
<1> HIDE DEF w
<1>2. CASE w.heard = signals
  BY <1>1, <1>2 DEF Hear, w
<1>3. CASE w.heard # signals
  <2> DEFINE z == [cache |-> NoCache, heard |-> signals]
  <2>1. Hear(w) = z
    BY <1>3 DEF Hear
  <2>2. z \in Workers /\ z.heard = signals /\ DOMAIN z.cache = {}
    BY <1>1, NoCacheIsCache DEF Workers
  <2> HIDE DEF z
  <2>3. WorkerInv(z, Len(history), signals)
    BY <1>1, <2>2 DEF WorkerInv
  <2> QED BY <2>1, <2>2, <2>3 DEF w
<1> QED BY <1>2, <1>3

\* A client's request begins.
LEMMA BeginServingStep ==
  ASSUME CacheInv, NEW t \in Threads, BeginServing(t)
  PROVE  CacheInv'
<1> DEFINE y == [phase |-> "serving", snap |-> Latest, floor |-> signalled, used |-> {},
                 granted |-> {}]
           w == Hear(procs[Home[t]])
<1>1. /\ txns' = [txns EXCEPT ![t] = y] /\ procs' = [procs EXCEPT ![Home[t]] = w]
      /\ UNCHANGED <<history, signals, signalled>>
  BY DEF BeginServing
<1>2. Len(history) \in Nat /\ Latest \in 1..Len(history) /\ signalled \in 1..Len(history)
  BY DEF CacheInv, Types, Latest
<1>3. y \in Requests /\ y.phase = "serving"
  <2>1. y \in Serving
    BY <1>2 DEF Serving
  <2> QED BY <2>1 DEF Requests
<1>4. RequestInv(y, history)
  BY <1>2 DEF RequestInv
<1>5. w \in Workers /\ WorkerInv(w, Len(history), signals)
  BY HearKeeps
<1> HIDE DEF y, w
<1> QED BY <1>1, <1>3, <1>4, <1>5, OneThread DEF Busy

\* What a request sees is committed.
LEMMA SeenIsCommitted ==
  ASSUME CacheInv, NEW t \in Threads, txns[t].phase = "serving", NEW k
  PROVE  Seen(t, k) \in 1..Len(history)
<1>1. txns[t].snap \in 1..Len(history)
  BY ProcessOf DEF RequestInv
<1>2. k \in DOMAIN procs[Home[t]].cache => procs[Home[t]].cache[k] \in 1..Len(history)
  BY ProcessOf DEF WorkerInv
<1> QED BY <1>1, <1>2 DEF Seen

\* What filling a cache gives.
LEMMA FilledCache ==
  ASSUME NEW cache \in Caches, NEW ks \in SUBSET Keys, NEW seen \in [ks -> Nat]
  PROVE  /\ Filled(cache, seen) \in Caches
         /\ DOMAIN Filled(cache, seen) = DOMAIN cache \cup ks
         /\ \A k \in DOMAIN cache \cup ks :
              Filled(cache, seen)[k] = IF k \in ks THEN seen[k] ELSE cache[k]
<1> DEFINE f == Filled(cache, seen)  dom == DOMAIN cache \cup ks
<1>1. DOMAIN cache \in SUBSET Keys /\ \A k \in DOMAIN cache : cache[k] \in Nat
  BY DEF Caches
<1>2. f = [k \in dom |-> IF k \in ks THEN seen[k] ELSE cache[k]]
  BY DEF Filled
<1>3. dom \in SUBSET Keys /\ \A k \in dom : (IF k \in ks THEN seen[k] ELSE cache[k]) \in Nat
  BY <1>1
<1> HIDE DEF f, dom
<1>4. f \in [dom -> Nat]
  BY <1>2, <1>3
<1>5. f \in Caches
  BY <1>3, <1>4, CachesAreFunctions
<1> QED BY <1>2, <1>5 DEF f, dom

\* The keys a gate asks for are keys.
LEMMA AskedAreKeys ==
  ASSUME NEW t, NEW gate \in Gates
  PROVE  Asked(t, gate) \in SUBSET Keys
<1>1. gate \in Seq(Keys)
  BY GatesAskKeys
<1>2. \A i \in DOMAIN gate : gate[i] \in Keys
  BY <1>1
<1> QED BY <1>2 DEF Asked

\* What a consultation makes of the request and of its process.
LEMMA Consulted ==
  ASSUME CacheInv, NEW t \in Threads, NEW gate \in Gates, Consult(t, gate)
  PROVE  \E y \in Serving, w \in Workers :
           /\ txns[t] \in Serving
           /\ txns' = [txns EXCEPT ![t] = y] /\ procs' = [procs EXCEPT ![Home[t]] = w]
           /\ y.phase = "serving" /\ y.snap = txns[t].snap /\ y.floor = txns[t].floor
           /\ \A v \in y.used : v \in txns[t].used \/ \E k \in Asked(t, gate) : v = Seen(t, k)
           /\ w.heard = procs[Home[t]].heard
           /\ \A k \in DOMAIN w.cache :
                \/ k \in Asked(t, gate) /\ w.cache[k] = Seen(t, k)
                \/ k \in DOMAIN procs[Home[t]].cache /\ w.cache[k] = procs[Home[t]].cache[k]
<1> DEFINE x == txns[t]  p == procs[Home[t]]  asked == Asked(t, gate)
           seen == [k \in asked |-> Seen(t, k)]
           used == x.used \cup {seen[k] : k \in asked}
           granted == x.granted \cup {k \in asked : Says(t, k)}
           cache == Filled(p.cache, seen)
           y == [x EXCEPT !.used = used, !.granted = granted]
           w == [p EXCEPT !.cache = cache]
<1>1. x.phase = "serving"
  BY DEF Consult
<1>2. /\ x \in Serving /\ p \in Workers /\ RequestInv(x, history) /\ Len(history) \in Nat
      /\ WorkerInv(p, Len(history), signals)
  BY <1>1, ProcessOf, RequestTypes
<1>3. asked \in SUBSET Keys
  BY AskedAreKeys
<1>4. \A k : Seen(t, k) \in 1..Len(history)
  BY <1>1, SeenIsCommitted
<1>5. seen \in [asked -> Nat]
  BY <1>2, <1>4
<1>6. txns' = [txns EXCEPT ![t] = y]
  BY DEF Consult
<1>7. procs' = [procs EXCEPT ![Home[t]] = w]
  BY DEF Consult
<1>8. p.cache \in Caches /\ p.heard \in Nat
  BY <1>2 DEF Workers
<1>9. /\ cache \in Caches /\ DOMAIN cache = DOMAIN p.cache \cup asked
      /\ \A k \in DOMAIN p.cache \cup asked :
           cache[k] = IF k \in asked THEN seen[k] ELSE p.cache[k]
  <2> DEFINE old == p.cache
  <2>1. old \in Caches
    BY <1>8
  <2> HIDE DEF old, asked, seen
  <2>2. /\ Filled(old, seen) \in Caches
        /\ DOMAIN Filled(old, seen) = DOMAIN old \cup asked
    BY <1>3, <1>5, <2>1, FilledCache
  <2>3. \A k \in DOMAIN old \cup asked :
          Filled(old, seen)[k] = IF k \in asked THEN seen[k] ELSE old[k]
    BY <1>3, <1>5, <2>1, FilledCache
  <2> QED BY <2>2, <2>3 DEF old
<1>10. used \in SUBSET Nat /\ granted \in SUBSET Keys
  <2>1. x.used \in SUBSET Nat /\ x.granted \in SUBSET Keys
    BY <1>2 DEF Serving
  <2>2. {seen[k] : k \in asked} \in SUBSET Nat
    BY <1>5
  <2> QED BY <1>3, <2>1, <2>2
<1>11. \A v \in used : v \in x.used \/ \E k \in asked : v = Seen(t, k)
  OBVIOUS
<1>12. \A k \in DOMAIN cache : \/ k \in asked /\ cache[k] = Seen(t, k)
                               \/ k \in DOMAIN p.cache /\ cache[k] = p.cache[k]
  <2>1. \A k \in asked : seen[k] = Seen(t, k)
    OBVIOUS
  <2> HIDE DEF p, asked, seen, cache
  <2> QED BY <1>9, <2>1
<1> HIDE DEF x, p, asked, seen, used, granted, cache
<1>13. /\ y \in Serving /\ y.phase = "serving" /\ y.snap = x.snap /\ y.floor = x.floor
       /\ y.used = used
  BY <1>1, <1>2, <1>10 DEF Serving
<1>14. w \in Workers /\ w.heard = p.heard /\ w.cache = cache
  BY <1>2, <1>9 DEF Workers
<1> HIDE DEF y, w
<1>15. \A v \in y.used : v \in x.used \/ \E k \in asked : v = Seen(t, k)
  BY <1>11, <1>13
<1>16. \A k \in DOMAIN w.cache :
         \/ k \in asked /\ w.cache[k] = Seen(t, k)
         \/ k \in DOMAIN p.cache /\ w.cache[k] = p.cache[k]
  BY <1>12, <1>14
<1> QED BY <1>2, <1>6, <1>7, <1>13, <1>14, <1>15, <1>16 DEF x, p, asked

\* A request consults a gate.
LEMMA ConsultStep ==
  ASSUME CacheInv, NEW t \in Threads, NEW gate \in Gates, Consult(t, gate)
  PROVE  CacheInv'
<1>1. PICK y \in Serving, w \in Workers :
        /\ txns[t] \in Serving
        /\ txns' = [txns EXCEPT ![t] = y] /\ procs' = [procs EXCEPT ![Home[t]] = w]
        /\ y.phase = "serving" /\ y.snap = txns[t].snap /\ y.floor = txns[t].floor
        /\ \A v \in y.used : v \in txns[t].used \/ \E k \in Asked(t, gate) : v = Seen(t, k)
        /\ w.heard = procs[Home[t]].heard
        /\ \A k \in DOMAIN w.cache :
             \/ k \in Asked(t, gate) /\ w.cache[k] = Seen(t, k)
             \/ k \in DOMAIN procs[Home[t]].cache /\ w.cache[k] = procs[Home[t]].cache[k]
  BY Consulted
<1>2. txns[t].phase = "serving" /\ UNCHANGED <<history, signals, signalled>>
  BY DEF Consult
<1>3. \A k : Seen(t, k) \in 1..Len(history)
  BY <1>2, SeenIsCommitted
<1>4. RequestInv(txns[t], history) /\ WorkerInv(procs[Home[t]], Len(history), signals)
  BY ProcessOf
<1>5. RequestInv(y, history)
  BY <1>1, <1>2, <1>3, <1>4 DEF RequestInv
<1>6. WorkerInv(w, Len(history), signals)
  BY <1>1, <1>3, <1>4 DEF WorkerInv
<1>7. y \in Requests /\ y.phase \notin Busy
  BY <1>1 DEF Requests, Busy
<1> QED BY <1>1, <1>2, <1>5, <1>6, <1>7, OneThread

\* A request ends.
LEMMA ThreadGoesIdle ==
  ASSUME CacheInv, NEW t \in Threads, txns' = [txns EXCEPT ![t] = Idle],
         UNCHANGED <<history, signals, signalled, procs>>
  PROVE  CacheInv'
<1>1. /\ procs[Home[t]] \in Workers /\ WorkerInv(procs[Home[t]], Len(history), signals)
      /\ procs' = [procs EXCEPT ![Home[t]] = procs[Home[t]]]
  BY ProcessOf
<1>2. /\ Idle \in Requests /\ Idle.phase \notin Busy /\ Idle.phase # "written"
      /\ RequestInv(Idle, history)
  BY DEF Requests, Idle, Busy, RequestInv
<1> QED BY <1>1, <1>2, OneThread

\* What an administrator may save is a job.
LEMMA JobsAreJobs ==
  ASSUME CacheInv
  PROVE  Jobs \in SUBSET AllJobs
<1>1. ASSUME NEW job \in SettingsJobs PROVE job \in AllJobs
  <2>1. PICK v \in Version, p \in Params, b \in BOOLEAN :
          job = [kind |-> "settings", switches |-> [q \in Params |-> IF q = p THEN b ELSE At(v)[q]]]
    BY DEF SettingsJobs
  <2>2. \A q \in Params : At(v)[q] \in BOOLEAN
    BY HistoryHasConfigs DEF CacheInv, Version, IsConfig
  <2> DEFINE s == [q \in Params |-> IF q = p THEN b ELSE At(v)[q]]
  <2>3. s \in [Params -> BOOLEAN] /\ job = [kind |-> "settings", switches |-> s]
    BY <2>1, <2>2
  <2> HIDE DEF s
  <2> QED BY <2>3 DEF AllJobs
<1> QED BY <1>1 DEF Jobs, AllJobs

\* An administrator's request begins.
LEMMA BeginEditStep ==
  ASSUME CacheInv, NEW t \in Threads, NEW job \in Jobs, BeginEdit(t, job)
  PROVE  CacheInv'
<1> DEFINE y == [phase |-> "editing", job |-> job, snap |-> Latest]
           w == Hear(procs[Home[t]])
<1>1. /\ txns' = [txns EXCEPT ![t] = y] /\ procs' = [procs EXCEPT ![Home[t]] = w]
      /\ UNCHANGED <<history, signals, signalled>>
      /\ signals + Cardinality(Editors) < MaxEdits
  BY DEF BeginEdit
<1>2. Len(history) \in Nat /\ Latest \in 1..Len(history) /\ job \in AllJobs
  BY JobsAreJobs DEF CacheInv, Types, Latest
<1>3. y \in Requests /\ y.phase = "editing" /\ RequestInv(y, history)
  <2>1. y \in Editing
    BY <1>2 DEF Editing
  <2>2. RequestInv(y, history)
    BY <1>2 DEF RequestInv
  <2> QED BY <2>1, <2>2 DEF Requests
<1>4. w \in Workers /\ WorkerInv(w, Len(history), signals)
  BY HearKeeps
<1> HIDE DEF y, w
<1> QED BY <1>1, <1>3, <1>4, OneThread

\* An administrator's request runs again on a fresh snapshot.
LEMMA RerunStep ==
  ASSUME CacheInv, NEW t \in Threads, Rerun(t)
  PROVE  CacheInv'
<1> DEFINE x == txns[t]  y == [x EXCEPT !.snap = Latest]
<1>1. /\ x.phase = "editing" /\ txns' = [txns EXCEPT ![t] = y]
      /\ UNCHANGED <<history, signals, signalled, procs>>
  BY DEF Rerun
<1>2. x \in Editing /\ Len(history) \in Nat /\ Latest \in 1..Len(history)
  BY <1>1, ProcessOf, RequestTypes DEF CacheInv, Types, Latest
<1>3. /\ procs[Home[t]] \in Workers /\ WorkerInv(procs[Home[t]], Len(history), signals)
      /\ procs' = [procs EXCEPT ![Home[t]] = procs[Home[t]]]
  BY <1>1, ProcessOf
<1>4. y \in Editing /\ y.phase = "editing" /\ y.snap = Latest
  BY <1>2 DEF Editing
<1>5. txns[t].phase \in Busy
  BY <1>1 DEF Busy
<1> HIDE DEF x, y
<1>6. y \in Requests /\ RequestInv(y, history)
  BY <1>2, <1>4 DEF Requests, RequestInv
<1> QED BY <1>1, <1>3, <1>4, <1>5, <1>6, OneThread

\* An administrator's job writes: what it writes nobody else holds, and a
\* wizard's writes are to rows that are not active.
LEMMA WriteStep ==
  ASSUME CacheInv, NEW t \in Threads, Write(t)
  PROVE  CacheInv'
<1> DEFINE x == txns[t]  job == x.job  base == At(x.snap)  w == Changes(job, base)
           y == [phase |-> "written", writes |-> w, by |-> job.kind]
           z == Cleared(procs[Home[t]])
           nothing == job.kind = "wizard" /\ DOMAIN w = {}
           inserted == Inserted(job, base)
<1>1. /\ x.phase = "editing" /\ ~Blocked(t, DOMAIN w)
      /\ \A m \in inserted : At(Latest)[m] = Absent
      /\ ~Clash(t, DOMAIN w \ inserted)
      /\ txns' = [txns EXCEPT ![t] = IF nothing THEN Idle ELSE y]
      /\ procs' = [procs EXCEPT ![Home[t]] = IF nothing THEN procs[Home[t]] ELSE z]
      /\ UNCHANGED <<history, signals, signalled>>
  BY DEF Write, Written, Job, Base
<1>2. /\ x \in Editing /\ x.snap \in 1..Len(history) /\ Len(history) \in Nat
      /\ Len(history) >= 1 /\ Latest = Len(history) /\ Framed(history)
  BY <1>1, ProcessOf, RequestTypes DEF CacheInv, Types, Latest, RequestInv
<1>3. job \in AllJobs /\ base \in Configs /\ IsConfig(base)
  BY <1>2, HistoryHasConfigs DEF CacheInv, Editing
<1>4. /\ w \in Writes
      /\ job.kind = "wizard" => \A m \in DOMAIN w : m \in Models /\ ~IsOn(base[m])
  <2> HIDE DEF job, base
  <2> QED BY <1>3, ChangesAreWrites
<1>5. CASE nothing
  <2>1. txns' = [txns EXCEPT ![t] = Idle]
    BY <1>1, <1>5
  <2>2. procs' = procs
    BY <1>1, <1>5, ProcessOf
  <2> QED BY <1>1, <2>1, <2>2, ThreadGoesIdle
<1>6. CASE ~nothing
  <2>1. txns' = [txns EXCEPT ![t] = y] /\ procs' = [procs EXCEPT ![Home[t]] = z]
    BY <1>1, <1>6
  <2>2. job.kind \in Kinds
    BY <1>3 DEF AllJobs, RowJobs, WizardJobs, Kinds
  <2> HIDE DEF job, base, w, inserted
  <2>3. y \in Requests /\ y.phase = "written" /\ y.writes = w /\ y.by = job.kind
    <3>1. y \in Holding
      BY <1>4, <2>2 DEF Holding
    <3> QED BY <3>1 DEF Requests
  <2>4. ASSUME job.kind = "wizard", NEW m \in DOMAIN w
        PROVE  m \in Models /\ ~IsOn(history[Len(history)].config[m])
    <3>1. m \in Models /\ ~IsOn(base[m])
      BY <1>4, <2>4
    <3>2. CASE m \in inserted
      BY <1>1, <1>2, <3>1, <3>2 DEF At, IsOn
    <3>3. CASE m \notin inserted
      <4>1. \A v \in (x.snap + 1)..Len(history) : m \notin history[v].wrote
        BY <1>1, <1>2, <2>4, <3>3 DEF Clash
      <4>2. x.snap <= Len(history) /\ Len(history) \in 1..Len(history) /\ m \in Items
        BY <1>2, <3>1 DEF Items
      <4>3. history[Len(history)].config[m] = history[x.snap].config[m]
        BY <1>2, <4>1, <4>2 DEF Framed
      <4> QED BY <3>1, <4>3 DEF At, base
    <3> QED BY <3>1, <3>2, <3>3
  <2>5. RequestInv(y, history)
    BY <2>3, <2>4 DEF RequestInv
  <2>6. z \in Workers /\ WorkerInv(z, Len(history), signals)
    <3> DEFINE p == procs[Home[t]]
    <3>1. p \in Workers /\ WorkerInv(p, Len(history), signals)
      BY ProcessOf
    <3>2. z = [p EXCEPT !.cache = NoCache]
      BY DEF Cleared
    <3> HIDE DEF p, z
    <3>3. z \in Workers /\ z.heard = p.heard /\ DOMAIN z.cache = {}
      BY <3>1, <3>2, NoCacheIsCache DEF Workers
    <3> QED BY <3>1, <3>3 DEF WorkerInv
  <2>7. \A u \in Threads \ {t} : txns[u].phase = "written" =>
          DOMAIN txns[u].writes \cap DOMAIN y.writes = {}
    BY <1>1, <2>3 DEF Blocked
  <2>8. txns[t].phase \in Busy
    BY <1>1 DEF Busy
  <2> HIDE DEF y, z
  <2> QED BY <1>1, <2>1, <2>3, <2>5, <2>6, <2>7, <2>8, OneThread
<1> QED BY <1>5, <1>6

-----------------------------------------------------------------------------
(***************************************************************************)
(* Commits, signals and crashes.                                           *)
(***************************************************************************)

\* A commit keeps the invariant: what others hold is not what it writes.
LEMMA CommitStep ==
  ASSUME CacheInv, NEW t \in Threads, Commit(t)
  PROVE  CacheInv'
<1> DEFINE x == txns[t]  n == Len(history)
           e == [config |-> Overlay(At(Latest), x.writes), wrote |-> DOMAIN x.writes, by |-> x.by]
           y == [phase |-> "unsignalled", version |-> Len(history')]
<1>1. /\ x.phase = "written"
      /\ history' = IF x.writes = NoCache THEN history ELSE Append(history, e)
      /\ txns' = [txns EXCEPT ![t] = y]
      /\ signals' = signals /\ signalled' = signalled /\ procs' = procs
  BY DEF Commit
<1>2. /\ x \in Holding /\ RequestInv(x, history)
      /\ procs[Home[t]] \in Workers /\ WorkerInv(procs[Home[t]], n, signals)
      /\ procs' = [procs EXCEPT ![Home[t]] = procs[Home[t]]]
  BY <1>1, ProcessOf, RequestTypes
<1>3. /\ Types /\ history \in Seq(Commits) /\ n \in Nat /\ n >= 1 /\ Latest = n /\ n \in 1..n
      /\ signals \in Nat /\ MaxEdits \in Nat
  BY BoundIsBound DEF CacheInv, Types, Latest
<1>4. txns[t].phase \in Busy /\ y.phase \in Busy /\ y.phase = "unsignalled"
      /\ y.version = Len(history')
  BY <1>1 DEF Busy
<1>5. CASE x.writes = NoCache
  <2>1. history' = history
    BY <1>1, <1>5
  <2>2. y \in Sending /\ y.version \in 1..n
    BY <1>3, <2>1 DEF Sending
  <2> HIDE DEF y
  <2>3. y \in Requests /\ RequestInv(y, history)
    BY <1>4, <2>2 DEF Requests, RequestInv
  <2> QED BY <1>1, <1>2, <1>4, <2>1, <2>3, OneThread
<1>6. CASE x.writes # NoCache
  <2>1. history' = Append(history, e)
    BY <1>1, <1>6
  <2>2. /\ At(n) \in Configs /\ x.writes \in Writes /\ x.by \in Kinds
        /\ DOMAIN x.writes \in SUBSET Items
    BY <1>2, <1>3, HistoryHasConfigs, WritesHaveItems DEF Holding
  <2>3. e \in Commits
    <3>1. Overlay(At(Latest), x.writes) \in Configs
      BY <1>3, <2>2, OverlayIsConfig
    <3> QED BY <2>2, <3>1 DEF Commits
  <2>4. /\ e.wrote = DOMAIN x.writes /\ e.by = x.by
        /\ \A i \in Items : i \notin e.wrote => e.config[i] = history[n].config[i]
    BY <1>3 DEF Overlay, At
  <2> HIDE DEF e
  <2>5. /\ history' \in Seq(Commits) /\ Len(history') = n + 1 /\ history'[n + 1] = e
        /\ \A v \in 1..n : history'[v] = history[v]
    BY <1>3, <2>1, <2>3, AppendProperties
  <2>6. Framed(history')
    BY <1>3, <2>1, <2>3, <2>4, FramedAppend DEF CacheInv
  <2>7. Spared(history')
    <3>1. ASSUME e.by = "wizard", NEW m \in Models, IsOn(history[n].config[m])
          PROVE  e.config[m] = history[n].config[m]
      <4>1. m \notin e.wrote
        BY <1>1, <1>2, <2>4, <3>1 DEF RequestInv
      <4> QED BY <2>4, <4>1 DEF Items
    <3> QED BY <1>3, <2>1, <2>3, <3>1, SparedAppend DEF CacheInv
  <2>8. \A u \in Threads : txns'[u] = IF u = t THEN y ELSE txns[u]
    BY <1>1, <1>3 DEF Types
  <2>9. Types'
    <3>1. y \in Requests
      BY <1>3, <2>5 DEF Requests, Sending
    <3>2. txns' \in [Threads -> Requests]
      BY <1>1, <1>3, <3>1 DEF Types
    <3>3. signalled' \in 1..Len(history') /\ Len(history') >= 1
      BY <1>1, <1>3, <2>5 DEF Types
    <3> QED BY <1>1, <1>3, <2>5, <3>2, <3>3 DEF Types
  <2>10. \A p \in Procs : WorkerInv(procs'[p], Len(history'), signals')
    BY <1>1, <1>3, <2>5 DEF CacheInv, WorkerInv
  <2>11. ASSUME NEW u \in Threads PROVE RequestInv(txns'[u], history')
    <3>1. CASE u = t
      <4>1. txns'[u] = y /\ Len(history') \in 1..Len(history')
        BY <1>3, <2>5, <2>8, <3>1
      <4> HIDE DEF y
      <4> QED BY <1>4, <4>1 DEF RequestInv
    <3>2. CASE u # t
      <4>1. txns'[u] = txns[u] /\ RequestInv(txns[u], history)
        BY <2>8, <3>2 DEF CacheInv
      <4>2. ASSUME txns[u].phase = "written", txns[u].by = "wizard",
                   NEW m \in DOMAIN txns[u].writes
            PROVE  m \in Models /\ ~IsOn(history'[Len(history')].config[m])
        <5>1. m \in Models /\ ~IsOn(history[n].config[m])
          BY <4>1, <4>2 DEF RequestInv
        <5>2. m \notin e.wrote
          BY <1>1, <2>4, <3>2, <4>2 DEF CacheInv, Apart
        <5> QED BY <2>4, <2>5, <5>1, <5>2 DEF Items
      <4>3. /\ 1..n \in SUBSET (1..Len(history'))
        BY <1>3, <2>5
      <4> QED BY <4>1, <4>2, <4>3 DEF RequestInv
    <3> QED BY <3>1, <3>2
  <2>12. Apart(txns')
    BY <1>4, <2>8 DEF CacheInv, Apart
  <2>13. signals' + Cardinality(Editors)' <= MaxEdits
    <3>1. /\ Cardinality(Editors)' \in Nat /\ Cardinality(Editors) \in Nat
          /\ Cardinality(Editors)' <= Cardinality(Editors)
      BY <1>1, <1>3, <1>4, EditorsChange, EditorsAreFinite
    <3>2. signals + Cardinality(Editors) <= MaxEdits
      BY DEF CacheInv
    <3> QED BY <1>1, <1>3, <3>1, <3>2
  <2> QED BY <2>6, <2>7, <2>9, <2>10, <2>11, <2>12, <2>13 DEF CacheInv
<1> QED BY <1>5, <1>6

\* A signal keeps the invariant.
LEMMA SignalStep ==
  ASSUME CacheInv, NEW t \in Threads, Signal(t)
  PROVE  CacheInv'
<1> DEFINE x == txns[t]  p == procs[Home[t]]  w == [p EXCEPT !.heard = signals + 1]
<1>1. /\ x.phase = "unsignalled" /\ signals' = signals + 1
      /\ signalled' = (IF x.version > signalled THEN x.version ELSE signalled)
      /\ procs' = [procs EXCEPT ![Home[t]] = w]
      /\ txns' = [txns EXCEPT ![t] = Idle] /\ history' = history
  BY DEF Signal
<1>2. /\ x.version \in 1..Len(history) /\ p \in Workers /\ Home[t] \in Procs
      /\ WorkerInv(p, Len(history), signals)
      /\ signals \in Nat /\ signalled \in 1..Len(history)
  BY <1>1, ProcessOf DEF RequestInv
<1> HIDE DEF p
<1>3. w \in Workers /\ w.heard = signals + 1 /\ w.cache = p.cache
  BY <1>2 DEF Workers
<1> HIDE DEF w
<1>4. Types /\ MaxEdits \in Nat
  BY BoundIsBound DEF CacheInv
<1>5. \A q \in Procs : procs'[q] = IF q = Home[t] THEN w ELSE procs[q]
  BY <1>1, <1>4 DEF Types
<1>6. \A u \in Threads : txns'[u] = IF u = t THEN Idle ELSE txns[u]
  BY <1>1, <1>4 DEF Types
<1>7. Types'
  <2>1. txns' \in [Threads -> Requests]
    BY <1>1, <1>4 DEF Types, Requests
  <2>2. procs' \in [Procs -> Workers]
    BY <1>1, <1>3, <1>4 DEF Types
  <2>3. signals' \in Nat /\ signalled' \in 1..Len(history')
    BY <1>1, <1>2
  <2> QED BY <1>1, <1>4, <2>1, <2>2, <2>3 DEF Types
<1>8. ASSUME NEW q \in Procs PROVE WorkerInv(procs'[q], Len(history'), signals')
  <2>1. CASE q = Home[t]
    BY <1>1, <1>2, <1>3, <1>5, <2>1 DEF WorkerInv
  <2>2. CASE q # Home[t]
    <3>1. procs'[q] = procs[q] /\ procs[q] \in Workers /\ WorkerInv(procs[q], Len(history), signals)
      BY <1>4, <1>5, <2>2 DEF CacheInv, Types
    <3>2. procs[q].heard \in Nat
      BY <3>1 DEF Workers
    <3> QED BY <1>1, <1>2, <3>1, <3>2 DEF WorkerInv
  <2> QED BY <2>1, <2>2
<1>9. ASSUME NEW u \in Threads PROVE RequestInv(txns'[u], history')
  <2>1. CASE u = t
    BY <1>6, <2>1 DEF RequestInv, Idle
  <2>2. CASE u # t
    BY <1>1, <1>6, <2>2 DEF CacheInv
  <2> QED BY <2>1, <2>2
<1>10. Apart(txns')
  BY <1>6 DEF CacheInv, Apart, Idle
<1>11. signals' + Cardinality(Editors)' <= MaxEdits
  <2>1. Idle.phase \notin Busy /\ txns[t].phase \in Busy
    BY <1>1 DEF Idle, Busy
  <2>2. /\ Cardinality(Editors)' \in Nat /\ Cardinality(Editors) \in Nat
        /\ Cardinality(Editors)' + 1 <= Cardinality(Editors)
    BY <1>1, <1>4, <2>1, EditorsChange, EditorsAreFinite
  <2>3. signals + Cardinality(Editors) <= MaxEdits
    BY DEF CacheInv
  <2> QED BY <1>1, <1>2, <1>4, <2>2, <2>3
<1> QED BY <1>1, <1>7, <1>8, <1>9, <1>10, <1>11 DEF CacheInv

\* The death of a worker keeps the invariant.
LEMMA CrashStep ==
  ASSUME CacheInv, NEW p \in Procs, Crash(p)
  PROVE  CacheInv'
<1> DEFINE w == [cache |-> NoCache, heard |-> signals]
<1>1. /\ procs' = [procs EXCEPT ![p] = w]
      /\ txns' = [t \in Threads |-> IF Home[t] = p THEN Idle ELSE txns[t]]
      /\ history' = history /\ signals' = signals /\ signalled' = signalled
  BY DEF Crash
<1>2. Types /\ signals \in Nat /\ MaxEdits \in Nat
  BY BoundIsBound DEF CacheInv, Types
<1>3. w \in Workers /\ w.heard = signals /\ DOMAIN w.cache = {}
  BY <1>2, NoCacheIsCache DEF Workers
<1> HIDE DEF w
<1>4. \A q \in Procs : procs'[q] = IF q = p THEN w ELSE procs[q]
  BY <1>1, <1>2 DEF Types
<1>5. \A t \in Threads : txns'[t] = Idle \/ txns'[t] = txns[t]
  BY <1>1
<1>6. Types'
  <2>1. txns' \in [Threads -> Requests]
    BY <1>1, <1>2 DEF Types, Requests
  <2>2. procs' \in [Procs -> Workers]
    BY <1>1, <1>2, <1>3 DEF Types
  <2> QED BY <1>1, <1>2, <2>1, <2>2 DEF Types
<1>7. \A q \in Procs : WorkerInv(procs'[q], Len(history'), signals')
  BY <1>1, <1>2, <1>3, <1>4 DEF CacheInv, WorkerInv
<1>8. \A t \in Threads : RequestInv(txns'[t], history')
  <2>1. RequestInv(Idle, history)
    BY DEF RequestInv, Idle
  <2> QED BY <1>1, <1>5, <2>1 DEF CacheInv
<1>9. Apart(txns')
  BY <1>5 DEF CacheInv, Apart, Idle
<1>10. signals' + Cardinality(Editors)' <= MaxEdits
  <2>1. Editors' \in SUBSET Editors
    BY <1>5 DEF Editors, Idle
  <2>2. Cardinality(Editors') <= Cardinality(Editors) /\ Cardinality(Editors') \in Nat
    BY <2>1, EditorsAreFinite, FS_Subset, FS_CardinalityType
  <2>3. signals + Cardinality(Editors) <= MaxEdits /\ Cardinality(Editors) \in Nat
    BY EditorsAreFinite DEF CacheInv
  <2> QED BY <1>1, <1>2, <2>2, <2>3
<1> QED BY <1>1, <1>6, <1>7, <1>8, <1>9, <1>10 DEF CacheInv

\* The server starts as the invariant has it.
LEMMA CacheInit ==
  ASSUME Init
  PROVE  CacheInv
<1>1. PICK c \in Initial : history = <<[config |-> c, wrote |-> {}, by |-> "install"]>>
  BY DEF Init
<1> DEFINE e == [config |-> c, wrote |-> {}, by |-> "install"]
<1>2. /\ signals = 0 /\ signalled = 1 /\ txns = [t \in Threads |-> Idle]
      /\ procs = [p \in Procs |-> [cache |-> NoCache, heard |-> 0]]
  BY DEF Init
<1>3. c \in Configs
  <2>1. IsConfig(c)
    BY InitialIsConfig
  <2>2. \A i \in Items : c[i] \in BOOLEAN \cup Rows
    BY <2>1, SwitchesAreNoModels DEF IsConfig
  <2>3. c \in [Items -> BOOLEAN \cup Rows]
    BY <2>1, <2>2 DEF IsConfig
  <2> QED BY <2>1, <2>3 DEF Configs
<1>4. e \in Commits /\ e.by = "install"
  BY <1>3 DEF Commits, Kinds
<1> HIDE DEF e
<1>5. history \in Seq(Commits) /\ Len(history) = 1 /\ history[1] = e
  BY <1>1, <1>4 DEF e
<1>6. Types
  <2>1. [cache |-> NoCache, heard |-> 0] \in Workers
    BY NoCacheIsCache DEF Workers
  <2>2. procs \in [Procs -> Workers] /\ txns \in [Threads -> Requests]
    BY <1>2, <2>1 DEF Requests
  <2> QED BY <1>2, <1>5, <2>2 DEF Types
<1>7. \A p \in Procs : WorkerInv(procs[p], Len(history), signals)
  BY <1>2, NoCacheIsCache DEF WorkerInv
<1>8. \A t \in Threads : RequestInv(txns[t], history)
  BY <1>2 DEF RequestInv, Idle
<1>9. Apart(txns)
  BY <1>2 DEF Apart, Idle
<1>10. Framed(history) /\ Spared(history)
  BY <1>4, <1>5 DEF Framed, Spared
<1>11. signals + Cardinality(Editors) <= MaxEdits
  <2>1. Editors = {}
    BY <1>2 DEF Editors, Idle
  <2> QED BY <1>2, <2>1, FS_EmptySet, BoundIsBound
<1> QED BY <1>6, <1>7, <1>8, <1>9, <1>10, <1>11 DEF CacheInv

\* Every step keeps the invariant.
LEMMA CacheStep ==
  ASSUME CacheInv, [Next]_vars
  PROVE  CacheInv'
<1>1. ASSUME NEW t \in Threads, BeginServing(t) \/ Write(t) \/ Rerun(t) \/ Commit(t) \/ Signal(t)
      PROVE  CacheInv'
  BY <1>1, BeginServingStep, WriteStep, RerunStep, CommitStep, SignalStep
<1>2. ASSUME NEW t \in Threads, EndServing(t) \/ Refuse(t) PROVE CacheInv'
  BY <1>2, ThreadGoesIdle DEF EndServing, Refuse
<1>3. ASSUME NEW t \in Threads, NEW gate \in Gates, Consult(t, gate) PROVE CacheInv'
  BY <1>3, ConsultStep
<1>4. ASSUME NEW t \in Threads, NEW job \in Jobs, BeginEdit(t, job) PROVE CacheInv'
  BY <1>4, BeginEditStep
<1>5. ASSUME NEW p \in Procs, Crash(p) PROVE CacheInv'
  BY <1>5, CrashStep
<1>6. CASE UNCHANGED vars
  BY <1>6 DEF vars, CacheInv, Types, Editors
<1> QED BY <1>1, <1>2, <1>3, <1>4, <1>5, <1>6 DEF Next

\* The inductive invariant holds throughout.
THEOREM CacheInvariant == Spec => []CacheInv
<1> QED BY CacheInit, CacheStep, PTL DEF Spec

\* Every committed configuration is one, caches hold committed versions only,
\* and no more signals are sent than edits are made.
THEOREM CacheTypeCorrect == Spec => []TypeOK
<1>1. ASSUME CacheInv PROVE TypeOK
  <2>1. \A v \in Version : IsConfig(At(v))
    BY <1>1, HistoryHasConfigs DEF CacheInv, Version
  <2>2. signals \in 0..MaxEdits /\ signalled \in Version
    <3>1. /\ signals + Cardinality(Editors) <= MaxEdits /\ Cardinality(Editors) \in Nat
          /\ signals \in Nat /\ MaxEdits \in Nat /\ signalled \in 1..Len(history)
      BY <1>1, EditorsAreFinite, BoundIsBound DEF CacheInv, Types
    <3> QED BY <3>1 DEF Version
  <2>3. ASSUME NEW p \in Procs
        PROVE  /\ procs[p].heard \in 0..signals /\ DOMAIN procs[p].cache \subseteq Keys
               /\ \A k \in DOMAIN procs[p].cache : procs[p].cache[k] \in Version
    <3>1. procs[p] \in Workers /\ WorkerInv(procs[p], Len(history), signals) /\ signals \in Nat
      BY <1>1 DEF CacheInv, Types
    <3>2. procs[p].cache \in Caches /\ procs[p].heard \in Nat
      BY <3>1 DEF Workers
    <3>3. DOMAIN procs[p].cache \subseteq Keys
      BY <3>2 DEF Caches
    <3> QED BY <3>1, <3>2, <3>3 DEF WorkerInv, Version
  <2>4. \A t \in Threads :
          txns[t].phase \in {"idle", "serving", "editing", "written", "unsignalled"}
    BY <1>1, ProcessOf, RequestTypes
  <2> QED BY <2>1, <2>2, <2>3, <2>4 DEF TypeOK
<1> QED BY <1>1, CacheInvariant, PTL

\* The wizard never changes a row that is active when it commits.
THEOREM TheWizardSparesActive == Spec => []WizardSparesActive
<1>1. ASSUME CacheInv PROVE WizardSparesActive
  BY <1>1 DEF CacheInv, Spared, WizardSparesActive, Version, At
<1> QED BY <1>1, CacheInvariant, PTL

-----------------------------------------------------------------------------
(***************************************************************************)
(* Freshness, where each process serves one request at a time.             *)
(***************************************************************************)

\* One thread and its process change, and nobody else's.
LEMMA FreshThread ==
  ASSUME CacheInv, FreshInv, OneThreadEach, NEW t \in Threads,
         NEW y, txns' = [txns EXCEPT ![t] = y],
         NEW w, procs' = [procs EXCEPT ![Home[t]] = w],
         signals' = signals, signalled' = signalled,
         FreshWorker(w, signals, signalled), FreshRequest(y, w, signals, signalled)
  PROVE  FreshInv'
<1>1. \A u \in Threads : txns'[u] = IF u = t THEN y ELSE txns[u]
  BY DEF CacheInv, Types
<1>2. \A p \in Procs : procs'[p] = IF p = Home[t] THEN w ELSE procs[p]
  BY DEF CacheInv, Types
<1>3. \A p \in Procs : FreshWorker(procs'[p], signals', signalled')
  BY <1>2 DEF FreshInv
<1>4. ASSUME NEW u \in Threads
      PROVE  FreshRequest(txns'[u], procs'[Home[u]], signals', signalled')
  <2>1. Home[u] \in Procs
    BY Deployment
  <2>2. CASE u = t
    BY <1>1, <1>2, <2>1, <2>2
  <2>3. CASE u # t
    <3>1. Home[u] # Home[t]
      BY <2>3 DEF OneThreadEach
    <3> QED BY <1>1, <1>2, <2>1, <2>3, <3>1 DEF FreshInv
  <2> QED BY <2>2, <2>3
<1> QED BY <1>3, <1>4 DEF FreshInv

\* What the invariant says of a thread and its process.
LEMMA FreshOf ==
  ASSUME CacheInv, FreshInv, OneThreadEach, NEW t \in Threads
  PROVE  /\ FreshWorker(procs[Home[t]], signals, signalled)
         /\ FreshRequest(txns[t], procs[Home[t]], signals, signalled)
BY ProcessOf DEF FreshInv

\* What a process has cached when a request begins is not older than what was
\* signalled.
LEMMA HearIsFresh ==
  ASSUME CacheInv, FreshInv, OneThreadEach, NEW t \in Threads
  PROVE  \A k \in DOMAIN Hear(procs[Home[t]]).cache : signalled <= Hear(procs[Home[t]]).cache[k]
BY HearKeeps, FreshOf DEF FreshWorker

\* A request begins.
LEMMA BeginServingFresh ==
  ASSUME CacheInv, FreshInv, OneThreadEach, NEW t \in Threads, BeginServing(t)
  PROVE  FreshInv'
<1> DEFINE y == [phase |-> "serving", snap |-> Latest, floor |-> signalled, used |-> {},
                 granted |-> {}]
           w == Hear(procs[Home[t]])
<1>1. /\ txns' = [txns EXCEPT ![t] = y] /\ procs' = [procs EXCEPT ![Home[t]] = w]
      /\ signals' = signals /\ signalled' = signalled
  BY DEF BeginServing
<1>2. signalled <= Latest /\ signalled <= signalled
  BY ProcessOf DEF Latest
<1>3. \A k \in DOMAIN w.cache : signalled <= w.cache[k] /\ w.cache[k] <= Latest
  <2>1. WorkerInv(w, Latest, signals)
    BY HearKeeps, ProcessOf DEF Latest
  <2> QED BY <2>1, HearIsFresh DEF WorkerInv
<1> HIDE DEF w
<1>4. FreshWorker(w, signals, signalled)
  BY <1>3 DEF FreshWorker
<1>5. FreshRequest(y, w, signals, signalled)
  BY <1>2, <1>3 DEF FreshRequest
<1> HIDE DEF y
<1> QED BY <1>1, <1>4, <1>5, FreshThread

\* A request consults a gate: what it sees is cached, or its own snapshot's.
LEMMA ConsultFresh ==
  ASSUME CacheInv, FreshInv, OneThreadEach, NEW t \in Threads, NEW gate \in Gates,
         Consult(t, gate)
  PROVE  FreshInv'
<1> DEFINE x == txns[t]  p == procs[Home[t]]
<1>1. PICK y \in Serving, w \in Workers :
        /\ txns[t] \in Serving
        /\ txns' = [txns EXCEPT ![t] = y] /\ procs' = [procs EXCEPT ![Home[t]] = w]
        /\ y.phase = "serving" /\ y.snap = txns[t].snap /\ y.floor = txns[t].floor
        /\ \A v \in y.used : v \in txns[t].used \/ \E k \in Asked(t, gate) : v = Seen(t, k)
        /\ w.heard = procs[Home[t]].heard
        /\ \A k \in DOMAIN w.cache :
             \/ k \in Asked(t, gate) /\ w.cache[k] = Seen(t, k)
             \/ k \in DOMAIN procs[Home[t]].cache /\ w.cache[k] = procs[Home[t]].cache[k]
  BY Consulted
<1>2. x.phase = "serving" /\ signals' = signals /\ signalled' = signalled
  BY DEF Consult
<1>3. /\ x.floor <= x.snap /\ (p.heard = signals => signalled <= x.floor)
      /\ \A k \in DOMAIN p.cache : x.floor <= p.cache[k] /\ p.cache[k] <= x.snap
      /\ \A v \in x.used : x.floor <= v /\ v <= x.snap
  BY <1>2, FreshOf DEF FreshRequest
<1>4. \A k : x.floor <= Seen(t, k) /\ Seen(t, k) <= x.snap
  <2>1. x.snap <= x.snap
    BY <1>2, ProcessOf DEF RequestInv
  <2> QED BY <1>3, <2>1 DEF Seen
<1>5. \A k \in DOMAIN w.cache : x.floor <= w.cache[k] /\ w.cache[k] <= x.snap
  BY <1>1, <1>3, <1>4
<1>6. FreshRequest(y, w, signals, signalled)
  BY <1>1, <1>3, <1>4, <1>5 DEF FreshRequest
<1>7. ASSUME w.heard = signals, NEW k \in DOMAIN w.cache PROVE signalled <= w.cache[k]
  <2>1. /\ signalled \in Nat /\ x.floor \in Nat /\ w.cache[k] \in Nat
    <3>1. x.floor \in 1..Len(history) /\ signalled \in 1..Len(history)
      BY <1>2, ProcessOf DEF RequestInv
    <3>2. w.cache[k] \in Nat
      BY <1>7 DEF Workers, Caches
    <3> QED BY <3>1, <3>2
  <2>2. signalled <= x.floor /\ x.floor <= w.cache[k]
    BY <1>1, <1>3, <1>5, <1>7
  <2> QED BY <2>1, <2>2
<1>8. FreshWorker(w, signals, signalled)
  BY <1>7 DEF FreshWorker
<1> QED BY <1>1, <1>2, <1>6, <1>8, FreshThread

\* Nothing is said of a request that is idle or editing.
LEMMA QuietRequests ==
  ASSUME NEW y, y.phase = "idle" \/ y.phase = "editing", NEW w
  PROVE  FreshRequest(y, w, signals, signalled)
BY DEF FreshRequest

\* A job writes and clears its worker's cache.
LEMMA WriteFresh ==
  ASSUME CacheInv, FreshInv, OneThreadEach, NEW t \in Threads, Write(t)
  PROVE  FreshInv'
<1> DEFINE y == [phase |-> "written", writes |-> Changes(Job(t), Base(t)), by |-> Job(t).kind]
           p == procs[Home[t]]
           z == Cleared(p)
           nothing == Job(t).kind = "wizard" /\ Written(t) = {}
<1>1. /\ txns' = [txns EXCEPT ![t] = IF nothing THEN Idle ELSE y]
      /\ procs' = [procs EXCEPT ![Home[t]] = IF nothing THEN p ELSE z]
      /\ signals' = signals /\ signalled' = signalled
  BY DEF Write
<1>2. CASE nothing
  <2>1. FreshRequest(Idle, p, signals, signalled) /\ FreshWorker(p, signals, signalled)
    BY QuietRequests, FreshOf DEF Idle
  <2>2. txns' = [txns EXCEPT ![t] = Idle] /\ procs' = [procs EXCEPT ![Home[t]] = p]
    BY <1>1, <1>2
  <2> QED BY <1>1, <2>1, <2>2, FreshThread
<1>3. CASE ~nothing
  <2>1. txns' = [txns EXCEPT ![t] = y] /\ procs' = [procs EXCEPT ![Home[t]] = z]
    BY <1>1, <1>3
  <2>2. DOMAIN z.cache = {}
    <3>1. p \in Workers /\ z = [p EXCEPT !.cache = NoCache]
      BY ProcessOf DEF Cleared
    <3> HIDE DEF p, z
    <3> QED BY <3>1, NoCacheIsCache DEF Workers
  <2>3. FreshWorker(z, signals, signalled) /\ FreshRequest(y, z, signals, signalled)
    BY <2>2 DEF FreshWorker, FreshRequest
  <2> HIDE DEF y, z
  <2> QED BY <1>1, <2>1, <2>3, FreshThread
<1> QED BY <1>2, <1>3

\* A commit leaves the caches; its own worker's stays empty until the signal.
LEMMA CommitFresh ==
  ASSUME CacheInv, FreshInv, OneThreadEach, NEW t \in Threads, Commit(t)
  PROVE  FreshInv'
<1> DEFINE y == [phase |-> "unsignalled", version |-> Len(history')]  w == procs[Home[t]]
<1>1. /\ txns[t].phase = "written" /\ txns' = [txns EXCEPT ![t] = y] /\ procs' = procs
      /\ signals' = signals /\ signalled' = signalled
  BY DEF Commit
<1>2. FreshWorker(w, signals, signalled) /\ procs' = [procs EXCEPT ![Home[t]] = w]
  BY <1>1, FreshOf, ProcessOf
<1>3. DOMAIN w.cache = {}
  BY <1>1, FreshOf DEF FreshRequest
<1>4. FreshRequest(y, w, signals, signalled)
  BY <1>3 DEF FreshRequest
<1> HIDE DEF y, w
<1> QED BY <1>1, <1>2, <1>4, FreshThread

\* A signal: no other process has heard it, and the sender's cache is empty.
LEMMA SignalFresh ==
  ASSUME CacheInv, FreshInv, OneThreadEach, NEW t \in Threads, Signal(t)
  PROVE  FreshInv'
<1> DEFINE w == [procs[Home[t]] EXCEPT !.heard = signals + 1]
<1>1. /\ txns[t].phase = "unsignalled" /\ txns' = [txns EXCEPT ![t] = Idle]
      /\ procs' = [procs EXCEPT ![Home[t]] = w] /\ signals' = signals + 1
  BY DEF Signal
<1>2. DOMAIN w.cache = {}
  <2>1. DOMAIN procs[Home[t]].cache = {} /\ procs[Home[t]] \in Workers
    BY <1>1, FreshOf, ProcessOf DEF FreshRequest
  <2> QED BY <2>1 DEF Workers
<1> HIDE DEF w
<1>3. \A u \in Threads : txns'[u] = IF u = t THEN Idle ELSE txns[u]
  BY <1>1 DEF CacheInv, Types
<1>4. \A p \in Procs : procs'[p] = IF p = Home[t] THEN w ELSE procs[p]
  BY <1>1 DEF CacheInv, Types
<1>5. \A p \in Procs : p # Home[t] => procs'[p] = procs[p] /\ procs[p].heard # signals'
  <2>1. ASSUME NEW p \in Procs PROVE procs[p].heard # signals + 1
    <3>1. procs[p] \in Workers /\ WorkerInv(procs[p], Len(history), signals) /\ signals \in Nat
      BY DEF CacheInv, Types
    <3>2. procs[p].heard \in Nat /\ procs[p].heard <= signals
      BY <3>1 DEF Workers, WorkerInv
    <3> QED BY <3>1, <3>2
  <2> QED BY <1>1, <1>4, <2>1
<1>6. \A p \in Procs : FreshWorker(procs'[p], signals', signalled')
  BY <1>2, <1>4, <1>5 DEF FreshWorker
<1>7. ASSUME NEW u \in Threads
      PROVE  FreshRequest(txns'[u], procs'[Home[u]], signals', signalled')
  <2>1. CASE u = t
    BY <1>3, <2>1 DEF FreshRequest, Idle
  <2>2. CASE u # t
    <3>1. Home[u] # Home[t] /\ Home[u] \in Procs
      BY <2>2, Deployment DEF OneThreadEach
    <3>2. /\ procs'[Home[u]] = procs[Home[u]] /\ procs[Home[u]].heard # signals'
          /\ txns'[u] = txns[u] /\ FreshRequest(txns[u], procs[Home[u]], signals, signalled)
      BY <1>3, <1>5, <2>2, <3>1, FreshOf
    <3> QED BY <3>2 DEF FreshRequest
  <2> QED BY <2>1, <2>2
<1> QED BY <1>6, <1>7 DEF FreshInv

\* The death of a worker takes its requests and its cache.
LEMMA CrashFresh ==
  ASSUME CacheInv, FreshInv, OneThreadEach, NEW p \in Procs, Crash(p)
  PROVE  FreshInv'
<1> DEFINE w == [cache |-> NoCache, heard |-> signals]
<1>1. /\ procs' = [procs EXCEPT ![p] = w] /\ signals' = signals /\ signalled' = signalled
      /\ txns' = [t \in Threads |-> IF Home[t] = p THEN Idle ELSE txns[t]]
  BY DEF Crash
<1>2. DOMAIN w.cache = {}
  BY NoCacheIsCache
<1> HIDE DEF w
<1>3. \A q \in Procs : procs'[q] = IF q = p THEN w ELSE procs[q]
  BY <1>1 DEF CacheInv, Types
<1>4. \A q \in Procs : FreshWorker(procs'[q], signals', signalled')
  BY <1>1, <1>2, <1>3 DEF FreshInv, FreshWorker
<1>5. ASSUME NEW u \in Threads
      PROVE  FreshRequest(txns'[u], procs'[Home[u]], signals', signalled')
  <2>1. Home[u] \in Procs
    BY Deployment
  <2>2. CASE Home[u] = p
    <3>1. txns'[u] = Idle
      BY <1>1, <2>2
    <3> QED BY <3>1 DEF FreshRequest, Idle
  <2>3. CASE Home[u] # p
    <3>1. txns'[u] = txns[u] /\ procs'[Home[u]] = procs[Home[u]]
      BY <1>1, <1>3, <2>1, <2>3
    <3> QED BY <1>1, <3>1, FreshOf
  <2> QED BY <2>2, <2>3
<1> QED BY <1>4, <1>5 DEF FreshInv

\* Every step keeps the caches fresh.
LEMMA FreshStep ==
  ASSUME CacheInv, FreshInv, [Next]_vars
  PROVE  FreshInv'
<1>1. CASE ~OneThreadEach
  BY <1>1 DEF FreshInv
<1>2. CASE OneThreadEach
  <2> USE <1>2
  <2>1. ASSUME NEW t \in Threads, BeginServing(t) \/ Write(t) \/ Commit(t) \/ Signal(t)
        PROVE  FreshInv'
    BY <2>1, BeginServingFresh, WriteFresh, CommitFresh, SignalFresh
  <2>2. ASSUME NEW t \in Threads, NEW gate \in Gates, Consult(t, gate) PROVE FreshInv'
    BY <2>2, ConsultFresh
  <2>3. ASSUME NEW t \in Threads, EndServing(t) \/ Refuse(t) PROVE FreshInv'
    <3>1. /\ FreshRequest(Idle, procs[Home[t]], signals, signalled)
          /\ FreshWorker(procs[Home[t]], signals, signalled)
      BY QuietRequests, FreshOf DEF Idle
    <3>2. /\ txns' = [txns EXCEPT ![t] = Idle]
          /\ procs' = [procs EXCEPT ![Home[t]] = procs[Home[t]]]
          /\ signals' = signals /\ signalled' = signalled
      BY <2>3, ProcessOf DEF EndServing, Refuse
    <3> QED BY <3>1, <3>2, FreshThread
  <2>4. ASSUME NEW t \in Threads, NEW job \in Jobs, BeginEdit(t, job) PROVE FreshInv'
    <3> DEFINE y == [phase |-> "editing", job |-> job, snap |-> Latest]
               w == Hear(procs[Home[t]])
    <3>1. /\ y.phase = "editing" /\ txns' = [txns EXCEPT ![t] = y]
          /\ procs' = [procs EXCEPT ![Home[t]] = w]
          /\ signals' = signals /\ signalled' = signalled
      BY <2>4 DEF BeginEdit
    <3>2. FreshWorker(w, signals, signalled)
      BY HearIsFresh DEF FreshWorker
    <3> HIDE DEF y, w
    <3>3. FreshRequest(y, w, signals, signalled)
      BY <3>1, QuietRequests
    <3> QED BY <3>1, <3>2, <3>3, FreshThread
  <2>5. ASSUME NEW t \in Threads, Rerun(t) PROVE FreshInv'
    <3> DEFINE x == txns[t]  y == [x EXCEPT !.snap = Latest]
    <3>1. /\ x.phase = "editing" /\ txns' = [txns EXCEPT ![t] = y]
          /\ procs' = [procs EXCEPT ![Home[t]] = procs[Home[t]]]
          /\ signals' = signals /\ signalled' = signalled
      BY <2>5, ProcessOf DEF Rerun
    <3>2. x \in Editing
      BY <3>1, ProcessOf, RequestTypes
    <3> HIDE DEF x
    <3>3. y.phase = "editing"
      BY <3>1, <3>2 DEF Editing
    <3> HIDE DEF y
    <3>4. FreshRequest(y, procs[Home[t]], signals, signalled)
      BY <3>3, QuietRequests
    <3>5. FreshWorker(procs[Home[t]], signals, signalled)
      BY FreshOf
    <3> QED BY <3>1, <3>4, <3>5, FreshThread
  <2>6. ASSUME NEW p \in Procs, Crash(p) PROVE FreshInv'
    BY <2>6, CrashFresh
  <2>7. CASE UNCHANGED vars
    BY <2>7 DEF vars, FreshInv
  <2> QED BY <2>1, <2>2, <2>3, <2>4, <2>5, <2>6, <2>7 DEF Next
<1> QED BY <1>1, <1>2

\* The caches start empty.
LEMMA FreshInit ==
  ASSUME Init
  PROVE  FreshInv
<1>1. \A p \in Procs : DOMAIN procs[p].cache = {}
  BY NoCacheIsCache DEF Init
<1>2. \A t \in Threads : txns[t] = Idle
  BY DEF Init
<1> QED BY <1>1, <1>2 DEF FreshInv, FreshWorker, FreshRequest, Idle

\* Where every process serves one request at a time, no request uses an answer
\* older than the newest change signalled when it began or newer than its snapshot.
THEOREM PreforkReadsAreRegular == Spec => [](OneThreadEach => ReadsAreRegular)
<1>1. ASSUME CacheInv, FreshInv PROVE OneThreadEach => ReadsAreRegular
  <2> SUFFICES ASSUME OneThreadEach, NEW t \in Threads, txns[t].phase = "serving",
                      NEW v \in txns[t].used
               PROVE  v \in txns[t].floor..txns[t].snap
    BY DEF ReadsAreRegular
  <2>1. txns[t].floor <= v /\ v <= txns[t].snap
    BY <1>1, FreshOf DEF FreshRequest
  <2>2. txns[t].floor \in Nat /\ txns[t].snap \in Nat /\ v \in Nat
    BY <1>1, ProcessOf DEF RequestInv
  <2> QED BY <2>1, <2>2
<1>2. CacheInv /\ FreshInv /\ [Next]_vars => FreshInv'
  BY FreshStep
<1>3. Spec => []FreshInv
  BY FreshInit, <1>2, CacheInvariant, PTL DEF Spec
<1> QED BY <1>1, <1>3, CacheInvariant, PTL
=============================================================================
