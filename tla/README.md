# Verification of the MCP server for Odoo

TLA+ models of the repository's own logic, TLC runs over small instances of
them, and TLAPS proofs for every instance. Paths below are relative to the
repository; `oauth_token.py` and its like are under `src/mcp_server/`.

## 1. The system

The repository is a set of Odoo 19 add-ons. `mcp_server` carries nearly all the
logic: an MCP (JSON-RPC) endpoint on an Odoo database, behind API keys or an
OAuth 2.1 authorization server of its own. Beside it are a client portal, a
live-chat agent, a payroll helper and a static website.

| Component | State | Operations | Hard part | Correct means | Model |
|---|---|---|---|---|---|
| OAuth authorization server (`controllers/oauth_server.py`, `models/oauth_{client,authorization_code,token}.py`, the cron job) | three tables: clients, single-use codes, token pairs in refresh families | register, authorize, redeem, refresh, replay detection, revoke, switch off and on, daily collection | long histories; concurrent requests; a collector that deletes evidence | one live token per family; a replay always finds its family; nobody's scope rises; nothing usable is deleted | `OAuthGrant`, `OAuthTxn`, `GrantChain` |
| Request limiter (`controllers/rate_limiting.py`) | a dict of buckets of time stamps per process | count, hit, is_limited, amortized sweep | check and record are two locked steps; sweep rebuilds the table | no live stamp lost; bounded overshoot; no leak | `SlidingWindow` |
| JSON-RPC endpoint, `tools/call`, audit log (`controllers/mcp.py`, `controllers/audit.py`, `models/mcp_log.py`) | the request's transaction, audit rows on it and on cursors of their own, three limiters | gates in order, tool in a savepoint, rerun, commit | two cursors; reruns; crash before the commit | a call is all or nothing; the log tells the truth | `McpCall`, `AtomicCalls` |
| Doors (`models/ir_http.py`, `controllers/auth.py`, `mcp_dispatcher.py`) | the request's user; two limiters of failures per address | API key, then OAuth token; audience, user and client checks; origin and version; throttled failure audit | order of the doors; revocation before a rerun; two caps on one row | nobody is served on what is no longer in force; a failure's row goes untried only in a flood | `Door` |
| Access gates and configuration (`models/mcp_enabled_models.py`, `controllers/utils.py`, `models/res_config_settings.py`, wizard) | enabled models and switches, cached per worker process | edit, bulk enable, read through the cache | stale caches across workers; colliding editors | no answer older than the last change signalled before the request | `ConfigCache` |
| Tools, custom tools, resources (`models/mcp_mixin.py`, `mcp_tools_*.py`, `mcp_custom_tool.py`, `tools/`) | none of their own | search, read, aggregate, write, call a method, read a resource, run an action | limit and offset arithmetic over a changing table; many paths to a record | pages account for every record; every path asks the gate of its moment | `Tools` |
| Legacy REST and XML-RPC (`controllers/main.py`, `api.py`) | none of their own | gates, limiter, proxied call, audit row | the call and its row commit on different cursors, with errors and crashes between | no row of a success that never was; no call without a row but for a failed write or commit | `Door` |
| Log retention (`models/mcp_log.py`) | log rows, the cron job's record | log, clean up in batches, create the job | batches among new rows; workers that boot | exactly the expired rows go; a job switched off stays off | `LogRetention` |
| Client portal (`ab_client_portal`) | tasks in stages, quotes | create, edit, submit, triage, approve, move | editable check and write race; triage swallows errors inside the submit | text frozen while the request does not show as a draft; one submission | `ClientPortal` |
| Live-chat agent (`ai_livechat_agent`) | channel messages | answer a visitor | `message_post` calls itself | it answers visitors, once, and never itself | `Livechat` |
| Payslip hours (`hr_timesheet_payslip`) | payslip lines | recompute | repeated recomputation, hand-made changes | one line, with the hours summed last | `Payslip` |
| Website (`agentic_brain_website`) | none | none | none | none | not modelled |

How they interact. Every `/mcp` request goes door, global switch, envelope, limiter,
gates, tool, and each stage may write an audit row. The door reads the
authorization server's token, user and client rows. The gates read the cached
configuration. The framework (Odoo, external) runs a handler in one REPEATABLE
READ transaction, commits after it, and runs it again after a concurrency error
(`service.model.retrying`). The collector is a cron job, one run at a time.
The hazards this leads to are listed in `PROJECT.json` at their lines.

## 2. Modules

Names with a suffix after an underscore (`GrantedScope_TickOnly`) are plausible slips of
the definition that follows them. No specification uses them; putting one in
place of its original must make a property fail, which shows that the property
sees the code.

### `OAuthGrant`: the authorization server's tables

One action is one committed transaction. `clients`, `codes`, `tokens` are the
three tables as functions from row names to rows; a secret is represented by its
row's name, since the code stores only hashes of random values and looks rows up
by hash. `now` is the clock, `minted` the history of names handed out.

| Action | Code |
|---|---|
| `Register`, `Provision` | dynamic registration; a client entered by hand |
| `Authorize` | the consent POST: scope from request, owner's tick and registration |
| `RedeemCode`, `ReplayCode` | `_AuthorizationCodeGrant`; `_detect_reuse` |
| `RefreshToken`, `ReplayRefresh` | `_RefreshTokenGrant`; `_detect_refresh_reuse` |
| `AdminRevoke`, `SwitchClient`, `SwitchUser`, `DeleteUser` | the administrator; deletes cascade as the foreign keys say |
| `GC` | `_gc_oauth`: codes, tokens, abandoned dynamic clients, with the cascade |

Requests that are refused without a database change are stuttering steps. PKCE, redirect URIs
and client secrets decide only whether a request is refused; the actions are
enabled for every outcome of these checks that lets the request through.

### `GrantChain`: what a refresh family promises

A family is a chain of credentials with at most one holder. It is founded by a
redeemed code, handed to a token never seen before, or lost for good. Nothing
here about tables, codes or time. `OAuthGrant` and `OAuthTxn` implement it under
the mapping `HolderOf`: the holder of a family is its unrevoked token.

### `OAuthTxn`: the same handlers as racing transactions

`OAuthGrant` takes each handler as one step; `OAuthTxn` justifies that. A worker's transaction has a
snapshot, a reading of the clock, and the row locks it has taken, one at a
time and in the code's order. A grant locks the code or token presented, and when it saves
the new token, by its foreign key, the client: shared with other grants, exclusive of the client's deletion
(`Clash`). The collector takes aged codes, then aged tokens, then stale clients, and with each client
whatever refers to it, which the foreign keys delete along (`Dependents`). Locking a
row that changed since the snapshot is a serialization failure, and so is the deletion of a client that a
row refers to which the collector's snapshot does not have (`Missed`). The request
then starts again, `MaxTries` times. An administrator revokes one token from its form or a
selection from the list (`Jobs`), whose rows are locked in any order. Transactions that wait in a circle
(`Circle`) are what the database calls a deadlock; it fails one of them (`Victim`), which runs
again like any other conflict. This is PostgreSQL's REPEATABLE READ, Odoo's
isolation level. (Comments in `oauth_token.py` argue with READ COMMITTED's
re-evaluation of a locked row; under REPEATABLE READ the second redeemer gets an
error and a rerun instead. The result is the same, and depends on `token()`
re-raising the error.)

### `SlidingWindow`: the limiter

Threads call `count` (`Pass`, `Refuse`) and later `hit` (`Hit`), each under the lock,
with any steps of others between. Buckets are sets of numbered stamps: the code
only filters its lists by age and takes their length.

### `McpCall` and `AtomicCalls`: one process serving `POST /mcp`

A call passes the switch, the envelope, the limiter and the gates (`Disabled`,
`Malformed`, `OverLimit`, `Plain`, `Gated`, `Enter`), writes record by record in its
transaction (`Write`), meets conflicts (`Conflict`), succeeds or fails in its savepoint
(`ToolSucceeds`, `ToolFails`), and is committed (`Commit`). A record's value is the set
of calls whose writes it holds, so lost, doubled and partial writes show.
A row on the request's cursor is the flag `row` until `Commit`; a row on a cursor of its
own goes to `log` at once, unless throttled or failing (`Audited`). `Crash` ends the
process at any point. `AtomicCalls` is what a client may rely on: a call happens as a
whole and once, or not at all, and the answer says which. The limiters are
counters that go down nondeterministically; the race inside them is
`SlidingWindow`'s. What a savepoint, a lock wait, a deadlock victim and a
rerun do is external: PostgreSQL and Odoo.

### `ConfigCache`: configuration through per-process caches

A configuration is one function over the switches and the enabled models, and
`history` lists the committed ones, so a cached answer is a version number. A request takes
its snapshot and hears signals (`BeginServing`), asks gates in the code's order
(`Consult`: each look-up a hit in its process's cache or a fill from its snapshot), and ends.
An administrator's request (settings form, row form, wizard) writes and clears its own
cache (`Write`: `set_values` and `_invalidate_mcp_caches` clear inside the transaction),
commits, and signals, three steps with anything between. Odoo's ormcache, signals and reruns
are external. A form writes all its fields, so it may undo what another form changed;
that is the ORM's last-writer rule and nothing in the code speaks of it.

### `Door`: what a request meets first

Every endpoint is a row of gates (`Route`). A gate reads credentials in the request's
snapshot (`World`) and configuration through the cache (`Cached`: any version from the last one
signalled before the request to its snapshot). That is what `ReadsAreRegular` says of
`ConfigCache`, word for word `floor..snap`, and what `PreforkReadsAreRegular` proves for processes of one thread. `Bearer` is `/mcp`'s, `Key` that of the decorated REST
endpoints, `Identify` names the user an XML-RPC call is counted for; the others only pass or refuse.
A proxied call and its row take three steps that anything may come between: `Dispatch` makes the call, which
commits by itself, and may raise even so; `Log` writes the row on the request's cursor, or fails to; `Return` commits the
request, or fails to. What has committed outlives the request in the ledger `made` and `entries`; `lost` is the
history of calls whose row could not be written or committed, by an error or by `Crash`. A failure's row has a
`fate`: written on a cursor of its own, tried and swallowed (logging off, or the write failed), or throttled. `Rerun` is `service.model.retrying`: the whole request again, door
included. A request let in at `/mcp` goes on in `McpCall`.

### `Tools`: the tools, call after call

A call is one step (that it is one is `McpCall`'s subject); other users insert and delete records
and an administrator changes limits, permissions and the custom tool between calls.
`SearchPage` and `GroupsPage` are the two ways the code decides on a next page;
`EffectiveLimit`, `EffectiveOffset` and `Bounds` its arithmetic, nonsense settings included.
An answer records its effects as pairs of what was touched and how, and
`NoEffectWithoutItsGate` holds them against the permissions of that moment.

### `LogRetention`, `ClientPortal`, `Livechat`, `Payslip`

`LogRetention` runs the cleanup as a transaction of batches beside logging, settings
and booting workers. `ClientPortal` runs edits, submissions, approvals and moves of
one request as transactions on its row: `Check` decides in a snapshot, `WriteRow` takes the row
or finds it changed, `Triage` calls the model inside a submission and swallows what goes
wrong. The ORM may hold back a submission's write until after the call (phase `late`).
`Livechat` follows one post through `message_post` as it re-enters itself. `Payslip`
recomputes a slip between hand-made changes and timesheet edits. `Addons` puts these four and `Tools`
side by side: they share no state the properties are about, so each behaviour exercises
one of them, its `subject`, and is a behaviour of each (`EachAsIfAlone`).

## 3. Runs

| Run | Instance | Shows |
|---|---|---|
| `grant_safety` | 1 client, 1 user, 2 codes, 3 tokens, clock 0..3 | `OneLivePerFamily`, `LiveFamilyIsGuarded`, `NeverUpscoped`, `CollectionSparesLiveTokens`, the inductive `GrantInv`, and that the handlers implement `GrantChain` (`HandsOver`) |
| `grant_live` | 1 code, 2 tokens, clock 0..4, fairness | `SpentIsCollected`: guard codes, tokens and abandoned clients go in the end |
| `txn_races` | 2 workers, 1 client, 1 code, 3 tokens, 3 tries, every lifetime 1, clock 0..2 | concurrent redemption never forks a family; a replay racing a rotation still kills the family (`SpentMeansDead`); `HandsOver` again, with no atomicity assumed; a set of transactions that all wait for each other contains an administrator's revocation of several tokens, or the collector deleting a client under a grant (`CirclesHaveACause`), and once the database fails one, work goes on (deadlock is checked) |
| `limiter_races` | 3 threads, 2 keys, cap 2, window 2, clock 0..4 | `NothingLiveIsLost`, `OvershootIsBounded`, `NoLingering` |
| `call_races` | 2 calls of 13 kinds, 2 records, 2 runs each, every limiter at 1 | `CallsAreAtomic` (implements `AtomicCalls`), `AuditIsTrue`, `ConflictIsNoFailure`, `ArgumentsStayHidden` |
| `config_cache` | 2 processes of 1 thread, 1 switch, 1 model in any state, 2 edits of every kind, crashes | `ReadsAreRegular`, `WizardSparesActive` |
| `door` | 1 thread, 2 users, 5 credentials of every kind, every endpoint, 1 change of any item, 1 proxied call, 2 runs of a request, failure cap 2 | `RevokedIsRefused`, `LegacyLogIsTrue`, `CountedOnce`, `SilenceMeansFlood` |
| `addons` | tools: 4 records in 3 groups, limits 1 and 2, 2 moves of others, 1 edit, 5 pages; log: 3 rows, batches of 1, 3 days; portal: 2 sessions, 3 commits after the creation; chat: 2 posts; payslip: 2 timesheet lines | `WalkIsAccounted`, `HintsLeadToRows`, `NoEffectWithoutItsGate`, `BatchIsWhole`, `CleanupIsExact`, `ClientContentFrozen`, `OncePerSubmission`, `OneAnswerPerComment`, `HoursAreSheets` |

Why the bounds are enough. Two codes give two families to confuse; three tokens give a
family two rotations, so there is a token that is rotated, and not the last.
The clock passes every expiry and the boundary `expiry = now`. In `txn_races`
a rotation, its replay and the collector need three tokens and two workers; with every lifetime 1, the client grows
stale while its code or token is being redeemed by a worker whose clock was read before, which closes the circle of collector and grant;
three tries leave one to spare, which `SpentMeansDead` asks for. Three threads
separate "one more than the cap" from "one more per thread"; five instants hold two
windows, which `NoLingering` is about. Two calls over two records make lost
updates and deadlocks; a third would only wait. Symmetry is over names that
no definition tells apart, and in no liveness run. `call_races` does not check for deadlock, because each
caller sends one request and then is done. In `config_cache` two edits are needed for
a form or wizard to undo another, and one thread per process is the prefork deployment for which the
regular read is promised (`stale_served` is the other). In `door` one change
can fall at any gate and between any two runs, and one proxied call is one too many for a crash or an error between its two
commits; more threads would share only the limiters, whose
races are `SlidingWindow`'s. In `addons` four records make two full pages and a remainder
under each limit, and an offset cap that is reached; two moves put one insertion
and one deletion around a page; batches of one make the cleanup loop; two portal sessions and
three commits make an edit, a submission and a rerun overtake each other. Deadlock
is not checked there, because log, portal and chat come to an end at their bounds.

Runs that end in a violation each check one sentence of a comment against the
code; the sentence and the line are in `PROJECT.json` under `findings`.

| Run | What the counterexample shows |
|---|---|
| `txn_guard` | liveness is `expiry > now`, collection `expiry < now`. A token exactly at its expiry is neither, so a collector and a rotation that read the clock around that instant share no row; both commit, and the family lives on without the code a replay would match. The client must not be due for deletion then: another of its tokens is live, or it was registered by hand |
| `stale_served` | in a process of two threads, a request that was open across the switch-off fills the cleared cache from its old snapshot; its process does not hear its own signal and goes on granting, though `_invalidate_mcp_caches` says that a flipped switch stops being served everywhere on the next request |
| `cron_comes_back` | the hook that creates the cleanup job does not see an archived one, so a job that was switched off has an active twin after the next registry load, though its docstring says that it must not revert that |
| `payslip_override` | the amount an officer put in is replaced by the timesheet's when the sheet is computed again, which is how the README tells them to price it |

Other disagreements of code and text, found while modelling and not checked by a run:

* `_gc_oauth` deletes a rotated token of a living family once its own expiries pass; its replay
  then revokes nothing, though the head of `oauth_token.py` (8-9) says a rotated
  token can be traced to its chain.
* A dynamic client past its retention without live token is deleted with the code
  it has just been issued, though `_gc_oauth` (`oauth_token.py:310`) leaves "anything still usable" untouched.
* A client registered with scope `openid` is granted `mcp:read`, though `authorize`
  (`oauth_server.py:933`) says the scope never exceeds the registration.
* A tool call whose last permitted run meets a conflict leaves no audit row, though
  `_tools_call` (`mcp.py:702`) audits every call and expects the retried attempt to write it.
* At the offset cap `search_records` keeps hinting at the same page: the hint's offset is
  clamped back. `WalkIsAccounted` therefore excepts walks that reached the cap.
* With a negative `max_limit` the read tools fall back to the default and
  `call_model_method`, which says it reuses their cap (`mcp_tools_write.py:571`), refuses every list of ids.
* An approval looks at no stage: a request can be approved twice, with two quotes. No text says otherwise.

### Fairness

`grant_live` assumes weak fairness of `Tick` (time passes) and of `GC`: `data/oauth_cron.xml` schedules the job
daily and Odoo runs due jobs again and again. Nothing is assumed of clients, users or
administrators, so promises stay conditional on what they do: a collected
client may get a live token first, which is the way out `SpentIsCollected`
grants it.

## 4. Proofs

Proved by TLAPS, for all values of the constants that satisfy the named `ASSUME`s of the
modules, which TLC evaluates in the runs.

| Module | Theorems |
|---|---|
| `GrantChainProofs` | `ChainNeverComesBack`: in `GrantChain` neither a family nor a token comes back after losing its place. With the refinements this holds of the server too |
| `OAuthGrantProofs` | `GrantInvariant`; `TypeCorrect`, `OneLiveTokenPerFamily`, `LiveFamiliesAreGuarded`, `WriteNeedsRegistration`, `CollectorSparesLiveTokens`; `ImplementsChain`; `RevocationIsForGood`; `SpentWaitsForTheCollector` |
| `OAuthTxnProofs` | `TxnInvariant`; `TxnTypeCorrect`, `FamiliesNeverFork`, `ReplaysEndFamilies`; `RacesImplementChain`, `RevocationStaysUnderRaces`; `WaitInvariant`, `DeadlocksHaveACause`, `SomebodyGoesOn` |
| `SlidingWindowProofs` | `LimiterInvariant`; `LimiterTypeCorrect`, `CountsAreExact`, `RaceOvershootsByThreads`, `NoKeyLingers` |
| `McpCallProofs` | `CallInvariant`; `CallTypeCorrect`, `AuditTellsTheTruth`, `ConflictsAreRetried`, `DeniedLearnNothing`; `CallsImplementAtomic` |
| `DoorProofs` | `DoorInvariant`; `DoorTypeCorrect`, `TheRevokedAreRefused`, `TheLegacyLogIsTrue`, `FailuresAreCountedOnce`, `OnlyFloodsSilence` |
| `ConfigCacheProofs` | `CacheInvariant`; `CacheTypeCorrect`, `TheWizardSparesActive`, `PreforkReadsAreRegular` |
| `AddonsProofs` | `ToolsInvariant`; `WalksAreAccounted`, `HintsLeadSomewhere`, `EffectsAreGated`, `BatchesAreWhole`; `CleanupsAreExact`; `SubmittedTextIsFrozen`, `SubmissionsHappenOnce`; `ChatsDoNotLoop`; `SlipsStaySheets`; the types of each (`ToolsTypes`, `RetentionTypes`, `PortalTypes`, `LivechatTypes`, `PayslipTypes`); and of `Addons`, `EachAsIfAlone`, `AddonsTypes`, `AddonsKeepTheirWord` |

`PROJECT.json` says which property of a run each theorem states. Each proof has one lemma per
action, or per kind of step that several actions share, then a case split over `Next`, then PTL.

### Why the invariants are what they are

`GrantInv`. That a live family has its code does not follow from itself: a
rotation copies client, user, scope and audience from the old token, so it must be known that
every token of a family, live or not, carries the code's grant and that no two codes name one
family (`FamiliesMatchCodes`); a new family's name must be fresh (`RowsAreMinted`); cascades
must take a family's code and tokens together (`KeysResolve`); and `NeverUpscoped` needs the same
of codes (`CodesNeverUpscoped`). The refinement proof shows that a step under `GrantInv` founds a
family (`RedeemFounds`), hands one on (`RefreshHands`), or makes some lose their holder
(`LosingStep`, the common shape of revocation, deletion and collection).

What implementing `GrantChain` means for the tables is said once more without it: `SpentForGood` says that
no step makes a token good again, or gives one to a family that has none. It follows from the refinement step in
both modules.

`SpentWaitsForTheCollector` is the half of `SpentIsCollected` that needs no fairness. Each row only ages
(`RowsAge`: time passes, expiries are fixed, a revoked token stays so, an expired code is not touched again, a token
of a family seen before comes from a live one of it), so what is due to the collector stays due until a run takes it.
A client may instead get a live token. What is left to TLC is that a run comes.

`LimiterInv`. The overshoot bound needs the callers between the two steps counted in
(`PassersFit`): the last of them passed when the live stamps were below the cap, and every other
passer is another thread. `NoLingering` needs that each bucket had a live stamp at the last sweep
(`BucketsWereSwept`).

`TxnInv`. A worker decides on its snapshot and writes on the tables of now. What makes that safe
is said in three parts: a row that a worker holds is as its snapshot has it, so what it decided on
still stands; nobody else holds it; and between a snapshot and now tables only grow more spent (used
codes stay used, revoked tokens revoked), so a replay that was seen in a snapshot is a replay still.
`ReplaysEndFamilies` also needs that a token younger than the snapshot took over from one that was live
there (`TakesOver`): a collector or replay that holds a family's live token of its snapshot therefore meets
every later one. And it needs what a worker presented: something handed out, spent in its snapshot if refused
there (`Presents`).

`WaitInv`. No snapshot shows two live tokens of one family, one worker at most collects, and what a worker holds it took in
order (`InOrder`). So a replay needs one row, the one live token of the family it betrays (`NeedsOneRow`), and a grant two, of which the second
is a client that only the collector excludes it from. Who waits while others wait for it holds a row and is due another. Without a
revocation of several tokens that is the collector, or a grant that waits for the collector; of two that follow each other in a
circle one is either, so the two wait for each other (`StuckHasACause`). The slip of `Needs` in which a replay writes the family's spent rows,
too, breaks just this. The circle of collector and grant is no artefact: TLC reaches it in the instance of `txn_races`. With the order of
locks (`SomethingIsDue`) it follows that while there is work some worker has its rows or its next one free, or one of the two causes is at
hand (`SomebodyGoesOn`), and then the database makes one of them run again.

`CallInv`. A locked record is held by the call that wrote it and still as that call read it
(`LocksCoverWrites`). A call about to commit has all of its writes or none, as its answer is going to say
(`InCommit`). Each phase fixes which audit rows there can be: none while a rerun is possible, none beside the
success row that waits for the commit, at most one after (`Logged`). Committed writes stay (`WritesStay`).

`DoorInv`. A request is at a gate of its own endpoint's route, what admitted it is good in its
snapshot, it has a proxied call from `Dispatch` on and never two (`Shape`), and its failures are in the window as often as
it says. What its reply and its row tell of that call is so, and once it is past `Log` it has a row or its call is among the lost (`CallTrue`):
that is what makes `LegacyLogIsTrue`, which looks only at what the database keeps, hold when the request ends, well or badly. The window never
exceeds what the limiters allow, whence a row that is not even tried means that it is full.

`CacheInv`. Caches, snapshots and signals name committed versions. An item keeps its value between two
versions unless one of them wrote it (`Framed`), and no two open edits write one item (`Apart`): so the rows that
a wizard saw inactive and wrote are inactive still when it commits. `PreforkReadsAreRegular` adds that a process
that has heard every signal has nothing cached older than the newest version signalled, and nothing newer than
the snapshot of the request it serves. It is about deployments with one thread per process
(`OneThreadEach`): there no request is open when its process clears its cache, so every cached answer is
at least as new as the last signal heard, and was filled from a snapshot no later than the request's. With more threads it is false, which is what
`stale_served` shows.

`ToolsInv`. A walk is at a place in a list whose items come and go on both sides of it. The
invariant (`Accounted`) counts both sides: unseen items before the place are no more than
left, and seen items behind it, with those already seen twice, no more than came. It rests on `Crossing`: when a
list changes, no more old items are pushed over a place than new ones come in before it. `PageItems` says
what the two paging algorithms show in terms of ranks, for any list, offset and limit.

The four small add-ons have an invariant each, stated before their theorems: what a transaction holds or has seen is still
what it saw, or it will not commit. Their types need bounds beside it: that a portal row's text and note
are of versions no later than its own (`InVersions`), and what an open transaction has made of it of the next (`NextVersion`);
that runs are among those a request is given (`ChatBounds`); that a hint leads past the first page (`WalkInBounds`).

### What the proofs assume

Constants are what their comments call them: names are disjoint, lifetimes positive with access no longer than refresh,
threads finite, settings integers (nonsense included), limits' defaults and retries positive, bounds numbers. `HoursAddUp` says that
the hours of any timesheet lines add up to a number. It follows from `HoursArePositive` by induction
over a fold, which this prover cannot do; TLC evaluates it. `RequestsAreRequests` of
`McpCall` says which requests there are: `resources/read` arrives with its arguments or is refused as malformed,
and only a tool writes.

### Only model-checked

`SpentIsCollected`, because liveness is out of the prover's reach (its safety half is proved), and that
`txn_races` has no deadlock, which is a statement about what is ENABLED. Every invariant and action property of a
passing run is stated by a theorem. What is proved of `ConfigCache` and assumed by `Door` is the same interval of versions, but the two
are not composed into one specification: their product is too large for TLC. The four runs that end in a violation are counterexamples; there is nothing to prove.

## 5. Not modelled, and why

* Wire formats, wording, discovery documents, the consent page, CORS: no state.
* PKCE, redirect-URI and secret comparison: they decide acceptance only; see `OAuthGrant`. The expansion of a
  registered scope (`expand_registered_scopes`) bounds the scope a token response names, never the one that is stored.
* In `OAuthTxn`, users, clients entered by hand, the switch of a client and the log. The deletion of a client clears its reference in log rows, which the log's
  cleanup deletes in batches: two cron jobs that may wait for each other (a hazard of `PROJECT.json` that no property covers).
* Formatting, field scoring, URI and argument parsing of the tools: data. Which fields are
  credential-named is a given of `Tools`, what a selection does with them is modelled.
* The columns of audit rows and their truncation; REST answers' wording.
* What a proxied XML-RPC call, a quote, an activity or a message does inside Odoo.
* A portal project's set-up (`action_setup_as_client_portal`, once, by an administrator) and the portal's pages.
* In `Livechat`, finding operators (no state).
* `sales_scout.py` (imported by nothing) and the website (static).
* In `Tools`, the display names of linked records and of what a called method returns: the code shows them without asking the gate of
  their model.
* In `McpCall`, the broad `except` of `_json_safe` (`mcp_tools_write.py:124`) around the reading of display names: a conflict raised there,
  by a write flushed for the read, would be swallowed, and `ConflictIsNoFailure` does not see it.
* In `McpCall`, what a tool does besides writing records (mail, HTTP calls of a
  custom tool) cannot be rolled back and is outside the promise.

## 6. Plan

1. `GrantChain`, `OAuthGrant`, `OAuthTxn` and their proofs: done.
2. `SlidingWindow`, `AtomicCalls`, `McpCall` and their proofs: done.
3. `Door`, `ConfigCache` and their proofs: done.
4. `Tools`, `LogRetention`, `ClientPortal`, `Livechat`, `Payslip` and their proofs: done.
5. The types of the add-ons, who can wait for whom in `OAuthTxn`, and that `ConfigCache` gives what `Door`
   takes from it, as theorems: done.
6. Next, should the code change there: `GrantChain` has no clock, so the guard code of a live family
   (`LiveFamilyIsGuarded`) is stated of the tables only; an abstract specification with expiries would let `OAuthTxn` refine `OAuthGrant` itself,
   up to the instant of `txn_guard`.

## 7. Running it

`tlc -config MCOAuthGrantSafety.cfg MCOAuthGrant.tla`, and likewise for every
`.cfg` (the run table in `PROJECT.json` names the module of each);
`tlapm OAuthGrantProofs.tla`, and likewise for every `*Proofs.tla`, for the proofs.
