------------------------------- MODULE Tools -------------------------------
(***************************************************************************)
(* The built-in tools and the custom ones, as one client uses them in call *)
(* after call while other users insert and delete records and an           *)
(* administrator edits limits, permissions and custom tools.  A call is    *)
(* one step, which is what McpCall shows of it.                            *)
(*                                                                         *)
(* The client walks one model, whose records come in the order of their    *)
(* ids, or its groups, page after page along the next-page hints.  A       *)
(* record has lines (an x2many field), and perhaps a file (a binary field  *)
(* and an attachment).                                                     *)
(***************************************************************************)
EXTENDS Integers, FiniteSets, Sequences, SequencesExt

CONSTANTS
  Ids,               \* the ids of the records of the walked model: integers
  GroupOf,           \* [Ids -> the group of a record: an integer]
  LinesOf,           \* [Ids -> how many lines it has]
  WithFile,          \* the records that have a file
  FirstRows,         \* the sets of records to start from
  DEFAULT_LIMIT, MAX_LIMIT, MAX_OFFSET_PAGES,
  MaxRelated,        \* mcp_server.max_related_items
  Settings,          \* what an administrator sets a limit to, nonsense included
  Asks,              \* limits a client asks for; 0 is none
  Methods,           \* ["mapped": the operation it maps to, "business", "generic"]
  MaxMoves,          \* bound: insertions and deletions of records
  MaxConfigs,        \* bound: edits by the administrator
  MaxPages           \* bound: pages of a walk

Operations == {"read", "create", "write", "unlink", "methods"}
Models == {"record", "line", "attachment"}

ASSUME RecordsAreNumbered ==
  /\ Ids \subseteq Nat /\ IsFiniteSet(Ids) /\ FirstRows \subseteq SUBSET Ids
  /\ GroupOf \in [Ids -> Nat] /\ LinesOf \in [Ids -> Nat]
ASSUME SettingsAreNumbers == Settings \cup Asks \subseteq Int
ASSUME LimitsArePositive == {DEFAULT_LIMIT, MAX_LIMIT, MAX_OFFSET_PAGES} \subseteq Nat \ {0}
ASSUME ToolsAreBounded == MaxPages \in Nat \ {0} /\ {MaxMoves, MaxConfigs} \subseteq Nat
ASSUME MethodsAreKnown == Methods \subseteq {"write", "unlink", "business", "generic"}

VARIABLES
  rows,    \* the ids of the records there are
  open,    \* [Models -> the operations MCP may do on them]
  limits,  \* the configured default and max
  custom,  \* the custom tool: its action's type, who may run it, active
  walk,    \* the client's walk
  uris,    \* resource URIs the client was given
  reply,   \* the answer the client is about to read, or NoReply
  moves, configs

toolsVars == <<rows, open, limits, custom, walk, uris, reply, moves, configs>>

NoReply == [ok |-> FALSE]
NoHint == [offset |-> -1, limit |-> 0]
Ready == [of |-> "nothing", next |-> NoHint]

ToolsTypeOK ==
  /\ rows \subseteq Ids
  /\ open \in [Models -> SUBSET Operations]
  /\ limits \in [default : Settings \cup {DEFAULT_LIMIT}, max : Settings \cup {MAX_LIMIT}]
  /\ uris \subseteq ({"field", "attachment"} \X WithFile)
  /\ walk = Ready \/
       /\ walk.next \in {NoHint} \cup [offset : Nat \ {0}, limit : Nat \ {0}]
       /\ walk.pages \in 1..MaxPages
       /\ walk.seen \subseteq Nat /\ walk.whole \subseteq Nat
       /\ walk.repeats \in Nat /\ walk.left \in Nat /\ walk.came \in Nat
  /\ moves <= MaxMoves /\ configs <= MaxConfigs

Least(a, b) == IF a <= b THEN a ELSE b
-----------------------------------------------------------------------------
\* Limits: zero or less would be "no limit" to Odoo, so it means the default.
Bounds ==
  LET default == IF limits.default <= 0 THEN DEFAULT_LIMIT ELSE limits.default
      max == IF limits.max <= 0 THEN MAX_LIMIT ELSE limits.max
  IN [default |-> Least(default, max), max |-> max]

EffectiveLimit_ZeroIsZero(asked) == Least(asked, Bounds.max)

EffectiveLimit(asked) ==
  IF asked <= 0 THEN Bounds.default ELSE Least(asked, Bounds.max)

EffectiveOffset(asked) == Least(asked, Bounds.max * MAX_OFFSET_PAGES)

\* Ids a method call may name; unlike Bounds, a negative setting stays.
BatchMax == IF limits.max = 0 THEN MAX_LIMIT ELSE limits.max

Ordered(items) ==
  [i \in 1..Cardinality(items) |->
     CHOOSE item \in items : Cardinality({other \in items : other < item}) = i - 1]

\* What a walk of "rows" or of "groups" walks over.
Listed(of, rs) == IF of = "groups" THEN {GroupOf[r] : r \in rs} ELSE rs

Slice(list, offset, limit) == SubSeq(list, offset + 1, Least(offset + limit, Len(list)))

SearchPage_FullPage(list, offset, limit) ==
  LET page == Slice(list, offset, limit) IN [page |-> page, more |-> Len(page) = limit]

\* A page and whether the answer hints at a next one: search_records counts,
\* unless a short first page shows the total; aggregate_records looks one
\* group past the page.
SearchPage(list, offset, limit) ==
  LET page == Slice(list, offset, limit)
      total == IF offset = 0 /\ Len(page) < limit THEN Len(page) ELSE Len(list)
  IN [page |-> page, more |-> offset + Len(page) < total]

GroupsPage_NoLookAhead(list, offset, limit) ==
  LET peek == Slice(list, offset, limit) IN [page |-> peek, more |-> Len(peek) > limit]

GroupsPage(list, offset, limit) ==
  LET peek == Slice(list, offset, limit + 1)
  IN [page |-> Slice(peek, 0, limit), more |-> Len(peek) > limit]

PageOf(of, list, offset, limit) ==
  IF of = "groups" THEN GroupsPage(list, offset, limit) ELSE SearchPage(list, offset, limit)
-----------------------------------------------------------------------------
ToolsInit ==
  /\ rows \in FirstRows
  /\ \E record \in {{}, {"read"}, Operations}, line, attachment \in {{}, {"read"}} :
       open = [model \in Models |-> CASE model = "record" -> record
                                      [] model = "line" -> line
                                      [] OTHER -> attachment]
  /\ limits = [default |-> DEFAULT_LIMIT, max |-> MAX_LIMIT]
  /\ custom = [state |-> "code", may |-> TRUE, active |-> TRUE]
  /\ walk = Ready
  /\ uris = {}
  /\ reply = NoReply
  /\ moves = 0 /\ configs = 0

\* The records become rs; the walk is told, for the properties, what came,
\* what left and what was there all the time.
Move(rs) ==
  /\ moves < MaxMoves
  /\ moves' = moves + 1
  /\ rows' = rs
  /\ walk' = IF walk = Ready THEN walk
             ELSE LET before == Listed(walk.of, rows)
                      after == Listed(walk.of, rs)
                  IN [walk EXCEPT !.left = @ + Cardinality(before \ after),
                                  !.came = @ + Cardinality(after \ before),
                                  !.whole = @ \cap after]

Still == UNCHANGED <<rows, walk, moves>>

\* An answer: what was shown or done, as <<model, operation>>, and the records
\* a batch named and did.
Batch(effects, asked, done) ==
  /\ reply = NoReply
  /\ reply' = [ok |-> TRUE, effects |-> effects, asked |-> asked, done |-> done]

Answers(effects) == Batch(effects, {}, {})

Refused ==
  /\ reply = NoReply
  /\ reply' = [ok |-> FALSE, effects |-> {}, asked |-> {}, done |-> {}]
  /\ Still
  /\ UNCHANGED uris

Environment == UNCHANGED <<open, limits, custom, configs>>

\* _resolve_model, then _check_op
Gate(model, op) == op \in open[model]

Exists(id) == id \in rows
-----------------------------------------------------------------------------
(***************************************************************************)
(* Read tools.                                                             *)
(***************************************************************************)

\* A bulk selection, smart defaults or all, shows no credential-named field.
Fields(selection) ==
  {<<"record", "read">>} \cup (IF selection = "named" THEN {<<"record", "secret">>} ELSE {})

Files(ids) == {"field"} \X (ids \cap WithFile)

\* search_records and aggregate_records: the page asked for, from where, how
\* long, and the hint of the next one.
Fetch(of, offset, limit, fresh) ==
  LET l == EffectiveLimit(limit)
      o == EffectiveOffset(offset)
      list == Ordered(Listed(of, rows))
      got == PageOf(of, list, o, l)
      items == ToSet(got.page)
      start == IF fresh
               THEN [of |-> of, pages |-> 0, next |-> NoHint, seen |-> {}, whole |-> ToSet(list),
                     repeats |-> 0, left |-> 0, came |-> 0, capped |-> FALSE]
               ELSE walk
  IN IF ~Gate("record", "read") THEN Refused
     ELSE /\ walk' = [start EXCEPT
               !.pages = @ + 1,
               !.next = IF got.more THEN [offset |-> o + l, limit |-> l] ELSE NoHint,
               !.seen = @ \cup items,
               !.repeats = @ + Cardinality(start.seen \cap items),
               !.capped = @ \/ o < offset]
          /\ \E selection \in {"bulk", "named"} :
               Answers(Fields(selection))
          /\ uris' = IF of = "rows" THEN uris \cup Files(items) ELSE uris
          /\ UNCHANGED <<rows, moves>>

StartWalk ==
  /\ \E of \in {"rows", "groups"}, limit \in Asks : Fetch(of, 0, limit, TRUE)
  /\ Environment

FollowHint ==
  /\ walk.next # NoHint
  /\ walk.pages < MaxPages
  /\ Fetch(walk.of, walk.next.offset, walk.next.limit, FALSE)
  /\ Environment

\* Lines are named inline when there are few, and otherwise counted with a
\* hint to search for them, both only where their model may be read.
Preview(id) ==
  IF LinesOf[id] = 0 \/ ~Gate("line", "read") THEN {}
  ELSE {<<"line", IF LinesOf[id] <= MaxRelated THEN "read" ELSE "hint">>}

GetRecord ==
  /\ \E id \in Ids, selection \in {"bulk", "named"} :
       IF Gate("record", "read") /\ Exists(id)
       THEN /\ Answers(Fields(selection) \cup Preview(id))
            /\ uris' = uris \cup Files({id})
            /\ Still
       ELSE Refused
  /\ Environment

\* list_models, list_resource_templates and get_current_context are not
\* gated: they tell what is open, not what is in it.
Describe ==
  /\ Answers({}) /\ Still /\ UNCHANGED uris
  /\ Environment

GetFields ==
  /\ IF Gate("record", "read")
     THEN Answers({<<"record", "read">>}) /\ Still /\ UNCHANGED uris
     ELSE Refused
  /\ Environment

\* A URI may be read long after it was handed out, or never have been: an
\* attachment's can be guessed.  It goes with its record.
AttachmentAllowed == Gate("attachment", "read") \/ Gate("record", "read")

ReadResource ==
  /\ \E uri \in uris \cup ({"attachment"} \X WithFile) :
       IF /\ Exists(uri[2])
          /\ IF uri[1] = "field" THEN Gate("record", "read") ELSE AttachmentAllowed
       THEN /\ Answers({<<uri[1], "read">>})
            /\ Still
            /\ UNCHANGED uris
       ELSE Refused
  /\ Environment
-----------------------------------------------------------------------------
(***************************************************************************)
(* Write tools.                                                            *)
(***************************************************************************)

\* The database gives the new record its place in the order.
CreateRecord ==
  /\ IF Gate("record", "create")
     THEN \E id \in Ids \ rows :
            /\ Answers({<<"record", "create">>})
            /\ Move(rows \cup {id})
            /\ UNCHANGED uris
     ELSE Refused
  /\ Environment

\* update_record and post_message.
WriteRecord ==
  /\ \E id \in Ids :
       IF Gate("record", "write") /\ Exists(id)
       THEN Answers({<<"record", "write">>}) /\ Still /\ UNCHANGED uris
       ELSE Refused
  /\ Environment

DeleteRecord ==
  /\ \E id \in Ids :
       IF Gate("record", "unlink") /\ Exists(id)
       THEN /\ Answers({<<"record", "unlink">>})
            /\ Move(rows \ {id})
            /\ UNCHANGED uris
       ELSE Refused
  /\ Environment

MethodAllowed_FlagOnly(method) == Gate("record", "methods") /\ method # "generic"

\* A private, web_, blocked or generic method is refused; one that is known
\* to do an operation needs that operation too.
MethodAllowed(method) ==
  /\ Gate("record", "methods")
  /\ method # "generic"
  /\ method # "business" => Gate("record", method)

Targets_Unchecked(ids) == ids

Targets(ids) == ids \cap rows

\* The whole call is refused when one id is missing or there are too many.
\* The method may leave the records or delete them.
CallModelMethod ==
  /\ \E method \in Methods, ids \in SUBSET Ids :
       IF /\ MethodAllowed(method)
          /\ ids # {} => Cardinality(ids) <= BatchMax /\ Targets(ids) = ids
       THEN LET did == {<<"record", "methods">>}
                         \cup (IF method = "business" THEN {} ELSE {<<"record", method>>})
            IN /\ Batch(did, ids, Targets(ids))
               /\ \/ Still
                  \/ method # "write" /\ ids # {} /\ Move(rows \ ids)
               /\ UNCHANGED uris
       ELSE Refused
  /\ Environment
-----------------------------------------------------------------------------
(***************************************************************************)
(* Custom tools.  The action is checked to be code when the tool is saved, *)
(* and can become another type later; a run looks again.                   *)
(***************************************************************************)

UserCanRun == custom.may

RunTool ==
  /\ IF custom.active /\ UserCanRun /\ custom.state = "code"
     THEN Answers({<<"custom", "ran">>}) /\ Still /\ UNCHANGED uris
     ELSE Refused
  /\ Environment

Edit ==
  /\ reply = NoReply
  /\ configs < MaxConfigs
  /\ configs' = configs + 1
  /\ UNCHANGED <<rows, walk, uris, reply, moves>>

\* The tool's form: it is switched on or off, or linked to another action,
\* which must be code (_check_action_is_code, for a new link only).
SaveTool ==
  /\ \/ \E active \in BOOLEAN : custom' = [custom EXCEPT !.active = active]
     \/ \E may \in BOOLEAN : custom' = [custom EXCEPT !.state = "code", !.may = may]
  /\ Edit
  /\ UNCHANGED <<open, limits>>

\* The action's own form.
EditAction ==
  /\ \E state \in {"code", "other"}, may \in BOOLEAN :
       custom' = [custom EXCEPT !.state = state, !.may = may]
  /\ Edit
  /\ UNCHANGED <<open, limits>>

SetLimits ==
  /\ limits' \in [default : Settings, max : Settings]
  /\ Edit
  /\ UNCHANGED <<open, custom>>

SetPermission ==
  /\ \E model \in Models : \E op \in IF model = "record" THEN Operations ELSE {"read"} :
       open' = [open EXCEPT ![model] =
                  IF op \in @ THEN @ \ {op} ELSE @ \cup {op}]
  /\ Edit
  /\ UNCHANGED <<limits, custom>>

\* Other users.
Others ==
  /\ reply = NoReply
  /\ \/ \E id \in Ids \ rows : Move(rows \cup {id})
     \/ \E id \in rows : Move(rows \ {id})
  /\ UNCHANGED <<open, limits, custom, uris, reply, configs>>

Read ==
  /\ reply # NoReply
  /\ reply' = NoReply
  /\ UNCHANGED <<rows, open, limits, custom, walk, uris, moves, configs>>

\* A client that walks, and one that calls the other tools.
WalkNext == StartWalk \/ FollowHint \/ SetLimits \/ Others \/ Read

CallNext ==
  \/ GetRecord \/ Describe \/ GetFields \/ ReadResource
  \/ CreateRecord \/ WriteRecord \/ DeleteRecord \/ CallModelMethod \/ RunTool
  \/ SaveTool \/ EditAction \/ SetLimits \/ SetPermission
  \/ Others \/ Read

ToolsNext == WalkNext \/ CallNext

ToolsSpec == ToolsInit /\ [][ToolsNext]_toolsVars
-----------------------------------------------------------------------------
(***************************************************************************)
(* Properties.                                                             *)
(***************************************************************************)

\* A walk along the hints, whatever is inserted, deleted or reconfigured on
\* the way, misses at most as many items that were there all the time as
\* others left, and, unless it ran into the offset cap, shows at most as many
\* twice as came.  Left alone it is exact.
WalkIsAccounted ==
  walk # Ready =>
    /\ walk.next = NoHint => Cardinality(walk.whole \ walk.seen) <= walk.left
    /\ ~walk.capped => walk.repeats <= walk.came

\* A next-page hint leads to items, unless some left since: neither the
\* count nor the look-ahead is off by one at the end or past it.
HintsLeadToRows ==
  [][walk' # Ready /\ walk'.next # NoHint /\ walk'.next # walk.next =>
       walk'.next.offset < Cardinality(Listed(walk'.of, rows))]_toolsVars

\* Nothing is shown or done, by whichever of the tools and however long after
\* its URI or its name was learnt, but what the models' permissions allow at
\* that moment, and no custom tool reports success that ran nothing.
Permits(effect) ==
  CASE effect[1] = "field" -> "read" \in open["record"]
    [] effect[1] = "attachment" -> "read" \in open["attachment"] \cup open["record"]
    [] effect[1] = "line" -> "read" \in open["line"] /\ "read" \in open["record"]
    [] effect[1] = "custom" -> custom = [state |-> "code", may |-> TRUE, active |-> TRUE]
    [] effect[2] = "secret" -> "read" \in open["record"]
    [] OTHER -> effect[2] \in open["record"]

NoEffectWithoutItsGate ==
  [][reply' # NoReply =>
       /\ \A effect \in reply'.effects : Permits(effect)
       /\ rows' # rows => reply'.effects \cap {<<"record", "create">>, <<"record", "unlink">>,
                                                <<"record", "methods">>} # {}]_toolsVars

\* "A partial run the caller can't detect is worse than a clean error": a call
\* on several records is done on every one it names, all of them there, or
\* refused with nothing changed.
BatchIsWhole ==
  [][reply' # NoReply =>
       /\ reply'.done = reply'.asked /\ reply'.asked \subseteq rows
       /\ ~reply'.ok => rows' = rows]_toolsVars
=============================================================================
