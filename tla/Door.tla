------------------------------- MODULE Door --------------------------------
(***************************************************************************)
(* What a request meets before it reaches a tool or a record: the bearer   *)
(* door of /mcp with the transport's checks, the decorated REST endpoints  *)
(* and the XML-RPC proxies, each a row of gates; and the audit rows that a *)
(* refusal, a throttled failure or a proxied call leaves.  The row of a    *)
(* failure has a cursor of its own.  A proxied call commits on its own     *)
(* cursor too, but its row is written on the request's and commits with    *)
(* it: the ledger of calls and rows is what the database keeps of both     *)
(* when requests and workers have gone.                                    *)
(*                                                                         *)
(* A world is one committed state of everything a gate looks up, a Boolean *)
(* for each item.  A request reads credentials, users and clients in its   *)
(* snapshot, and cached configuration in any version from its floor to its *)
(* snapshot, which is what ConfigCache shows of the cache.  What a client  *)
(* sends beside its credential is chosen at the gate that looks at it; the *)
(* per-user limiter may find it over the limit (see SlidingWindow); a      *)
(* request let in at /mcp goes on in McpCall.                              *)
(***************************************************************************)
EXTENDS Naturals, Sequences, FiniteSets, SequencesExt

CONSTANTS
  Threads,     \* request threads of one worker
  Users,
  NoUser,
  Clients,     \* OAuth clients
  Creds,       \* issued credentials
  Describe,    \* [Creds -> what each was issued as]
  Nothing,     \* no credential sent
  Malformed,   \* an Authorization header of another grammar
  Bogus,       \* a credential nobody issued
  Calls,       \* bound: the calls the XML-RPC proxy makes
  NoCall,
  FailureMax,  \* audit rows of failures an address has per window
  MaxTries,    \* service.model.retrying: runs of one request
  MaxEdits     \* bound: changes of the world

\* A key has a scope, a token a client and an audience; a password is good
\* for XML-RPC only.
Description ==
  [door : {"key"}, user : Users, scope : {"any", "mcp", "rpc"}]
    \cup [door : {"token"}, user : Users, client : Clients, here : BOOLEAN]
    \cup [door : {"password"}, user : Users]

Switches == {"mcp", "oauth", "origins", "enabled", "allowed"}
Items == Switches \cup Creds \cup Users \cup Clients
Sent == Creds \cup {Nothing, Malformed, Bogus}

ASSUME CredsAreDescribed == Describe \in [Creds -> Description]
ASSUME BoundsAreBounds == FailureMax \in Nat \ {0} /\ MaxTries \in Nat \ {0} /\ MaxEdits \in Nat
ASSUME NamesAreDistinct == NoUser \notin Users /\ NoCall \notin Calls

VARIABLES
  worlds,     \* the committed worlds, oldest first
  signalled,  \* the newest whose signal is out
  recent,     \* failures in the address's window: the limiters each is in
  reqs,       \* [Threads -> the request]
  made,       \* the proxied calls that have committed
  entries,    \* [Calls -> the committed row of each]
  lost        \* calls whose row was not written, or not committed

config == <<worlds, signalled>>
ledger == <<made, entries, lost>>
vars == <<config, recent, reqs, ledger>>

Latest == Len(worlds)

\* Failures in the window that one limiter has counted.
Hits(limiter) == Cardinality({i \in DOMAIN recent : limiter \in recent[i]})

Rows == {"none", "success", "error", "denied", "limited"}

\* What became of the row of a failure.
Fates == {"none", "written", "swallowed", "throttled"}

Idle == [phase |-> "idle"]

TypeOK ==
  /\ worlds \in Seq([Items -> BOOLEAN])
  /\ signalled \in 1..Latest
  /\ recent \in Seq((SUBSET {"bearer", "row"}) \ {{}})
  /\ \A l \in {"bearer", "row"} : Hits(l) <= FailureMax
  /\ \A t \in Threads : reqs[t] = Idle \/
       /\ reqs[t].phase \in {"gates", "served", "over"}
       /\ reqs[t].user \in Users \cup {NoUser}
       /\ reqs[t].floor <= reqs[t].snap /\ reqs[t].snap <= Latest
       /\ reqs[t].row \in Rows /\ reqs[t].fate \in Fates
       /\ reqs[t].call \in Calls \cup {NoCall}
       /\ reqs[t].try \in 1..MaxTries
  /\ made \subseteq Calls /\ lost \subseteq Calls
  /\ entries \in [Calls -> Rows]
-----------------------------------------------------------------------------
\* The gates of a request, in order.  "open": /mcp/health, /mcp/xmlrpc/common
\* and /mcp/xmlrpc/db.  "info": /mcp/system/info, /mcp/auth/validate and
\* /mcp/models.
Route(kind) ==
  CASE kind = "mcp"    -> <<"bearer", "origin", "version">>
    [] kind = "open"   -> <<"switch">>
    [] kind = "info"   -> <<"key", "limit", "switch">>
    [] kind = "access" -> <<"key", "limit", "switch", "name", "exists", "enabled">>
    [] kind = "object" -> <<"switch", "shape", "name", "identify", "limit", "access",
                            "dispatch", "log", "marshal">>

GateOf(t) == Route(reqs[t].kind)[reqs[t].gate]
At(t, gate) == reqs[t].phase = "gates" /\ GateOf(t) = gate

World(t) == worlds[reqs[t].snap]

\* Cached configuration, as old as the floor.
Cached(t, item) == {worlds[v][item] : v \in reqs[t].floor..reqs[t].snap}
-----------------------------------------------------------------------------
(***************************************************************************)
(* Credentials.                                                            *)
(***************************************************************************)

Of(cred, world, door) == cred \in Creds /\ Describe[cred].door = door /\ world[cred]

\* _check_credentials, probed with each allowed scope; then the user is looked
\* at once more.
KeyUser(world, cred, scopes) ==
  IF Of(cred, world, "key") /\ Describe[cred].scope \in scopes \cup {"any"}
       /\ world[Describe[cred].user]
  THEN Describe[cred].user ELSE NoUser

\* The OAuth door.  (In the slip the client is not asked about.)
TokenUser_AnyClient(world, cred) ==
  IF Of(cred, world, "token") /\ Describe[cred].here /\ world[Describe[cred].user]
  THEN Describe[cred].user ELSE NoUser

TokenUser(world, cred) ==
  IF Of(cred, world, "token") /\ Describe[cred].here
       /\ world[Describe[cred].user] /\ world[Describe[cred].client]
  THEN Describe[cred].user ELSE NoUser

\* Both doors of /mcp, for each reading of the OAuth switch.
BearerUsers(t) ==
  LET cred == reqs[t].cred
      byKey == KeyUser(World(t), cred, {"mcp", "rpc"})
  IN IF byKey # NoUser THEN {byKey}
     ELSE {IF on THEN TokenUser(World(t), cred) ELSE NoUser : on \in Cached(t, "oauth")}

\* Stock Odoo's own check of an XML-RPC call, on its own cursor.
Accepts(world, cred) ==
  \/ KeyUser(world, cred, {"rpc"}) # NoUser
  \/ Of(cred, world, "password") /\ world[Describe[cred].user]
-----------------------------------------------------------------------------
(***************************************************************************)
(* Failures, and their rows on cursors of their own.                       *)
(***************************************************************************)

\* (In the slip the last place is never given away.)
Full_Early(limiter) == Hits(limiter) + 1 >= FailureMax

Full(limiter) == Hits(limiter) >= FailureMax

\* The limiters a failure is recorded in: the bearer door asks its own first,
\* and none waits to see whether the row could be written.
\* (In the slip those that are full count it as well.)
Recorded_Refused(limiters) == limiters

Recorded(limiters) ==
  IF "bearer" \in limiters /\ Full("bearer") THEN {}
  ELSE {l \in limiters : ~Full(l)}

\* A failure, and the fate of its row: throttled; or written and committed; or
\* not, since logging is off or the write failed, which is swallowed.
Fail(t, limiters, fate) ==
  LET hits == Recorded(limiters)
  IN /\ recent' = IF hits = {} THEN recent ELSE Append(recent, hits)
     /\ fate \in IF "row" \in hits THEN {"written", "swallowed"} ELSE {"throttled"}

\* What a failed credential adds to a request's record.
Failed(req, n, fate) == [req EXCEPT !.failures = @ + n, !.fate = fate]
-----------------------------------------------------------------------------
\* All is in force, and no list of origins restricts browsers.
Init ==
  /\ worlds = <<[i \in Items |-> i # "origins"]>>
  /\ signalled = 1
  /\ recent = <<>>
  /\ reqs = [t \in Threads |-> Idle]
  /\ made = {} /\ lost = {}
  /\ entries = [c \in Calls |-> "none"]

\* Endpoints, and what may be sent to them.
Arrivals ==
  ({"mcp"} \X Sent) \cup ({"open"} \X {Nothing})
    \cup ({"info", "access", "object"} \X (Sent \ {Malformed}))

Begin(t, kind, cred) ==
  /\ reqs[t] = Idle
  /\ reqs' = [reqs EXCEPT ![t] =
       [phase |-> "gates", kind |-> kind, gate |-> 1, cred |-> cred, user |-> NoUser,
        try |-> 1, snap |-> Latest, floor |-> signalled, failures |-> 0, fate |-> "none",
        row |-> "none", call |-> NoCall, reply |-> "none"]]
  /\ UNCHANGED <<config, recent, ledger>>

\* The request goes to its next gate, as `user', or is served.
Onward(req, user) ==
  IF req.gate = Len(Route(req.kind)) THEN [req EXCEPT !.phase = "served", !.user = user]
  ELSE [req EXCEPT !.gate = @ + 1, !.user = user]

\* The credential is not asked for again.
Used(req) == [req EXCEPT !.cred = Nothing]

\* What is left of a row inserted on the request's cursor: nothing, if logging
\* is off or the insert fails in its savepoint.
Inserted(row) == {row, "none"}

\* What a request was let in on, and what it saw, is not looked at again once it
\* is over.
Over(req, row) ==
  [req EXCEPT !.phase = "over", !.row = row, !.cred = Nothing, !.user = NoUser,
              !.snap = 1, !.floor = 1]

\* _auth_method_mcp.  A header that is there but unusable is audited by the
\* row limiter alone; no header is a discovery probe and is not.
Bearer(t) ==
  /\ At(t, "bearer")
  /\ UNCHANGED <<config, ledger>>
  /\ \/ /\ reqs[t].cred = Nothing
        /\ reqs' = [reqs EXCEPT ![t] = Over(@, "none")]
        /\ UNCHANGED recent
     \/ \E fate \in Fates :
          /\ reqs[t].cred = Malformed
          /\ Fail(t, {"row"}, fate)
          /\ reqs' = [reqs EXCEPT ![t] = Over(Failed(@, 1, fate), "none")]
     \/ \E fate \in Fates :
          /\ reqs[t].cred \notin {Nothing, Malformed} /\ NoUser \in BearerUsers(t)
          /\ Fail(t, {"bearer", "row"}, fate)
          /\ reqs' = [reqs EXCEPT ![t] = Over(Failed(@, 1, fate), "none")]
     \/ \E user \in BearerUsers(t) \ {NoUser} :
          /\ reqs[t].cred \notin {Nothing, Malformed}
          /\ reqs' = [reqs EXCEPT ![t] = Onward(@, user)]
          /\ UNCHANGED recent

\* require_auth: the key, or else the session's user.  A key that fails has
\* logged its own failure.  (In the slip the refusal is logged as well.)
FailuresAt_Again(cred, byKey, user) ==
  (IF cred # Nothing /\ byKey = NoUser THEN 1 ELSE 0) + (IF user = NoUser THEN 1 ELSE 0)

FailuresAt(cred, byKey, user) ==
  CASE cred # Nothing /\ byKey = NoUser -> 1
    [] cred = Nothing /\ user = NoUser  -> 1
    [] OTHER                            -> 0

Key(t) ==
  LET cred == reqs[t].cred
      byKey == KeyUser(World(t), cred, {"rpc"})
      sessions == {NoUser} \cup {u \in Users : World(t)[u]}
  IN
    /\ At(t, "key")
    /\ \E user \in IF byKey # NoUser THEN {byKey} ELSE sessions, fate \in Fates :
         LET n == FailuresAt(cred, byKey, user)
         IN /\ IF n > 0 THEN Fail(t, {"row"}, fate) ELSE fate = "none" /\ UNCHANGED recent
            /\ reqs' = [reqs EXCEPT ![t] =
                 IF user = NoUser THEN Over(Failed(@, n, fate), "none")
                 ELSE Onward(Used(Failed(@, n, fate)), user)]
    /\ UNCHANGED <<config, ledger>>

\* _identify_user, for the limiter: a key-like credential that is no key fails
\* on the record, and the call goes on as whatever uid it names, for which
\* nothing vouches yet.  Keys and tokens are long enough to be key-like, a
\* password may be.
KeyLike == {cred \in Creds : Describe[cred].door # "password"}

Identify(t) ==
  LET byKey == KeyUser(World(t), reqs[t].cred, {"rpc"})
  IN
    /\ At(t, "identify")
    /\ \/ /\ byKey # NoUser
          /\ reqs' = [reqs EXCEPT ![t] = Onward(@, byKey)]
          /\ UNCHANGED recent
       \/ \E fate \in Fates :
            /\ byKey = NoUser /\ reqs[t].cred # Nothing
            /\ Fail(t, {"row"}, fate)
            /\ reqs' = [reqs EXCEPT ![t] = Onward(Failed(@, 1, fate), NoUser)]
       \/ /\ reqs[t].cred \notin KeyLike
          /\ reqs' = [reqs EXCEPT ![t] = Onward(@, NoUser)]
          /\ UNCHANGED recent
    /\ UNCHANGED <<config, ledger>>

\* The other gates: how each may end, and the row of its refusal.
Verdicts(t, gate) ==
  CASE gate = "switch"  -> Cached(t, "mcp")
    [] gate = "origin"  -> {TRUE} \cup {~restricted : restricted \in Cached(t, "origins")}
    [] gate = "enabled" -> {on /\ listed : on \in Cached(t, "mcp"),
                                           listed \in Cached(t, "enabled")}
    \* check_mcp_access: also the method, which may have no operation
    [] gate = "access"  -> {FALSE} \cup {on /\ listed /\ allowed :
                              on \in Cached(t, "mcp"), listed \in Cached(t, "enabled"),
                              allowed \in Cached(t, "allowed")}
    [] gate \in {"version", "limit", "shape", "name", "exists"} -> BOOLEAN
    [] OTHER -> {}

RefusalRow(gate) ==
  CASE gate = "limit"               -> "limited"
    [] gate \in {"enabled", "access"} -> "denied"
    [] gate \in {"shape", "exists"} -> "error"
    [] OTHER                        -> "none"

Pass(t) ==
  /\ reqs[t].phase = "gates"
  /\ TRUE \in Verdicts(t, GateOf(t))
  /\ reqs' = [reqs EXCEPT ![t] = Onward(@, @.user)]
  /\ UNCHANGED <<config, recent, ledger>>

Refuse(t) ==
  /\ reqs[t].phase = "gates"
  /\ FALSE \in Verdicts(t, GateOf(t))
  /\ \E row \in Inserted(RefusalRow(GateOf(t))) :
       reqs' = [reqs EXCEPT ![t] = Over(@, row)]
  /\ UNCHANGED <<config, recent, ledger>>

Holds(t, c) == reqs[t] # Idle /\ reqs[t].call = c
InFlight(c) == \E t \in Threads : Holds(t, c)

New(c) == c \notin made \cup lost /\ entries[c] = "none" /\ ~InFlight(c)

\* The proxied call: Odoo's service checks the credential again, and makes the
\* call and commits it on a cursor of its own, or raises; it may raise with the
\* call committed, when the signal to the caches fails.
Dispatch(t) ==
  /\ At(t, "dispatch")
  /\ \E c \in Calls, done \in BOOLEAN, reply \in {"success", "error"} :
       /\ New(c)
       /\ done => Accepts(worlds[Latest], reqs[t].cred)
       /\ reply = "success" => done
       /\ made' = IF done THEN made \cup {c} ELSE made
       /\ reqs' = [reqs EXCEPT ![t] =
                     [Onward(Used(@), @.user) EXCEPT !.call = c, !.reply = reply]]
  /\ UNCHANGED <<config, recent, entries, lost>>

\* The row tells of what was answered.  (In the slip it was made out before
\* the call, and tells of success.)
RowOf_Before(req) == "success"

RowOf(req) == req.reply

\* The row is written on the request's cursor; then the result goes on to be
\* marshalled, or what was raised becomes the fault that is answered.
Log(t) ==
  /\ At(t, "log")
  /\ \E row \in Inserted(RowOf(reqs[t])) :
       /\ reqs' = [reqs EXCEPT ![t] = IF @.reply = "success"
                                        THEN [Onward(@, @.user) EXCEPT !.row = row]
                                        ELSE Over(@, row)]
       /\ lost' = IF row = "none" THEN lost \cup {reqs[t].call} ELSE lost
  /\ UNCHANGED <<config, recent, made, entries>>

\* The result is marshalled, or a fault answered in its place.
Marshal(t) ==
  /\ At(t, "marshal")
  /\ reqs' = [reqs EXCEPT ![t] = Over(@, @.row)]
  /\ UNCHANGED <<config, recent, ledger>>

\* A REST endpoint answers from the snapshot; the access report leaves a row.
Report(t) ==
  /\ reqs[t].phase = "served" /\ reqs[t].kind # "mcp"
  /\ \E row \in Inserted(IF reqs[t].kind = "access" THEN "success" ELSE "none") :
       reqs' = [reqs EXCEPT ![t] = Over(@, row)]
  /\ UNCHANGED <<config, recent, ledger>>

\* The /mcp handler meets a concurrency error: all of it, the door included,
\* runs again on a fresh snapshot.
Restarted(req) ==
  [req EXCEPT !.phase = "gates", !.gate = 1, !.user = NoUser, !.snap = Latest, !.try = @ + 1]

Rerun(t) ==
  /\ reqs[t].phase = "served" /\ reqs[t].kind = "mcp" /\ reqs[t].try < MaxTries
  /\ reqs' = [reqs EXCEPT ![t] = Restarted(@)]
  /\ UNCHANGED <<config, recent, ledger>>

\* The handler returns and the request commits, its row with it; or the last
\* run, or the commit, fails.
Return(t) ==
  /\ \/ reqs[t].phase = "over"
     \/ reqs[t].phase = "served" /\ reqs[t].kind = "mcp"
  /\ \/ /\ entries' = [c \in Calls |-> IF Holds(t, c) THEN reqs[t].row ELSE entries[c]]
        /\ UNCHANGED lost
     \/ /\ lost' = lost \cup {c \in Calls : Holds(t, c)}
        /\ UNCHANGED entries
  /\ reqs' = [reqs EXCEPT ![t] = Idle]
  /\ UNCHANGED <<config, recent, made>>

\* The worker dies: what had not committed is lost, and so are the limiters.
Crash ==
  /\ lost' = lost \cup {c \in Calls : InFlight(c)}
  /\ reqs' = [t \in Threads |-> Idle]
  /\ recent' = <<>>
  /\ UNCHANGED <<config, made, entries>>

\* An administrator changes an item, and the change is signalled.
Edit(item) ==
  /\ Latest <= MaxEdits
  /\ worlds' = Append(worlds, [worlds[Latest] EXCEPT ![item] = ~@])
  /\ UNCHANGED <<signalled, recent, reqs, ledger>>

Signal ==
  /\ signalled < Latest
  /\ signalled' = Latest
  /\ UNCHANGED <<worlds, recent, reqs, ledger>>

\* The oldest failure leaves the window.
Forget ==
  /\ recent # <<>>
  /\ recent' = Tail(recent)
  /\ UNCHANGED <<config, reqs, ledger>>

Next ==
  \/ \E t \in Threads :
       \/ \E arrival \in Arrivals : Begin(t, arrival[1], arrival[2])
       \/ Bearer(t) \/ Key(t) \/ Identify(t) \/ Pass(t) \/ Refuse(t)
       \/ Dispatch(t) \/ Log(t) \/ Marshal(t) \/ Report(t) \/ Rerun(t) \/ Return(t)
  \/ \E item \in Items : Edit(item)
  \/ Signal \/ Forget \/ Crash

Spec == Init /\ [][Next]_vars
-----------------------------------------------------------------------------
(***************************************************************************)
(* Properties.                                                             *)
(***************************************************************************)

\* "Cut off at token use, not just at issuance": whoever is served at /mcp,
\* on the first run or a later one, holds there and then a credential in
\* force, whose user and client are active; what was revoked, archived or
\* deactivated before that run began is refused.
RevokedIsRefused ==
  \A t \in Threads : reqs[t].phase = "served" /\ reqs[t].kind = "mcp" =>
    LET cred == reqs[t].cred
    IN /\ cred \in Creds /\ Describe[cred].door \in {"key", "token"}
       /\ reqs[t].user = Describe[cred].user
       /\ World(t)[cred] /\ World(t)[reqs[t].user]
       /\ Describe[cred].door = "token" =>
            Describe[cred].here /\ World(t)[Describe[cred].client] /\ TRUE \in Cached(t, "oauth")

\* What the database keeps of the XML-RPC proxy agrees, although a call and its
\* row commit at different instants on different cursors: a row that tells of
\* success is of a call that was made; and a call that was made has a row,
\* unless its request is still under way, its row could not be written, or the
\* worker died, or the request failed to commit, between the two commits.
LegacyLogIsTrue ==
  \A c \in Calls :
    /\ entries[c] = "success" => c \in made
    /\ c \in made => entries[c] # "none" \/ c \in lost \/ InFlight(c)

\* "Under normal load legitimate audit rows are never dropped": a failure's row
\* is written and committed, or its write failed and was swallowed; it is not
\* even tried only when the window holds a flood of failures, although two
\* limiters guard the row and all doors share one of them.
SilenceMeansFlood ==
  [][\A t \in Threads :
       reqs[t].phase = "gates" /\ reqs'[t].phase # "idle" /\ reqs'[t].failures > reqs[t].failures =>
         \/ Len(recent) >= FailureMax
         \/ reqs'[t].fate \in {"written", "swallowed"}]_vars

\* "A bad key is not double-counted against the throttle": however many doors
\* and runs a request goes through, it fails once on the record.
CountedOnce ==
  \A t \in Threads : reqs[t].phase # "idle" => reqs[t].failures <= 1
=============================================================================
