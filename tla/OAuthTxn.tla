------------------------------ MODULE OAuthTxn ------------------------------
(***************************************************************************)
(* The token endpoint, the administrator's revocation and the collector as *)
(* concurrent database transactions.  OAuthGrant takes each of them as one *)
(* step; here each is a snapshot, row locks taken one by one, and a commit *)
(* that other workers' steps come between.                                 *)
(*                                                                         *)
(* Odoo runs every request in a REPEATABLE READ transaction: all its reads *)
(* are of the state committed when it began, its SELECT ... FOR UPDATE and *)
(* UPDATE wait for a row somebody else has locked, and fail with a         *)
(* serialization error on a row somebody else has changed since.  A new    *)
(* code or token locks its client against deletion, and a deletion of a    *)
(* client takes its codes and tokens along (ondelete="cascade").  When     *)
(* transactions wait in a circle the database fails one of them.  The      *)
(* handlers re-raise either error, and service.model.retrying rolls back   *)
(* and runs them again, a bounded number of times.                         *)
(*                                                                         *)
(* Scopes and audiences play no part in the races and are left to          *)
(* OAuthGrant.  So are the users, and the switch of a client, which        *)
(* changes no key and so holds up no new token.  The log, whose rows lose  *)
(* their reference to a deleted client, and the job that prunes it are not *)
(* here either.  A request that would write nothing is left out unless it  *)
(* is the rerun of one that meant to.  Any other worker that dies leaves   *)
(* what it would have left by not starting.                                *)
(***************************************************************************)
EXTENDS Integers, FiniteSets, Functions

CONSTANTS
  Workers,          \* HTTP and cron workers: one transaction each
  Clients, Codes, Tokens,
  NoFamily,         \* the empty refresh_family_id
  CodeTTL, AccessTTL, RefreshTTL,
  ClientTTL,        \* _DCR_CLIENT_TTL_DAYS
  MaxTries,         \* runs of one request before it fails for good
  MaxTime           \* bound: the clock stops here

ASSUME RowsAreDisjoint ==
  /\ Codes \cap Tokens = {} /\ Clients \cap (Codes \cup Tokens) = {}
  /\ NoFamily \notin Clients \cup Codes \cup Tokens
ASSUME TriesAndLifetimes ==
  /\ {CodeTTL, AccessTTL, RefreshTTL, ClientTTL, MaxTries} \subseteq Nat \ {0}
  /\ AccessTTL <= RefreshTTL
  /\ MaxTime \in Nat

VARIABLES
  now,      \* the clock
  clients,  \* committed rows of mcp.oauth.client: when each was registered
  codes,    \* committed rows of mcp.oauth.authorization.code
  tokens,   \* committed rows of mcp.oauth.token
  minted,   \* history: every client, code and token ever handed out
  txn       \* the transaction of each worker

tables == <<clients, codes, tokens>>
vars == <<now, clients, codes, tokens, minted, txn>>

Rows == Clients \cup Codes \cup Tokens
CodeRow == [client : Clients, expires : Nat, used : BOOLEAN,
            family : Tokens \cup {NoFamily}]
TokenRow == [client : Clients, family : Tokens, access : Nat, refresh : Nat,
             revoked : BOOLEAN]

\* A request presents a code or a refresh token; an administrator revokes one
\* token from its form or a selection from the list.
Jobs == [kind : {"redeem"}, row : Codes]
          \cup [kind : {"refresh"}, row : Tokens]
          \cup [kind : {"revoke"}, rows : (SUBSET Tokens) \ {{}}]
          \cup [kind : {"gc"}]

NoJob == [kind |-> "none"]
NoRows == [x \in {} |-> x]
Idle == [job |-> NoJob, at |-> 0, clients |-> NoRows, codes |-> NoRows,
         tokens |-> NoRows, held |-> {}, tries |-> 0]

TypeOK ==
  /\ now \in 0..MaxTime
  /\ DOMAIN clients \subseteq Clients /\ \A c \in DOMAIN clients : clients[c] \in Nat
  /\ DOMAIN codes \subseteq Codes /\ \A k \in DOMAIN codes : codes[k] \in CodeRow
  /\ DOMAIN tokens \subseteq Tokens
  /\ \A t \in DOMAIN tokens : tokens[t] \in TokenRow
  /\ minted \subseteq Rows
  /\ \A w \in Workers :
       \/ txn[w] = Idle
       \/ /\ txn[w].job \in Jobs
          /\ txn[w].at \in 0..now
          /\ txn[w].held \subseteq Rows
          /\ txn[w].tries \in 1..MaxTries
-----------------------------------------------------------------------------
\* What a transaction sees: x is its record, x.clients, x.codes and x.tokens its
\* snapshot and x.at the clock it read.
CodeIsValid(x, k) ==
  k \in DOMAIN x.codes /\ ~x.codes[k].used /\ x.codes[k].expires > x.at

RefreshIsValid(x, t) ==
  t \in DOMAIN x.tokens /\ ~x.tokens[t].revoked /\ x.tokens[t].refresh > x.at

LiveTokens(x) ==
  {t \in DOMAIN x.tokens :
     ~x.tokens[t].revoked /\ (x.tokens[t].access > x.at \/ x.tokens[t].refresh > x.at)}
LiveFamilies(x) == {x.tokens[t].family : t \in LiveTokens(x)}

\* A grant the endpoint means to accept, and the family a replay betrays.
Accepted(x) ==
  \/ x.job.kind = "redeem" /\ CodeIsValid(x, x.job.row)
  \/ x.job.kind = "refresh" /\ RefreshIsValid(x, x.job.row)

Betrayed(x) ==
  {x.codes[k].family : k \in {j \in DOMAIN x.codes :
     x.job.kind = "redeem" /\ j = x.job.row /\ x.codes[j].used}}
  \cup
  {x.tokens[t].family : t \in {n \in DOMAIN x.tokens :
     x.job.kind = "refresh" /\ n = x.job.row /\ x.tokens[n].revoked}}

\* The client of an accepted grant, whom the new token will refer to.
Grantee(x) ==
  IF x.job.kind = "redeem" THEN x.codes[x.job.row].client
                           ELSE x.tokens[x.job.row].client

\* The rows the collector deletes: codes and tokens by their age, clients by
\* theirs, and with a client, by the foreign keys, whatever refers to it.
Aged(x) ==
  {k \in DOMAIN x.codes : /\ x.codes[k].expires < x.at
                          /\ ~(x.codes[k].used /\ x.codes[k].family \in LiveFamilies(x))}
  \cup
  {t \in DOMAIN x.tokens : x.tokens[t].access < x.at /\ x.tokens[t].refresh < x.at}

Stale(x) ==
  {c \in DOMAIN x.clients : /\ x.clients[c] + ClientTTL < x.at
                            /\ c \notin {x.tokens[t].client : t \in LiveTokens(x)}}

Dependents(x, c) ==
  {k \in DOMAIN x.codes : x.codes[k].client = c}
    \cup {t \in DOMAIN x.tokens : x.tokens[t].client = c}

Collected(x) == Aged(x) \cup Stale(x) \cup UNION {Dependents(x, c) : c \in Stale(x)}

\* The rows a transaction locks: those it writes, and the client of a new token.
\* (In the slip a replay revokes what is revoked already, too.)
Needs_WholeFamily(x) ==
  CASE Accepted(x) -> {x.job.row, Grantee(x)}
    [] x.job.kind \in {"redeem", "refresh"} /\ ~Accepted(x) ->
         {t \in DOMAIN x.tokens : x.tokens[t].family \in Betrayed(x)}
    [] x.job.kind = "revoke" -> x.job.rows \cap DOMAIN x.tokens
    [] x.job.kind = "gc" -> Collected(x)
    [] OTHER -> {}

Needs(x) ==
  CASE Accepted(x) -> {x.job.row, Grantee(x)}
    [] x.job.kind \in {"redeem", "refresh"} /\ ~Accepted(x) ->
         {t \in DOMAIN x.tokens :
            x.tokens[t].family \in Betrayed(x) /\ ~x.tokens[t].revoked}
    [] x.job.kind = "revoke" -> x.job.rows \cap DOMAIN x.tokens
    [] x.job.kind = "gc" -> Collected(x)
    [] OTHER -> {}

\* A transaction as it (re)starts: nothing locked, snapshot and clock fresh.
Started(job, tries) ==
  [job |-> job, at |-> now, clients |-> clients, codes |-> codes,
   tokens |-> tokens, held |-> {}, tries |-> tries]

\* Nobody changed or deleted the row since x's snapshot.
Unchanged(x, r) ==
  \/ r \in DOMAIN clients /\ clients[r] = x.clients[r]
  \/ r \in DOMAIN codes /\ codes[r] = x.codes[r]
  \/ r \in DOMAIN tokens /\ tokens[r] = x.tokens[r]

\* What x locks in order.  A grant locks its row with the first query, and the
\* client when it saves the token.  The collector deletes aged codes, then aged
\* tokens, then clients, and after each client what depends on it.
Before(x, r, s) ==
  \/ s \in Clients /\ Accepted(x) /\ r = x.job.row
  \/ /\ x.job.kind = "gc"
     /\ \/ r \in Codes /\ s \in Tokens /\ r \in Aged(x)
        \/ s \in Clients /\ r \in Aged(x)
        \/ r \in Clients /\ s \in Dependents(x, r) \ Aged(x)

Due(x) ==
  {s \in Needs(x) \ x.held : \A r \in Needs(x) : Before(x, r, s) => r \in x.held}

\* w holds r against v.  Grants share a client; only its deletion excludes them.
Clash(v, w, r) ==
  /\ r \in txn[w].held
  /\ r \in Clients => "gc" \in {txn[v].job.kind, txn[w].job.kind}

Wants(w, r) == (\A v \in Workers : ~Clash(w, v, r)) /\ r \in Due(txn[w])

\* v may be waiting for w.  A circle is a deadlock: each waits for the next.
WaitsFor(v, w) == \E r \in txn[w].held : Clash(v, w, r) /\ r \in Due(txn[v])

Circle(S) == \E next \in Bijection(S, S) : \A v \in S : WaitsFor(v, next[v])

Ready(w, kind) == txn[w].job.kind = kind /\ Needs(txn[w]) = txn[w].held

\* Rows that refer to a client the collector is deleting, too young for its
\* snapshot: the database finds them, and will not delete what nobody saw.
Missed(w) ==
  {r \in (DOMAIN codes \ DOMAIN txn[w].codes) \cup (DOMAIN tokens \ DOMAIN txn[w].tokens) :
     /\ txn[w].job.kind = "gc"
     /\ \/ r \in DOMAIN codes /\ codes[r].client \in txn[w].held
        \/ r \in DOMAIN tokens /\ tokens[r].client \in txn[w].held}

Put(table, name, row) ==
  [x \in DOMAIN table \cup {name} |-> IF x = name THEN row ELSE table[x]]

NewToken(clock, client, family) ==
  [client |-> client, family |-> family, access |-> clock + AccessTTL,
   refresh |-> clock + RefreshTTL, revoked |-> FALSE]

Revoked(S) ==
  [t \in DOMAIN tokens |->
     IF t \in S THEN [tokens[t] EXCEPT !.revoked = TRUE] ELSE tokens[t]]
-----------------------------------------------------------------------------
Init ==
  /\ now = 0
  /\ clients = NoRows /\ codes = NoRows /\ tokens = NoRows
  /\ minted = {}
  /\ txn = [w \in Workers |-> Idle]

\* A client registers, or a code is issued to one that is not being deleted.
\* Nobody can have named either yet, so each is one step.
Register(c) ==
  /\ c \notin minted
  /\ clients' = Put(clients, c, now)
  /\ minted' = minted \cup {c}
  /\ UNCHANGED <<now, codes, tokens, txn>>

Authorize(k, c) ==
  /\ k \notin minted
  /\ c \in DOMAIN clients
  /\ \A w \in Workers : txn[w].job.kind = "gc" => c \notin txn[w].held
  /\ codes' = Put(codes, k, [client |-> c, expires |-> now + CodeTTL,
                             used |-> FALSE, family |-> NoFamily])
  /\ minted' = minted \cup {k}
  /\ UNCHANGED <<now, clients, tokens, txn>>

\* A worker takes a request or the cron job, which never runs twice at a time.
\* An administrator selects tokens that are there, not all of them revoked.
Begin(w, job) ==
  /\ txn[w] = Idle
  /\ job.kind = "gc" => \A v \in Workers : txn[v].job.kind # "gc"
  /\ job.kind = "revoke" =>
       job.rows \subseteq DOMAIN tokens /\ \E t \in job.rows : ~tokens[t].revoked
  /\ job.kind = "gc" \/ Needs(Started(job, MaxTries)) # {}
  /\ txn' = [txn EXCEPT ![w] = Started(job, MaxTries)]
  /\ UNCHANGED <<now, tables, minted>>

Lock(w, r) ==
  /\ Wants(w, r)
  /\ Unchanged(txn[w], r)
  /\ txn' = [txn EXCEPT ![w].held = @ \cup {r}]
  /\ UNCHANGED <<now, tables, minted>>

\* The row has changed, or is one the deletion of its client cannot take along: a
\* serialization failure, and another try if any is left.
\* (In the slip the handler answers 500 instead of raising the error.)
Conflict_Swallowed(w, r) ==
  /\ r \in Missed(w) \/ (Wants(w, r) /\ ~Unchanged(txn[w], r))
  /\ txn' = [txn EXCEPT ![w] = Idle]
  /\ UNCHANGED <<now, tables, minted>>

RunAgain(w) ==
  /\ txn' = [txn EXCEPT ![w] = IF @.tries = 1 THEN Idle
                               ELSE Started(@.job, @.tries - 1)]
  /\ UNCHANGED <<now, tables, minted>>

Conflict(w, r) ==
  /\ r \in Missed(w) \/ (Wants(w, r) /\ ~Unchanged(txn[w], r))
  /\ RunAgain(w)

\* The database finds transactions waiting in a circle and fails one of them.
Victim(w) ==
  /\ \E S \in SUBSET Workers : w \in S /\ Circle(S)
  /\ RunAgain(w)

\* The accepted code becomes used and its family's first token is saved.
\* (In the slip no family is made up for it.)
CommitRedeem_NoFamily(w, n) ==
  \E clock \in txn[w].at..now :
    /\ Ready(w, "redeem")
    /\ Accepted(txn[w])
    /\ n \notin minted
    /\ tokens' = Put(tokens, n, NewToken(clock, Grantee(txn[w]), NoFamily))
    /\ codes' = [codes EXCEPT ![txn[w].job.row].used = TRUE]
    /\ minted' = minted \cup {n}
    /\ txn' = [txn EXCEPT ![w] = Idle]
    /\ UNCHANGED <<now, clients>>

CommitRedeem(w, n) ==
  \E clock \in txn[w].at..now :
    /\ Ready(w, "redeem")
    /\ Accepted(txn[w])
    /\ n \notin minted
    /\ tokens' = Put(tokens, n, NewToken(clock, Grantee(txn[w]), n))
    /\ codes' = [codes EXCEPT ![txn[w].job.row].used = TRUE,
                              ![txn[w].job.row].family = n]
    /\ minted' = minted \cup {n}
    /\ txn' = [txn EXCEPT ![w] = Idle]
    /\ UNCHANGED <<now, clients>>

\* The successor is saved and the accepted refresh token is revoked.
\* (In the slips the successor gets a family of its own, or the old one stays.)
CommitRefresh_NewFamily(w, n) ==
  \E clock \in txn[w].at..now :
    /\ Ready(w, "refresh")
    /\ Accepted(txn[w])
    /\ n \notin minted
    /\ tokens' = Put(Revoked({txn[w].job.row}), n, NewToken(clock, Grantee(txn[w]), n))
    /\ minted' = minted \cup {n}
    /\ txn' = [txn EXCEPT ![w] = Idle]
    /\ UNCHANGED <<now, clients, codes>>

CommitRefresh_KeepsOld(w, n) ==
  \E clock \in txn[w].at..now :
    /\ Ready(w, "refresh")
    /\ Accepted(txn[w])
    /\ n \notin minted
    /\ tokens' = Put(tokens, n,
                     NewToken(clock, Grantee(txn[w]),
                              txn[w].tokens[txn[w].job.row].family))
    /\ minted' = minted \cup {n}
    /\ txn' = [txn EXCEPT ![w] = Idle]
    /\ UNCHANGED <<now, clients, codes>>

CommitRefresh(w, n) ==
  \E clock \in txn[w].at..now :
    /\ Ready(w, "refresh")
    /\ Accepted(txn[w])
    /\ n \notin minted
    /\ tokens' = Put(Revoked({txn[w].job.row}), n,
                     NewToken(clock, Grantee(txn[w]),
                              txn[w].tokens[txn[w].job.row].family))
    /\ minted' = minted \cup {n}
    /\ txn' = [txn EXCEPT ![w] = Idle]
    /\ UNCHANGED <<now, clients, codes>>

\* The grant fails a later check (PKCE, owner archived), or its worker dies: the
\* row stays as it was.
Refuse(w) ==
  /\ Accepted(txn[w])
  /\ txn[w].job.row \in txn[w].held
  /\ txn' = [txn EXCEPT ![w] = Idle]
  /\ UNCHANGED <<now, tables, minted>>

\* A replay revokes what was live of the family in its snapshot; an
\* administrator revokes the selected rows.
CommitRevocation(w) ==
  /\ Ready(w, "redeem") \/ Ready(w, "refresh") \/ Ready(w, "revoke")
  /\ ~Accepted(txn[w])
  /\ tokens' = Revoked(txn[w].held)
  /\ txn' = [txn EXCEPT ![w] = Idle]
  /\ UNCHANGED <<now, clients, codes, minted>>

CommitGC(w) ==
  /\ Ready(w, "gc")
  /\ Missed(w) = {}
  /\ clients' = Restrict(clients, DOMAIN clients \ txn[w].held)
  /\ codes' = Restrict(codes, DOMAIN codes \ txn[w].held)
  /\ tokens' = Restrict(tokens, DOMAIN tokens \ txn[w].held)
  /\ txn' = [txn EXCEPT ![w] = Idle]
  /\ UNCHANGED <<now, minted>>

Tick ==
  /\ now < MaxTime
  /\ now' = now + 1
  /\ UNCHANGED <<tables, minted, txn>>

Next ==
  \/ Tick
  \/ \E c \in Clients : Register(c)
  \/ \E k \in Codes, c \in Clients : Authorize(k, c)
  \/ \E w \in Workers, job \in Jobs : Begin(w, job)
  \/ \E w \in Workers, r \in Rows : Lock(w, r) \/ Conflict(w, r)
  \/ \E w \in Workers, n \in Tokens : CommitRedeem(w, n) \/ CommitRefresh(w, n)
  \/ \E w \in Workers : Victim(w) \/ Refuse(w) \/ CommitRevocation(w) \/ CommitGC(w)

Spec == Init /\ [][Next]_vars
-----------------------------------------------------------------------------
(***************************************************************************)
(* Properties.                                                             *)
(***************************************************************************)

\* Concurrent redemptions never fork a family: whatever the interleaving, at
\* most one committed token of a family is unrevoked (_get_valid_refresh_token).
Unrevoked(f) ==
  {t \in DOMAIN tokens : tokens[t].family = f /\ ~tokens[t].revoked}

OneLivePerFamily == \A f \in Tokens : Cardinality(Unrevoked(f)) <= 1

\* The committed families, seen as chains of holders, obey the same abstract
\* specification as the atomic handlers of OAuthGrant: concurrency adds nothing.
HolderOf ==
  [f \in Tokens |-> IF Unrevoked(f) = {} THEN NoFamily
                    ELSE CHOOSE t \in Unrevoked(f) : TRUE]

Chain == INSTANCE GrantChain WITH
           NoHolder <- NoFamily, holder <- HolderOf, known <- minted \cap Tokens

HandsOver == Chain!ChainSpec

\* Replay containment under races: when a request that presented a spent code
\* or a rotated refresh token is over, tries to spare, no token of the family
\* is live, even if a rotation ran at the same time (_detect_reuse,
\* _detect_refresh_reuse, and token()'s re-raise of OperationalError).  The one
\* exception: its last snapshot had the credential unspent, and expired.
Lapsed(x) ==
  /\ ~Accepted(x)
  /\ \/ /\ x.job.kind = "redeem" /\ x.job.row \in DOMAIN x.codes
        /\ ~x.codes[x.job.row].used
     \/ /\ x.job.kind = "refresh" /\ x.job.row \in DOMAIN x.tokens
        /\ ~x.tokens[x.job.row].revoked

SpentFamilies(job) ==
  {codes[k].family : k \in {j \in DOMAIN codes :
     job.kind = "redeem" /\ j = job.row /\ codes[j].used}}
  \cup
  {tokens[t].family : t \in {n \in DOMAIN tokens :
     job.kind = "refresh" /\ n = job.row /\ tokens[n].revoked}}

SpentMeansDead ==
  [][\A w \in Workers :
       txn[w] # Idle /\ txn'[w] = Idle /\ txn[w].tries > 1 /\ ~Lapsed(txn[w]) =>
         \A f \in SpentFamilies(txn[w].job) : Unrevoked(f)' = {}]_vars

\* How workers can come to wait for each other for good, whatever the order in
\* which they lock.  Either an administrator revokes several tokens at once
\* (action_revoke from the list view), or the collector is deleting a client and
\* what depends on it, under a grant that has locked one of these rows and needs
\* the client for its new token.  Nothing else takes the database's deadlock
\* detection and a rerun to get the requests going again.
BulkRevocation(x) == x.job.kind = "revoke" /\ \E t, n \in x.job.rows : t # n

CollectsUnder(v, w) ==
  /\ txn[v].job.kind = "gc" /\ Accepted(txn[w])
  /\ WaitsFor(v, w) /\ WaitsFor(w, v)

Stuck(S) == S # {} /\ \A v \in S : \E w \in S : WaitsFor(v, w)

CirclesHaveACause ==
  \A S \in SUBSET Workers : Stuck(S) =>
    \E v, w \in S : BulkRevocation(txn[v]) \/ CollectsUnder(v, w)

\* What _gc_oauth says of the redeemed code of a family with a live token: it
\* is kept, being the only row a replay of the code can match.
LiveFamilyIsGuarded ==
  \A t \in DOMAIN tokens :
    ~tokens[t].revoked /\ (tokens[t].access > now \/ tokens[t].refresh > now) =>
      \E k \in DOMAIN codes : codes[k].family = tokens[t].family
=============================================================================
