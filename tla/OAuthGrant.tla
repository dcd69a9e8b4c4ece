----------------------------- MODULE OAuthGrant -----------------------------
(***************************************************************************)
(* The authorization server of mcp_server: dynamically registered clients, *)
(* single-use authorization codes, access/refresh token pairs that rotate  *)
(* in families, reuse detection, the administrator's switches and the      *)
(* daily garbage collector.                                                *)
(*                                                                         *)
(* One action is one committed transaction of one HTTP handler, admin      *)
(* action or cron run.  (How concurrent transactions come to look atomic   *)
(* is the subject of OAuthTxn.)  A request that is refused without a       *)
(* database change is a stuttering step and has no action.                 *)
(*                                                                         *)
(* The three tables are functions from row names to rows, so deleting a    *)
(* row takes it out of the domain.  A code or a token is its row's name:   *)
(* the database keeps only hashes and the raw values are random, hence     *)
(* presenting a credential is naming its row, and minted names never       *)
(* return.  uuid4().hex, the family identifier, is likewise never reused;  *)
(* a family is named here by the first token of its chain.                 *)
(*                                                                         *)
(* A definition whose name carries a suffix, as in GrantedScope_TickOnly,  *)
(* is a plausible slip of the one it precedes.  The specification does not *)
(* use it: it is there to show that a property would notice the slip.      *)
(***************************************************************************)
EXTENDS Integers, FiniteSets, Functions

CONSTANTS
  Clients, Users, Codes, Tokens,  \* names; every one is handed out once
  NoFamily,                       \* the empty refresh_family_id
  Registrations,   \* scope sets a client may register ({}: registered none)
  Requests,        \* scope sets an authorization request may ask for
  Resources,       \* values of the RFC 8707 parameter at the token endpoint
  CodeTTL, AccessTTL, RefreshTTL, ClientTTL,
  MaxTime          \* bound: the clock stops here

\* The resource indicator: absent, this server's, or somebody else's.
Absent == "absent"
Ours == "mcp"

ASSUME NamesAreDisjoint ==
  /\ Clients \cap Codes = {} /\ Clients \cap Tokens = {}
  /\ Codes \cap Tokens = {}
ASSUME NoFamilyIsNoToken == NoFamily \notin Tokens
ASSUME LifetimesAreOrdered ==
  /\ {CodeTTL, AccessTTL, RefreshTTL, ClientTTL} \subseteq Nat \ {0}
  /\ CodeTTL <= AccessTTL /\ AccessTTL <= RefreshTTL
ASSUME ClockIsBounded == MaxTime \in Nat

VARIABLES
  now,      \* fields.Datetime.now(), the transaction's reading of the clock
  users,    \* res.users: [existing users -> active?]
  clients,  \* mcp.oauth.client
  codes,    \* mcp.oauth.authorization.code
  tokens,   \* mcp.oauth.token
  minted    \* history: every name that was ever handed out

tables == <<clients, codes, tokens>>
vars == <<now, users, clients, codes, tokens, minted>>

Never == -1   \* an expiry column that is NULL: no comparison with it holds

ScopeTokens == UNION (Registrations \cup Requests)

\* Rows.  A client's "rotates" is whether its grant_types hold refresh_token.
ClientRow == [via : {"dcr", "manual"}, scope : SUBSET ScopeTokens,
              rotates : BOOLEAN, active : BOOLEAN, created : Nat]
CodeRow == [client : Clients, user : Users, scope : {"mcp:read", "mcp:write"},
            resource : {Absent, Ours}, expires : Nat,
            used : BOOLEAN, family : Tokens \cup {NoFamily}]
TokenRow == [client : Clients, user : Users, scope : {"mcp:read", "mcp:write"},
             audience : (Resources \cup {Ours}) \ {Absent}, access : Nat,
             refresh : Nat \cup {Never}, revoked : BOOLEAN, family : Tokens]

NoRows == [x \in {} |-> x]

Put(table, name, row) ==
  [x \in DOMAIN table \cup {name} |-> IF x = name THEN row ELSE table[x]]

TypeOK ==
  /\ now \in 0..MaxTime
  /\ DOMAIN users \subseteq Users /\ \A u \in DOMAIN users : users[u] \in BOOLEAN
  /\ DOMAIN clients \subseteq Clients
  /\ \A c \in DOMAIN clients : clients[c] \in ClientRow
  /\ DOMAIN codes \subseteq Codes /\ \A k \in DOMAIN codes : codes[k] \in CodeRow
  /\ DOMAIN tokens \subseteq Tokens
  /\ \A t \in DOMAIN tokens : tokens[t] \in TokenRow
  /\ minted \subseteq Clients \cup Codes \cup Tokens
-----------------------------------------------------------------------------
\* Scopes.
WriteScopes == {"mcp", "mcp:write"}

ScopeGrantsWrite(scope) == scope \cap WriteScopes # {}

IsReadOnlyRequest(scope) == scope = {"mcp:read"}

ClientAllowsWrite(registered) ==
  registered = {} \/ ScopeGrantsWrite(registered)

\* The scope consent grants: the owner's write tick counts unless the request
\* was read-only or the client's registration excludes write.
GrantedScope_TickOnly(registered, requested, tick) ==
  IF tick /\ ~IsReadOnlyRequest(requested) THEN "mcp:write" ELSE "mcp:read"

GrantedScope(registered, requested, tick) ==
  IF tick /\ ~IsReadOnlyRequest(requested) /\ ClientAllowsWrite(registered)
  THEN "mcp:write" ELSE "mcp:read"

\* Reading the tables.
ActiveClient(c) == c \in DOMAIN clients /\ clients[c].active

ActiveUser(u) == u \in DOMAIN users /\ users[u]

\* A row of a live token can still be presented, as a bearer or for refresh.
LiveTokens ==
  {t \in DOMAIN tokens : /\ ~tokens[t].revoked
                         /\ tokens[t].access > now \/ tokens[t].refresh > now}

LiveFamilies == {tokens[t].family : t \in LiveTokens}

\* Revoking every live token of the family f.
RevokeFamily(f) ==
  [t \in DOMAIN tokens |->
     IF tokens[t].family = f THEN [tokens[t] EXCEPT !.revoked = TRUE]
                             ELSE tokens[t]]

\* The codes a client can redeem now, and the tokens it can refresh with now.
RefreshIsValid_ExpiryOnly(t) == tokens[t].refresh > now

CodeIsValid(k) == ~codes[k].used /\ codes[k].expires > now

RefreshIsValid(t) == ~tokens[t].revoked /\ tokens[t].refresh > now

\* The row saved for a new pair: scope and owner from the grant, both expiries
\* from the clock, and no refresh half for a client that may not refresh.
NewToken(c, u, scope, audience, family) ==
  [client |-> c, user |-> u, scope |-> scope, audience |-> audience,
   access |-> now + AccessTTL,
   refresh |-> IF clients[c].rotates THEN now + RefreshTTL ELSE Never,
   revoked |-> FALSE, family |-> family]
-----------------------------------------------------------------------------
Init ==
  /\ now = 0
  /\ users = [u \in Users |-> TRUE]
  /\ clients = NoRows /\ codes = NoRows /\ tokens = NoRows
  /\ minted = {}

AddClient(c, via, scope, rotates) ==
  /\ c \notin minted
  /\ clients' = Put(clients, c, [via |-> via, scope |-> scope,
                                 rotates |-> rotates, active |-> TRUE,
                                 created |-> now])
  /\ minted' = minted \cup {c}
  /\ UNCHANGED <<now, users, codes, tokens>>

\* POST /mcp/oauth/register: the profile is pinned, the scope is not checked.
Register(c) ==
  \E scope \in Registrations : AddClient(c, "dcr", scope, TRUE)

\* An administrator enters a client by hand and chooses its grant types.
Provision(c) ==
  \E scope \in Registrations, rotates \in BOOLEAN :
    AddClient(c, "manual", scope, rotates)

\* POST /mcp/oauth/authorize with decision=allow.
Authorize(c, u, k) ==
  \E requested \in Requests, tick \in BOOLEAN, resource \in {Absent, Ours} \cap Resources :
    /\ ActiveClient(c)
    /\ ActiveUser(u)
    /\ k \notin minted
    /\ codes' = Put(codes, k,
         [client |-> c, user |-> u,
          scope |-> GrantedScope(clients[c].scope, requested, tick),
          resource |-> resource, expires |-> now + CodeTTL,
          used |-> FALSE, family |-> NoFamily])
    /\ minted' = minted \cup {k}
    /\ UNCHANGED <<now, users, clients, tokens>>

\* The audience of a redeemed code: its own binding, else the token request's,
\* else this server.
Audience_NoDefault(k, requested) ==
  IF codes[k].resource # Absent THEN codes[k].resource ELSE requested

Audience(k, requested) ==
  IF codes[k].resource # Absent THEN codes[k].resource
  ELSE IF requested # Absent THEN requested ELSE Ours

\* POST /mcp/oauth/token, grant_type=authorization_code, accepted.
RedeemCode(k, t) ==
  \E resource \in Resources :
    /\ k \in DOMAIN codes
    /\ ActiveClient(codes[k].client)
    /\ CodeIsValid(k)
    /\ ActiveUser(codes[k].user)
    /\ resource \in {Absent, Audience(k, resource)}
    /\ t \notin minted
    /\ tokens' = Put(tokens, t, NewToken(codes[k].client, codes[k].user,
                       codes[k].scope, Audience(k, resource), t))
    /\ codes' = [codes EXCEPT ![k].used = TRUE, ![k].family = t]
    /\ minted' = minted \cup {t}
    /\ UNCHANGED <<now, users, clients>>

\* The same request with a code that is already used: any client that can
\* authenticate may present it, and the family it produced is revoked.
ReplayCode(k) ==
  /\ k \in DOMAIN codes
  /\ codes[k].used
  /\ \E c \in Clients : ActiveClient(c)
  /\ tokens' = RevokeFamily(codes[k].family)
  /\ UNCHANGED <<now, users, clients, codes, minted>>

\* grant_type=refresh_token, accepted: the new pair is saved, the old revoked.
RefreshToken_KeepsOld(t, n) ==
  /\ t \in DOMAIN tokens
  /\ ActiveClient(tokens[t].client)
  /\ RefreshIsValid(t)
  /\ ActiveUser(tokens[t].user)
  /\ n \notin minted
  /\ tokens' = Put(tokens, n,
                   NewToken(tokens[t].client, tokens[t].user, tokens[t].scope,
                            tokens[t].audience, tokens[t].family))
  /\ minted' = minted \cup {n}
  /\ UNCHANGED <<now, users, clients, codes>>

RefreshToken(t, n) ==
  /\ t \in DOMAIN tokens
  /\ ActiveClient(tokens[t].client)
  /\ RefreshIsValid(t)
  /\ ActiveUser(tokens[t].user)
  /\ n \notin minted
  /\ tokens' = Put([tokens EXCEPT ![t].revoked = TRUE], n,
                   NewToken(tokens[t].client, tokens[t].user, tokens[t].scope,
                            tokens[t].audience, tokens[t].family))
  /\ minted' = minted \cup {n}
  /\ UNCHANGED <<now, users, clients, codes>>

\* A refresh token that matches a revoked row revokes the row's family.
ReplayRefresh(t) ==
  /\ t \in DOMAIN tokens
  /\ tokens[t].revoked
  /\ tokens[t].refresh # Never
  /\ \E c \in Clients : ActiveClient(c)
  /\ tokens' = RevokeFamily(tokens[t].family)
  /\ UNCHANGED <<now, users, clients, codes, minted>>
-----------------------------------------------------------------------------
\* The administrator: revoke a selection of tokens, switch a client off and
\* on, archive and restore a user, delete a user (rows cascade).
AdminRevoke(S) ==
  /\ S # {}
  /\ tokens' = [t \in DOMAIN tokens |->
                  IF t \in S THEN [tokens[t] EXCEPT !.revoked = TRUE]
                             ELSE tokens[t]]
  /\ UNCHANGED <<now, users, clients, codes, minted>>

SwitchClient(c, active) ==
  /\ c \in DOMAIN clients
  /\ clients' = [clients EXCEPT ![c].active = active]
  /\ UNCHANGED <<now, users, codes, tokens, minted>>

SwitchUser(u, active) ==
  /\ u \in DOMAIN users
  /\ users' = [users EXCEPT ![u] = active]
  /\ UNCHANGED <<now, clients, codes, tokens, minted>>

DeleteUser(u) ==
  /\ u \in DOMAIN users
  /\ users' = Restrict(users, DOMAIN users \ {u})
  /\ codes' = Restrict(codes, {k \in DOMAIN codes : codes[k].user # u})
  /\ tokens' = Restrict(tokens, {t \in DOMAIN tokens : tokens[t].user # u})
  /\ UNCHANGED <<now, clients, minted>>
-----------------------------------------------------------------------------
\* The daily collector.  The live tokens are read once, before any delete.
CollectedCodes_NoKeepRule ==
  {k \in DOMAIN codes : codes[k].expires < now}

CollectedCodes_UsedStay ==
  {k \in DOMAIN codes : codes[k].expires < now /\ ~codes[k].used}

CollectedCodes ==
  {k \in DOMAIN codes : /\ codes[k].expires < now
                        /\ ~(codes[k].used /\ codes[k].family \in LiveFamilies)}

CollectedTokens ==
  {t \in DOMAIN tokens : tokens[t].access < now /\ tokens[t].refresh < now}

CollectedClients_NotPinned ==
  {c \in DOMAIN clients : /\ clients[c].via = "dcr"
                          /\ clients[c].created < now - ClientTTL}

CollectedClients ==
  {c \in DOMAIN clients : /\ clients[c].via = "dcr"
                          /\ clients[c].created < now - ClientTTL
                          /\ c \notin {tokens[t].client : t \in LiveTokens}}

\* Deleting a client cascades to its codes and tokens.
GC ==
  /\ clients' = Restrict(clients, DOMAIN clients \ CollectedClients)
  /\ codes' = Restrict(codes, {k \in DOMAIN codes \ CollectedCodes :
                                 codes[k].client \notin CollectedClients})
  /\ tokens' = Restrict(tokens, {t \in DOMAIN tokens \ CollectedTokens :
                                   tokens[t].client \notin CollectedClients})
  /\ UNCHANGED <<now, users, minted>>

Tick ==
  /\ now < MaxTime
  /\ now' = now + 1
  /\ UNCHANGED <<users, clients, codes, tokens, minted>>

Next ==
  \/ Tick
  \/ GC
  \/ \E c \in Clients : Register(c) \/ Provision(c)
  \/ \E c \in Clients, u \in Users, k \in Codes : Authorize(c, u, k)
  \/ \E k \in Codes, t \in Tokens : RedeemCode(k, t)
  \/ \E k \in Codes : ReplayCode(k)
  \/ \E t, n \in Tokens : RefreshToken(t, n)
  \/ \E t \in Tokens : ReplayRefresh(t)
  \/ \E S \in SUBSET DOMAIN tokens : AdminRevoke(S)
  \/ \E c \in Clients, active \in BOOLEAN : SwitchClient(c, active)
  \/ \E u \in Users, active \in BOOLEAN : SwitchUser(u, active)
  \/ \E u \in Users : DeleteUser(u)

Spec == Init /\ [][Next]_vars

\* Time passes and the cron job keeps running.
FairSpec == Spec /\ WF_vars(Tick) /\ WF_vars(GC)
-----------------------------------------------------------------------------
(***************************************************************************)
(* Properties.                                                             *)
(***************************************************************************)

\* Rotation never forks: of the tokens of one refresh family at most one is
\* unrevoked, through every mix of rotation, replay, admin revocation and
\* garbage collection (_save_token, revoke_old_credential, _revoke_family).
OneLivePerFamily ==
  \A t, n \in DOMAIN tokens :
    /\ tokens[t].family = tokens[n].family
    /\ ~tokens[t].revoked /\ ~tokens[n].revoked
    => t = n

\* The grant a token row and a code row stand for.
SameGrant(token, code) ==
  /\ token.client = code.client
  /\ token.user = code.user
  /\ token.scope = code.scope
  /\ code.resource # Absent => token.audience = code.resource

\* Replaying the redeemed code k revokes the live token t.
Guards(k, t) ==
  /\ codes[k].used
  /\ codes[k].family = tokens[t].family
  /\ SameGrant(tokens[t], codes[k])

\* Replay containment: a family with a live token still has the redeemed code
\* it came from, however many rotations and collections ago that was, exactly
\* one, and its token carries that code's grant (the keep-rule of _gc_oauth).
LiveFamilyIsGuarded ==
  \A t \in LiveTokens : \E k \in DOMAIN codes :
    /\ Guards(k, t)
    /\ \A j \in DOMAIN codes : Guards(j, t) => j = k

\* Consent cannot raise a read-only registration: a write-scoped token belongs
\* to a client whose registration allows write (authorize, _save_token).
NeverUpscoped ==
  \A t \in DOMAIN tokens : tokens[t].scope = "mcp:write" =>
    /\ tokens[t].client \in DOMAIN clients
    /\ ClientAllowsWrite(clients[tokens[t].client].scope)

\* The inductive invariant: the properties above and what they rest on.
RowsAreMinted ==
  /\ DOMAIN clients \cup DOMAIN codes \cup DOMAIN tokens \subseteq minted
  /\ \A t \in DOMAIN tokens : tokens[t].family \in minted
  /\ \A k \in DOMAIN codes :
       codes[k].family = NoFamily \/ codes[k].family \in minted

\* The foreign keys: rows go with the client and the user they point at.
KeysResolve ==
  /\ \A k \in DOMAIN codes :
       codes[k].client \in DOMAIN clients /\ codes[k].user \in DOMAIN users
  /\ \A t \in DOMAIN tokens :
       tokens[t].client \in DOMAIN clients /\ tokens[t].user \in DOMAIN users

\* A used code names its own family, and all tokens of it carry its grant.
FamiliesMatchCodes ==
  /\ \A k \in DOMAIN codes : codes[k].used <=> codes[k].family # NoFamily
  /\ \A j, k \in DOMAIN codes :
       codes[j].used /\ codes[j].family = codes[k].family => j = k
  /\ \A k \in DOMAIN codes, t \in DOMAIN tokens :
       tokens[t].family = codes[k].family => SameGrant(tokens[t], codes[k])

CodesNeverUpscoped ==
  \A k \in DOMAIN codes : codes[k].scope = "mcp:write" =>
    ClientAllowsWrite(clients[codes[k].client].scope)

GrantInv ==
  /\ TypeOK
  /\ RowsAreMinted
  /\ KeysResolve
  /\ FamiliesMatchCodes
  /\ CodesNeverUpscoped
  /\ NeverUpscoped
  /\ OneLivePerFamily
  /\ LiveFamilyIsGuarded

\* A collection, cascades included, never takes a token that can still be
\* presented, nor the client, user and owner it needs to be accepted.
CollectionSparesLiveTokens ==
  [][GC => \A t \in LiveTokens :
       /\ t \in DOMAIN tokens'
       /\ tokens[t].client \in DOMAIN clients']_vars

\* The families seen as chains of holders: the unrevoked token is the holder.
Unrevoked(f) ==
  {t \in DOMAIN tokens : tokens[t].family = f /\ ~tokens[t].revoked}

HolderOf ==
  [f \in Tokens |-> IF Unrevoked(f) = {} THEN NoFamily
                    ELSE CHOOSE t \in Unrevoked(f) : TRUE]

Chain == INSTANCE GrantChain WITH
           NoHolder <- NoFamily, holder <- HolderOf, known <- minted \cap Tokens

\* Every handler implements the chain: a family passes from one holder to one
\* new token or dies, and neither a family nor a token ever comes back.
HandsOver == Chain!ChainSpec

\* The collector's promise: a code that guards nothing, a token past both its
\* expiries and an abandoned dynamic client do not stay in the tables.
SpentIsCollected ==
  /\ \A k \in Codes :
       (k \in DOMAIN codes /\ codes[k].expires < now
          /\ codes[k].family \notin LiveFamilies)
         ~> (k \notin DOMAIN codes)
  /\ \A t \in Tokens : (t \in CollectedTokens) ~> (t \notin DOMAIN tokens)
  /\ \A c \in Clients :
       (c \in CollectedClients)
         ~> (c \notin DOMAIN clients \/ c \in {tokens[t].client : t \in LiveTokens})
=============================================================================
