-------------------------- MODULE OAuthGrantProofs --------------------------
(***************************************************************************)
(* Proofs about OAuthGrant, for any sets of names and any lifetimes: the   *)
(* inductive invariant GrantInv, the properties it implies, and the        *)
(* refinement of GrantChain.                                               *)
(***************************************************************************)
EXTENDS OAuthGrant, TLAPS

USE NamesAreDisjoint, NoFamilyIsNoToken, LifetimesAreOrdered, ClockIsBounded

-----------------------------------------------------------------------------
(***************************************************************************)
(* The rows the helpers build.                                             *)
(***************************************************************************)
\* Deleting rows keeps the ones that stay as they are.
LEMMA RestrictRows ==
  ASSUME NEW table, NEW S
  PROVE  /\ DOMAIN Restrict(table, S) = S
         /\ \A x \in S : Restrict(table, S)[x] = table[x]
BY DEF Restrict

\* A new pair is a well-formed, unrevoked row.
LEMMA NewTokenRow ==
  ASSUME TypeOK, NEW c \in DOMAIN clients, NEW u \in Users,
         NEW scope \in {"mcp:read", "mcp:write"},
         NEW audience \in (Resources \cup {Ours}) \ {Absent}, NEW f \in Tokens
  PROVE  LET row == NewToken(c, u, scope, audience, f)
         IN  /\ row \in TokenRow
             /\ row.client = c /\ row.user = u /\ row.scope = scope
             /\ row.audience = audience /\ row.family = f /\ ~row.revoked
<1>1. c \in Clients /\ clients[c].rotates \in BOOLEAN
  BY DEF TypeOK, ClientRow
<1>2. now + AccessTTL \in Nat /\ now + RefreshTTL \in Nat
  BY DEF TypeOK
<1> QED BY <1>1, <1>2 DEF NewToken, TokenRow

\* Revoking changes no row's field but revoked, and that only to TRUE.
RevokesOnly(old, new) ==
  /\ DOMAIN new = DOMAIN old
  /\ \A t \in DOMAIN old :
       \/ new[t] = old[t]
       \/ new[t] = [old[t] EXCEPT !.revoked = TRUE]

\* A revoked row differs from its former self in the flag alone.
LEMMA RevokedRow ==
  ASSUME NEW row \in TokenRow
  PROVE  LET r == [row EXCEPT !.revoked = TRUE]
         IN  /\ r \in TokenRow /\ r.revoked
             /\ r.client = row.client /\ r.user = row.user
             /\ r.scope = row.scope /\ r.audience = row.audience
             /\ r.family = row.family /\ r.access = row.access
             /\ r.refresh = row.refresh
BY DEF TokenRow

\* Revoking a family revokes a set of tokens and touches nothing else.
LEMMA FamilyRevocation ==
  ASSUME NEW f PROVE RevokesOnly(tokens, RevokeFamily(f))
BY DEF RevokesOnly, RevokeFamily
-----------------------------------------------------------------------------
(***************************************************************************)
(* The invariant is inductive.                                             *)
(***************************************************************************)
\* The empty tables satisfy the invariant.
LEMMA InitGrantInv == Init => GrantInv
<1> SUFFICES ASSUME Init PROVE GrantInv
  OBVIOUS
<1>1. DOMAIN clients = {} /\ DOMAIN codes = {} /\ DOMAIN tokens = {}
  BY DEF Init, NoRows
<1>2. TypeOK
  BY <1>1 DEF Init, TypeOK
<1>3. LiveTokens = {}
  BY <1>1 DEF LiveTokens
<1> QED
  BY <1>1, <1>2, <1>3 DEF Init, GrantInv, RowsAreMinted, KeysResolve,
     FamiliesMatchCodes, CodesNeverUpscoped, NeverUpscoped, OneLivePerFamily,
     LiveFamilyIsGuarded

\* Time only ages tokens: nothing becomes live by waiting.
LEMMA TickGrantInv == GrantInv /\ Tick => GrantInv'
<1> SUFFICES ASSUME GrantInv, Tick PROVE GrantInv'
  OBVIOUS
<1> USE DEF GrantInv, Tick
<1>1. TypeOK'
  BY DEF TypeOK
<1>2. LiveTokens' \subseteq LiveTokens
  BY DEF LiveTokens, TypeOK, TokenRow, Never
<1>3. LiveFamilyIsGuarded'
  BY <1>2 DEF LiveFamilyIsGuarded, Guards, SameGrant
<1> QED
  BY <1>1, <1>3 DEF RowsAreMinted, KeysResolve, FamiliesMatchCodes,
     CodesNeverUpscoped, NeverUpscoped, OneLivePerFamily, SameGrant

\* Revocation, whoever asks for it and of whichever tokens.
LEMMA RevocationGrantInv ==
  ASSUME GrantInv, RevokesOnly(tokens, tokens'),
         UNCHANGED <<now, users, clients, codes, minted>>
  PROVE  GrantInv'
<1> USE DEF GrantInv
<1>1. ASSUME NEW t \in DOMAIN tokens
      PROVE  /\ tokens'[t] \in TokenRow
             /\ tokens'[t].client = tokens[t].client
             /\ tokens'[t].user = tokens[t].user
             /\ tokens'[t].scope = tokens[t].scope
             /\ tokens'[t].audience = tokens[t].audience
             /\ tokens'[t].family = tokens[t].family
             /\ tokens'[t].access = tokens[t].access
             /\ tokens'[t].refresh = tokens[t].refresh
             /\ tokens[t].revoked => tokens'[t].revoked
  <2>1. tokens[t] \in TokenRow
    BY DEF TypeOK
  <2>2. \/ tokens'[t] = tokens[t]
        \/ tokens'[t] = [tokens[t] EXCEPT !.revoked = TRUE]
    BY DEF RevokesOnly
  <2> QED BY <2>1, <2>2, RevokedRow
<1>2. DOMAIN tokens' = DOMAIN tokens
  BY DEF RevokesOnly
<1>3. TypeOK'
  BY <1>1, <1>2 DEF TypeOK
<1>4. LiveTokens' \subseteq LiveTokens
  BY <1>1, <1>2 DEF LiveTokens
<1>5. LiveFamilyIsGuarded'
  BY <1>1, <1>4 DEF LiveFamilyIsGuarded, Guards, LiveTokens, SameGrant
<1>6. FamiliesMatchCodes'
  BY <1>1, <1>2 DEF FamiliesMatchCodes, SameGrant
<1>7. OneLivePerFamily'
  BY <1>1, <1>2 DEF OneLivePerFamily
<1> QED
  BY <1>1, <1>2, <1>3, <1>5, <1>6, <1>7 DEF RowsAreMinted, KeysResolve,
     CodesNeverUpscoped, NeverUpscoped

\* Deletion: rows only disappear, and they do so along the foreign keys and
\* never a live token's code before the token.
LEMMA DeletionGrantInv ==
  ASSUME GrantInv, UNCHANGED <<now, minted>>,
         DOMAIN users' \subseteq DOMAIN users,
         DOMAIN clients' \subseteq DOMAIN clients,
         DOMAIN codes' \subseteq DOMAIN codes,
         DOMAIN tokens' \subseteq DOMAIN tokens,
         \A u \in DOMAIN users' : users'[u] = users[u],
         \A c \in DOMAIN clients' : clients'[c] = clients[c],
         \A k \in DOMAIN codes' : codes'[k] = codes[k],
         \A t \in DOMAIN tokens' : tokens'[t] = tokens[t],
         KeysResolve',
         \A t \in DOMAIN tokens' \cap LiveTokens, k \in DOMAIN codes :
           codes[k].family = tokens[t].family => k \in DOMAIN codes'
  PROVE  GrantInv'
<1> USE DEF GrantInv
<1>1. TypeOK'
  BY DEF TypeOK
<1>2. LiveTokens' \subseteq DOMAIN tokens' \cap LiveTokens
  BY DEF LiveTokens
<1>3. LiveFamilyIsGuarded'
  BY <1>2 DEF LiveFamilyIsGuarded, Guards, SameGrant
<1>4. FamiliesMatchCodes'
  BY DEF FamiliesMatchCodes, SameGrant
<1>5. CodesNeverUpscoped' /\ NeverUpscoped'
  BY DEF CodesNeverUpscoped, NeverUpscoped, KeysResolve
<1> QED
  BY <1>1, <1>3, <1>4, <1>5 DEF RowsAreMinted, OneLivePerFamily

\* Deleting a user takes the user's codes and tokens together.
LEMMA DeleteUserGrantInv ==
  ASSUME GrantInv, NEW u \in Users, DeleteUser(u) PROVE GrantInv'
<1> USE DEF GrantInv, DeleteUser
<1>1. /\ DOMAIN users' = DOMAIN users \ {u}
      /\ DOMAIN codes' = {k \in DOMAIN codes : codes[k].user # u}
      /\ DOMAIN tokens' = {t \in DOMAIN tokens : tokens[t].user # u}
  BY RestrictRows
<1>2. /\ \A v \in DOMAIN users' : users'[v] = users[v]
      /\ \A k \in DOMAIN codes' : codes'[k] = codes[k]
      /\ \A t \in DOMAIN tokens' : tokens'[t] = tokens[t]
  BY RestrictRows
<1>3. KeysResolve'
  BY <1>1, <1>2 DEF KeysResolve
<1>4. \A t \in DOMAIN tokens', k \in DOMAIN codes :
        codes[k].family = tokens[t].family => k \in DOMAIN codes'
  BY <1>1 DEF FamiliesMatchCodes, SameGrant
<1> QED
  BY <1>1, <1>2, <1>3, <1>4, DeletionGrantInv

\* The collector: the keep-rule and the pinned clients are what is needed.
LEMMA GCGrantInv == GrantInv /\ GC => GrantInv'
<1> SUFFICES ASSUME GrantInv, GC PROVE GrantInv'
  OBVIOUS
<1> USE DEF GrantInv, GC
<1>1. /\ DOMAIN clients' = DOMAIN clients \ CollectedClients
      /\ DOMAIN codes' = {k \in DOMAIN codes \ CollectedCodes :
                            codes[k].client \notin CollectedClients}
      /\ DOMAIN tokens' = {t \in DOMAIN tokens \ CollectedTokens :
                             tokens[t].client \notin CollectedClients}
  BY RestrictRows
<1>2. /\ \A c \in DOMAIN clients' : clients'[c] = clients[c]
      /\ \A k \in DOMAIN codes' : codes'[k] = codes[k]
      /\ \A t \in DOMAIN tokens' : tokens'[t] = tokens[t]
  BY RestrictRows
<1>3. KeysResolve'
  BY <1>1, <1>2 DEF KeysResolve
<1>4. ASSUME NEW t \in DOMAIN tokens' \cap LiveTokens, NEW k \in DOMAIN codes,
             codes[k].family = tokens[t].family
      PROVE  k \in DOMAIN codes'
  <2>1. codes[k].used /\ codes[k].family \in LiveFamilies
    BY <1>4 DEF FamiliesMatchCodes, LiveFamilies, LiveTokens, TypeOK, TokenRow
  <2>2. codes[k].client = tokens[t].client
    BY <1>4 DEF FamiliesMatchCodes, SameGrant, LiveTokens
  <2>3. tokens[t].client \notin CollectedClients
    BY DEF CollectedClients
  <2> QED BY <1>1, <2>1, <2>2, <2>3 DEF CollectedCodes
<1> QED
  BY <1>1, <1>2, <1>3, <1>4, DeletionGrantInv

\* Switching a client or a user on or off touches nothing the invariant reads.
LEMMA SwitchClientGrantInv ==
  ASSUME GrantInv, NEW c \in Clients, NEW b \in BOOLEAN, SwitchClient(c, b)
  PROVE  GrantInv'
<1> USE DEF GrantInv, SwitchClient
<1>1. DOMAIN clients' = DOMAIN clients
  OBVIOUS
<1>2. ASSUME NEW d \in DOMAIN clients
      PROVE  clients'[d] \in ClientRow /\ clients'[d].scope = clients[d].scope
  BY DEF TypeOK, ClientRow
<1>3. TypeOK'
  BY <1>1, <1>2 DEF TypeOK
<1>4. LiveTokens' = LiveTokens
  BY DEF LiveTokens
<1>5. CodesNeverUpscoped' /\ NeverUpscoped'
  BY <1>1, <1>2 DEF CodesNeverUpscoped, NeverUpscoped, KeysResolve
<1> QED
  BY <1>1, <1>3, <1>4, <1>5 DEF RowsAreMinted, KeysResolve,
     FamiliesMatchCodes, OneLivePerFamily, LiveFamilyIsGuarded, Guards, SameGrant

\* Archiving and restoring a user touches no row the invariant reads.
LEMMA SwitchUserGrantInv ==
  ASSUME GrantInv, NEW u \in Users, NEW b \in BOOLEAN, SwitchUser(u, b)
  PROVE  GrantInv'
<1> USE DEF GrantInv, SwitchUser
<1>1. DOMAIN users' = DOMAIN users
  OBVIOUS
<1>2. TypeOK'
  BY <1>1 DEF TypeOK
<1>3. LiveTokens' = LiveTokens
  BY DEF LiveTokens
<1> QED
  BY <1>1, <1>2, <1>3 DEF RowsAreMinted, KeysResolve, FamiliesMatchCodes,
     CodesNeverUpscoped, NeverUpscoped, OneLivePerFamily,
     LiveFamilyIsGuarded, Guards, SameGrant

\* A new client is unknown to every code and token.
LEMMA AddClientGrantInv ==
  ASSUME GrantInv, NEW c \in Clients, NEW via \in {"dcr", "manual"},
         NEW scope \in Registrations, NEW rotates \in BOOLEAN,
         AddClient(c, via, scope, rotates)
  PROVE  GrantInv'
<1> USE DEF GrantInv, AddClient
<1> DEFINE row == [via |-> via, scope |-> scope, rotates |-> rotates,
                   active |-> TRUE, created |-> now]
<1>1. row \in ClientRow
  BY DEF TypeOK, ClientRow, ScopeTokens
<1> HIDE DEF row
<1>2. /\ DOMAIN clients' = DOMAIN clients \cup {c}
      /\ clients'[c] = row
      /\ \A d \in DOMAIN clients : clients'[d] = clients[d]
  <2>1. clients' = Put(clients, c, row) /\ c \notin DOMAIN clients
    BY DEF RowsAreMinted, row
  <2> QED BY <2>1 DEF Put
<1>3. TypeOK'
  BY <1>1, <1>2 DEF TypeOK
<1>4. LiveTokens' = LiveTokens
  BY DEF LiveTokens
<1>5. CodesNeverUpscoped' /\ NeverUpscoped'
  BY <1>2 DEF CodesNeverUpscoped, NeverUpscoped, KeysResolve
<1>6. RowsAreMinted' /\ KeysResolve'
  BY <1>2 DEF RowsAreMinted, KeysResolve
<1> QED
  BY <1>3, <1>4, <1>5, <1>6 DEF FamiliesMatchCodes, OneLivePerFamily,
     LiveFamilyIsGuarded, Guards, SameGrant

\* A new code is unused, so it founds and guards nothing yet.
LEMMA AuthorizeGrantInv ==
  ASSUME GrantInv, NEW c \in Clients, NEW u \in Users, NEW k \in Codes,
         Authorize(c, u, k)
  PROVE  GrantInv'
<1> USE DEF GrantInv
<1> PICK requested \in Requests, tick \in BOOLEAN,
         resource \in {Absent, Ours} \cap Resources :
      Authorize(c, u, k)!(requested, tick, resource)
  BY DEF Authorize
<1> DEFINE row == [client |-> c, user |-> u,
          scope |-> GrantedScope(clients[c].scope, requested, tick),
          resource |-> resource, expires |-> now + CodeTTL,
          used |-> FALSE, family |-> NoFamily]
<1>1. row \in CodeRow
  BY DEF TypeOK, CodeRow, GrantedScope
<1>2. /\ DOMAIN codes' = DOMAIN codes \cup {k}
      /\ codes'[k] = row
      /\ k \notin DOMAIN codes
      /\ \A j \in DOMAIN codes : codes'[j] = codes[j]
  <2>1. codes' = Put(codes, k, row) /\ k \notin DOMAIN codes
    BY DEF RowsAreMinted
  <2> HIDE DEF row
  <2> QED BY <2>1 DEF Put
<1>3. /\ row.client = c /\ row.user = u /\ row.family = NoFamily /\ ~row.used
      /\ row.scope = "mcp:write" => ClientAllowsWrite(clients[c].scope)
  BY DEF GrantedScope
<1>4. c \in DOMAIN clients /\ u \in DOMAIN users
  BY DEF ActiveClient, ActiveUser
<1> HIDE DEF row
<1>5. TypeOK'
  BY <1>1, <1>2 DEF TypeOK
<1>6. LiveTokens' = LiveTokens
  BY DEF LiveTokens
<1>7. \A t \in DOMAIN tokens : tokens[t].family # NoFamily
  BY DEF TypeOK, TokenRow
<1>8. FamiliesMatchCodes'
  <2>1. \A j \in DOMAIN codes' : codes'[j].used <=> codes'[j].family # NoFamily
    BY <1>2, <1>3 DEF FamiliesMatchCodes
  <2>2. ASSUME NEW i \in DOMAIN codes', NEW j \in DOMAIN codes',
               codes'[i].used, codes'[i].family = codes'[j].family
        PROVE  i = j
    <3>1. i # k /\ codes'[i].family # NoFamily
      BY <1>2, <1>3, <2>1, <2>2
    <3>2. j # k
      BY <1>2, <1>3, <2>2, <3>1
    <3> QED BY <1>2, <2>2, <3>1, <3>2 DEF FamiliesMatchCodes
  <2>3. \A j \in DOMAIN codes', t \in DOMAIN tokens :
          tokens[t].family = codes'[j].family => SameGrant(tokens[t], codes'[j])
    BY <1>2, <1>3, <1>7 DEF FamiliesMatchCodes
  <2>4. tokens' = tokens
    OBVIOUS
  <2> QED BY <2>1, <2>2, <2>3, <2>4 DEF FamiliesMatchCodes
<1>9. LiveFamilyIsGuarded'
  <2>1. \A t \in LiveTokens : \A j \in DOMAIN codes : Guards(j, t)' <=> Guards(j, t)
    BY <1>2 DEF Guards, SameGrant
  <2>2. \A t \in LiveTokens : ~Guards(k, t)'
    BY <1>2, <1>3 DEF Guards
  <2> SUFFICES ASSUME NEW t \in LiveTokens
               PROVE  \E j \in DOMAIN codes' :
                        /\ Guards(j, t)'
                        /\ \A i \in DOMAIN codes' : Guards(i, t)' => i = j
    BY <1>6 DEF LiveFamilyIsGuarded
  <2>3. PICK j \in DOMAIN codes :
           Guards(j, t) /\ \A i \in DOMAIN codes : Guards(i, t) => i = j
    BY DEF LiveFamilyIsGuarded
  <2>4. j \in DOMAIN codes' /\ Guards(j, t)'
    BY <1>2, <2>1, <2>3
  <2>5. ASSUME NEW i \in DOMAIN codes', Guards(i, t)' PROVE i = j
    BY <1>2, <2>1, <2>2, <2>3, <2>5
  <2> QED BY <2>4, <2>5
<1>10. CodesNeverUpscoped' /\ NeverUpscoped'
  BY <1>2, <1>3 DEF CodesNeverUpscoped, NeverUpscoped
<1>11. RowsAreMinted' /\ KeysResolve'
  BY <1>2, <1>3, <1>4 DEF RowsAreMinted, KeysResolve
<1> QED
  BY <1>5, <1>8, <1>9, <1>10, <1>11 DEF OneLivePerFamily

\* A redeemed code founds a family of one, named by the fresh token.
LEMMA RedeemCodeGrantInv ==
  ASSUME GrantInv, NEW k \in Codes, NEW t \in Tokens, RedeemCode(k, t)
  PROVE  GrantInv'
<1> USE DEF GrantInv
<1>0. PICK resource \in Resources : RedeemCode(k, t)!(resource)
  BY DEF RedeemCode
<1> DEFINE code == [codes[k] EXCEPT !.used = TRUE, !.family = t]
           row == NewToken(codes[k].client, codes[k].user, codes[k].scope,
                           Audience(k, resource), t)
<1>1. /\ k \in DOMAIN codes /\ ~codes[k].used /\ t \notin minted
      /\ codes[k] \in CodeRow
      /\ codes[k].client \in DOMAIN clients /\ codes[k].user \in DOMAIN users
      /\ UNCHANGED <<now, users, clients>> /\ minted' = minted \cup {t}
  BY <1>0 DEF TypeOK, CodeIsValid, ActiveClient, ActiveUser
<1>2. /\ row \in TokenRow
      /\ row.client = codes[k].client /\ row.user = codes[k].user
      /\ row.scope = codes[k].scope /\ row.audience = Audience(k, resource)
      /\ row.family = t /\ ~row.revoked
  <2>1. Audience(k, resource) \in (Resources \cup {Ours}) \ {Absent}
    BY <1>1 DEF Audience, CodeRow, Ours, Absent
  <2> QED BY <1>1, <2>1, NewTokenRow DEF CodeRow
<1>3. /\ code \in CodeRow /\ code.used /\ code.family = t
      /\ code.client = codes[k].client /\ code.user = codes[k].user
      /\ code.scope = codes[k].scope /\ code.resource = codes[k].resource
  BY <1>1 DEF CodeRow
<1>4. code.resource # Absent => row.audience = code.resource
  BY <1>2, <1>3 DEF Audience
<1>5. /\ t \notin DOMAIN tokens
      /\ \A n \in DOMAIN tokens : tokens[n].family # t
      /\ \A j \in DOMAIN codes : codes[j].family # t
  BY <1>1 DEF RowsAreMinted
<1>6. /\ DOMAIN tokens' = DOMAIN tokens \cup {t} /\ tokens'[t] = row
      /\ \A n \in DOMAIN tokens : tokens'[n] = tokens[n]
  <2>1. tokens' = Put(tokens, t, row)
    BY <1>0
  <2> HIDE DEF row
  <2> QED BY <1>5, <2>1 DEF Put
<1>7. /\ DOMAIN codes' = DOMAIN codes /\ codes'[k] = code
      /\ \A j \in DOMAIN codes \ {k} : codes'[j] = codes[j]
  BY <1>0, <1>1
<1> HIDE DEF row, code
<1>8. TypeOK'
  BY <1>1, <1>2, <1>3, <1>6, <1>7 DEF TypeOK
<1>9. RowsAreMinted' /\ KeysResolve'
  BY <1>1, <1>2, <1>3, <1>6, <1>7 DEF RowsAreMinted, KeysResolve
<1>10. FamiliesMatchCodes'
  <2>1. \A j \in DOMAIN codes' : codes'[j].used <=> codes'[j].family # NoFamily
    BY <1>3, <1>7 DEF FamiliesMatchCodes
  <2>2. ASSUME NEW i \in DOMAIN codes', NEW j \in DOMAIN codes',
               codes'[i].used, codes'[i].family = codes'[j].family
        PROVE  i = j
    BY <1>3, <1>5, <1>7, <2>2 DEF FamiliesMatchCodes
  <2>3. ASSUME NEW j \in DOMAIN codes', NEW n \in DOMAIN tokens',
               tokens'[n].family = codes'[j].family
        PROVE  SameGrant(tokens'[n], codes'[j])
    <3>1. CASE n = t
      <4>1. j = k
        BY <1>2, <1>5, <1>6, <1>7, <2>3, <3>1
      <4> QED BY <1>2, <1>3, <1>4, <1>6, <1>7, <3>1, <4>1 DEF SameGrant
    <3>2. CASE n # t
      <4>1. j # k
        BY <1>3, <1>5, <1>6, <1>7, <2>3, <3>2
      <4> QED BY <1>6, <1>7, <2>3, <3>2, <4>1 DEF FamiliesMatchCodes
    <3> QED BY <3>1, <3>2
  <2> QED BY <2>1, <2>2, <2>3 DEF FamiliesMatchCodes
<1>11. CodesNeverUpscoped' /\ NeverUpscoped'
  BY <1>1, <1>2, <1>3, <1>6, <1>7 DEF CodesNeverUpscoped, NeverUpscoped
<1>12. OneLivePerFamily'
  BY <1>2, <1>5, <1>6 DEF OneLivePerFamily
<1>13. LiveFamilyIsGuarded'
  <2> SUFFICES ASSUME NEW n \in LiveTokens'
               PROVE  \E j \in DOMAIN codes' : Guards(j, n)'
    BY <1>8, <1>10 DEF LiveFamilyIsGuarded, Guards, FamiliesMatchCodes
  <2>1. CASE n = t
    BY <1>1, <1>2, <1>3, <1>4, <1>6, <1>7, <2>1 DEF Guards, SameGrant
  <2>2. CASE n # t
    <3>1. n \in LiveTokens
      BY <1>1, <1>6, <2>2 DEF LiveTokens
    <3>2. PICK j \in DOMAIN codes : Guards(j, n)
      BY <3>1 DEF LiveFamilyIsGuarded
    <3>3. j # k /\ n \in DOMAIN tokens
      BY <1>1, <3>1, <3>2 DEF Guards, LiveTokens
    <3>4. Guards(j, n)'
      BY <1>6, <1>7, <3>2, <3>3 DEF Guards
    <3> QED BY <1>7, <3>4
  <2> QED BY <2>1, <2>2
<1> QED BY <1>8, <1>9, <1>10, <1>11, <1>12, <1>13

\* A rotation hands the family, and its grant, to the fresh token.
LEMMA RefreshTokenGrantInv ==
  ASSUME GrantInv, NEW t \in Tokens, NEW n \in Tokens, RefreshToken(t, n)
  PROVE  GrantInv'
<1> USE DEF GrantInv
<1> DEFINE old == [tokens[t] EXCEPT !.revoked = TRUE]
           row == NewToken(tokens[t].client, tokens[t].user, tokens[t].scope,
                           tokens[t].audience, tokens[t].family)
<1>1. /\ t \in DOMAIN tokens /\ t \in LiveTokens /\ n \notin minted
      /\ ~tokens[t].revoked /\ tokens[t] \in TokenRow
      /\ tokens[t].client \in DOMAIN clients /\ tokens[t].user \in DOMAIN users
      /\ UNCHANGED <<now, users, clients, codes>> /\ minted' = minted \cup {n}
  BY DEF RefreshToken, TypeOK, RefreshIsValid, LiveTokens, ActiveClient, ActiveUser
<1>2. /\ row \in TokenRow
      /\ row.client = tokens[t].client /\ row.user = tokens[t].user
      /\ row.scope = tokens[t].scope /\ row.audience = tokens[t].audience
      /\ row.family = tokens[t].family /\ ~row.revoked
  BY <1>1, NewTokenRow DEF TokenRow
<1>3. /\ old \in TokenRow /\ old.revoked
      /\ old.client = tokens[t].client /\ old.user = tokens[t].user
      /\ old.scope = tokens[t].scope /\ old.audience = tokens[t].audience
      /\ old.family = tokens[t].family
  BY <1>1, RevokedRow
<1>4. n \notin DOMAIN tokens /\ n # t
  BY <1>1 DEF RowsAreMinted
<1>5. /\ DOMAIN tokens' = DOMAIN tokens \cup {n} /\ tokens'[n] = row
      /\ tokens'[t] = old
      /\ \A m \in DOMAIN tokens \ {t} : tokens'[m] = tokens[m]
  <2>1. tokens' = Put([tokens EXCEPT ![t] = old], n, row)
    BY <1>1 DEF RefreshToken
  <2> HIDE DEF row, old
  <2> QED BY <1>1, <1>4, <2>1 DEF Put
<1> HIDE DEF row, old
<1>6. TypeOK'
  BY <1>1, <1>2, <1>3, <1>5 DEF TypeOK
<1>7. RowsAreMinted' /\ KeysResolve'
  BY <1>1, <1>2, <1>3, <1>5 DEF RowsAreMinted, KeysResolve
<1>8. FamiliesMatchCodes'
  BY <1>1, <1>2, <1>3, <1>5 DEF FamiliesMatchCodes, SameGrant
<1>9. CodesNeverUpscoped' /\ NeverUpscoped'
  BY <1>1, <1>2, <1>3, <1>5 DEF CodesNeverUpscoped, NeverUpscoped
<1>10. OneLivePerFamily'
  BY <1>1, <1>2, <1>3, <1>5 DEF OneLivePerFamily
<1>11. LiveFamilyIsGuarded'
  <2> SUFFICES ASSUME NEW m \in LiveTokens'
               PROVE  \E j \in DOMAIN codes' : Guards(j, m)'
    BY <1>6, <1>8 DEF LiveFamilyIsGuarded, Guards, FamiliesMatchCodes
  <2> DEFINE o == IF m = n THEN t ELSE m
  <2>1. o \in LiveTokens
    BY <1>1, <1>3, <1>5 DEF LiveTokens
  <2>2. PICK j \in DOMAIN codes : Guards(j, o)
    BY <2>1 DEF LiveFamilyIsGuarded
  <2>3. m # t
    BY <1>3, <1>5 DEF LiveTokens
  <2>4. Guards(j, m)'
    BY <1>1, <1>2, <1>4, <1>5, <2>1, <2>2, <2>3 DEF Guards, SameGrant, LiveTokens
  <2> QED BY <1>1, <2>4
<1> QED BY <1>6, <1>7, <1>8, <1>9, <1>10, <1>11

\* Every step of every handler preserves the invariant.
LEMMA NextGrantInv == GrantInv /\ [Next]_vars => GrantInv'
<1> SUFFICES ASSUME GrantInv, [Next]_vars PROVE GrantInv'
  OBVIOUS
<1>1. CASE Tick
  BY <1>1, TickGrantInv
<1>2. CASE GC
  BY <1>2, GCGrantInv
<1>3. ASSUME NEW c \in Clients, Register(c) \/ Provision(c)
      PROVE  GrantInv'
  BY <1>3, AddClientGrantInv DEF Register, Provision
<1>4. ASSUME NEW c \in Clients, NEW u \in Users, NEW k \in Codes,
             Authorize(c, u, k)
      PROVE  GrantInv'
  BY <1>4, AuthorizeGrantInv
<1>5. ASSUME NEW k \in Codes, NEW t \in Tokens, RedeemCode(k, t)
      PROVE  GrantInv'
  BY <1>5, RedeemCodeGrantInv
<1>6. ASSUME NEW k \in Codes, ReplayCode(k)
      PROVE  GrantInv'
  BY <1>6, FamilyRevocation, RevocationGrantInv DEF ReplayCode
<1>7. ASSUME NEW t \in Tokens, NEW n \in Tokens, RefreshToken(t, n)
      PROVE  GrantInv'
  BY <1>7, RefreshTokenGrantInv
<1>8. ASSUME NEW t \in Tokens, ReplayRefresh(t)
      PROVE  GrantInv'
  BY <1>8, FamilyRevocation, RevocationGrantInv DEF ReplayRefresh
<1>9. ASSUME NEW S \in SUBSET DOMAIN tokens, AdminRevoke(S)
      PROVE  GrantInv'
  <2>1. RevokesOnly(tokens, tokens')
    BY <1>9 DEF AdminRevoke, RevokesOnly
  <2> QED BY <1>9, <2>1, RevocationGrantInv DEF AdminRevoke
<1>10. ASSUME NEW c \in Clients, NEW b \in BOOLEAN, SwitchClient(c, b)
       PROVE  GrantInv'
  BY <1>10, SwitchClientGrantInv
<1>11. ASSUME NEW u \in Users, NEW b \in BOOLEAN, SwitchUser(u, b)
       PROVE  GrantInv'
  BY <1>11, SwitchUserGrantInv
<1>12. ASSUME NEW u \in Users, DeleteUser(u)
       PROVE  GrantInv'
  BY <1>12, DeleteUserGrantInv
<1>13. CASE UNCHANGED vars
  <2>1. RevokesOnly(tokens, tokens')
    BY <1>13 DEF vars, RevokesOnly
  <2> QED BY <1>13, <2>1, RevocationGrantInv DEF vars
<1> QED
  BY <1>1, <1>2, <1>3, <1>4, <1>5, <1>6, <1>7, <1>8, <1>9, <1>10, <1>11,
     <1>12, <1>13 DEF Next

\* The invariant holds throughout every behavior of the server's handlers.
THEOREM GrantInvariant == Spec => []GrantInv
<1>1. Init => GrantInv
  BY InitGrantInv
<1>2. GrantInv /\ [Next]_vars => GrantInv'
  BY NextGrantInv
<1> QED BY <1>1, <1>2, PTL DEF Spec

\* The tables keep their columns' types, whatever the handlers do.
THEOREM TypeCorrect == Spec => []TypeOK
<1>1. GrantInv => TypeOK
  BY DEF GrantInv
<1> QED BY <1>1, GrantInvariant, PTL

\* Rotation never forks a refresh family (_save_token with _revoke).
THEOREM OneLiveTokenPerFamily == Spec => []OneLivePerFamily
<1>1. GrantInv => OneLivePerFamily
  BY DEF GrantInv
<1> QED BY <1>1, GrantInvariant, PTL

\* The collector's keep-rule is enough: a live family's code is never lost, so
\* a replay of the code can always be contained (_gc_oauth, _detect_reuse).
THEOREM LiveFamiliesAreGuarded == Spec => []LiveFamilyIsGuarded
<1>1. GrantInv => LiveFamilyIsGuarded
  BY DEF GrantInv
<1> QED BY <1>1, GrantInvariant, PTL

\* No chain of consent, redemption and rotation turns a read-only registration
\* into a write-scoped token (authorize, _save_token).
THEOREM WriteNeedsRegistration == Spec => []NeverUpscoped
<1>1. GrantInv => NeverUpscoped
  BY DEF GrantInv
<1> QED BY <1>1, GrantInvariant, PTL

\* No collection takes a token that can still be presented (_gc_oauth).
THEOREM CollectorSparesLiveTokens == Spec => CollectionSparesLiveTokens
<1>1. GrantInv /\ GC => \A t \in LiveTokens :
        t \in DOMAIN tokens' /\ tokens[t].client \in DOMAIN clients'
  <2> SUFFICES ASSUME GrantInv, GC, NEW t \in LiveTokens
               PROVE  /\ t \in DOMAIN tokens'
                      /\ tokens[t].client \in DOMAIN clients'
    OBVIOUS
  <2>1. /\ t \in DOMAIN tokens /\ tokens[t].client \in DOMAIN clients
        /\ tokens[t] \in TokenRow /\ now \in Nat
    BY DEF LiveTokens, GrantInv, KeysResolve, TypeOK
  <2>2. t \notin CollectedTokens
    BY <2>1 DEF CollectedTokens, LiveTokens, TokenRow, Never
  <2>3. tokens[t].client \notin CollectedClients
    BY DEF CollectedClients
  <2> QED BY <2>1, <2>2, <2>3, RestrictRows DEF GC
<1>2. GrantInv /\ [Next]_vars =>
        [GC => \A t \in LiveTokens : /\ t \in DOMAIN tokens'
                                     /\ tokens[t].client \in DOMAIN clients']_vars
  BY <1>1
<1> QED BY <1>2, GrantInvariant, PTL DEF CollectionSparesLiveTokens, Spec
-----------------------------------------------------------------------------
(***************************************************************************)
(* The refinement: the unrevoked token of a family is its holder.          *)
(***************************************************************************)
\* A family's holder is one of its unrevoked tokens, if there is any.
LEMMA HolderIsUnrevoked ==
  ASSUME OneLivePerFamily, NEW f \in Tokens, NEW t \in Unrevoked(f)
  PROVE  HolderOf[f] = t
BY DEF Unrevoked, HolderOf, OneLivePerFamily

\* A family whose unrevoked tokens stay the same keeps its holder.
LEMMA SameHolder ==
  ASSUME NEW f \in Tokens, Unrevoked(f)' = Unrevoked(f)
  PROVE  HolderOf'[f] = HolderOf[f]
BY DEF HolderOf

\* A family with a single unrevoked token has that token as its holder.
LEMMA NewHolder ==
  ASSUME NEW f \in Tokens, NEW t \in Tokens, Unrevoked(f)' = {t}
  PROVE  HolderOf'[f] = t
BY DEF HolderOf

\* A step that mints no token and un-revokes none loses holders, at most.
LEMMA LosingStep ==
  ASSUME GrantInv, GrantInv', minted' \cap Tokens = minted \cap Tokens,
         \A f \in Tokens : Unrevoked(f)' \subseteq Unrevoked(f)
  PROVE  Chain!ChainNext
<1> DEFINE F == {f \in Tokens : Unrevoked(f)' = {}}
<1>1. ASSUME NEW f \in Tokens \ F PROVE HolderOf'[f] = HolderOf[f]
  <2>1. PICK t : t \in Unrevoked(f)'
    OBVIOUS
  <2>2. t \in Unrevoked(f)
    BY <2>1
  <2>3. HolderOf[f] = t
    BY <2>2, HolderIsUnrevoked DEF GrantInv
  <2>4. Unrevoked(f)' = {t}
    BY <2>1 DEF GrantInv, OneLivePerFamily, Unrevoked
  <2> QED BY <2>3, <2>4 DEF HolderOf
<1>2. \A f \in F : HolderOf'[f] = NoFamily
  BY DEF HolderOf
<1>3. HolderOf' = [f \in Tokens |-> IF f \in F THEN NoFamily ELSE HolderOf[f]]
  <2>1. \A f \in Tokens :
          HolderOf'[f] = IF f \in F THEN NoFamily ELSE HolderOf[f]
    BY <1>1, <1>2
  <2> HIDE DEF F
  <2> QED BY <2>1 DEF HolderOf
<1>4. Chain!Lose(F)
  BY <1>3 DEF Chain!Lose
<1> QED BY <1>4 DEF Chain!ChainNext

\* With no rows, no family has a holder.
LEMMA InitChain == Init => Chain!ChainInit
<1> SUFFICES ASSUME Init PROVE Chain!ChainInit
  OBVIOUS
<1>1. \A f \in Tokens : Unrevoked(f) = {}
  BY DEF Init, NoRows, Unrevoked
<1>2. HolderOf = [f \in Tokens |-> NoFamily]
  BY <1>1 DEF HolderOf
<1>3. minted \cap Tokens = {}
  BY DEF Init
<1> QED BY <1>2, <1>3 DEF Chain!ChainInit

\* Redeeming a code founds a family.
LEMMA RedeemFounds ==
  ASSUME GrantInv, GrantInv', NEW k \in Codes, NEW t \in Tokens, RedeemCode(k, t)
  PROVE  Chain!ChainNext
<1>1. PICK resource \in Resources : RedeemCode(k, t)!(resource)
  BY DEF RedeemCode
<1> DEFINE row == NewToken(codes[k].client, codes[k].user, codes[k].scope,
                           Audience(k, resource), t)
<1>2. row.family = t /\ ~row.revoked
  BY DEF NewToken
<1>3. /\ t \notin DOMAIN tokens
      /\ \A n \in DOMAIN tokens : tokens[n].family # t
  BY <1>1 DEF GrantInv, RowsAreMinted
<1>4. tokens' = Put(tokens, t, row)
  BY <1>1
<1> HIDE DEF row
<1>5. Unrevoked(t)' = {t} /\ \A f \in Tokens \ {t} : Unrevoked(f)' = Unrevoked(f)
  BY <1>2, <1>3, <1>4 DEF Unrevoked, Put
<1>6. ASSUME NEW f \in Tokens
      PROVE  HolderOf'[f] = IF f = t THEN t ELSE HolderOf[f]
  BY <1>5, SameHolder, NewHolder
<1>7. HolderOf' = [HolderOf EXCEPT ![t] = t]
  BY <1>6 DEF HolderOf
<1>8. Chain!Found(t)
  BY <1>1, <1>7 DEF Chain!Found
<1> QED BY <1>8 DEF Chain!ChainNext

\* A rotation hands the family to the new token.
LEMMA RefreshHands ==
  ASSUME GrantInv, GrantInv', NEW t \in Tokens, NEW n \in Tokens,
         RefreshToken(t, n)
  PROVE  Chain!ChainNext
<1> DEFINE old == [tokens[t] EXCEPT !.revoked = TRUE]
           row == NewToken(tokens[t].client, tokens[t].user, tokens[t].scope,
                           tokens[t].audience, tokens[t].family)
<1>0. PICK f \in Tokens : f = tokens[t].family
  BY DEF RefreshToken, GrantInv, TypeOK, TokenRow
<1>1. /\ t \in DOMAIN tokens /\ tokens[t] \in TokenRow /\ ~tokens[t].revoked
      /\ n \notin minted /\ minted' = minted \cup {n}
      /\ n \notin DOMAIN tokens
  BY DEF RefreshToken, RefreshIsValid, GrantInv, TypeOK, TokenRow, RowsAreMinted
<1>2. row.family = f /\ ~row.revoked /\ old.revoked
  BY <1>0, <1>1, RevokedRow DEF NewToken
<1>3. tokens' = Put([tokens EXCEPT ![t] = old], n, row)
  BY <1>1 DEF RefreshToken
<1>4. t \in Unrevoked(f)
  BY <1>0, <1>1 DEF Unrevoked
<1>5. Unrevoked(f) = {t} /\ HolderOf[f] = t
  BY <1>1, <1>4, HolderIsUnrevoked DEF GrantInv, OneLivePerFamily, Unrevoked
<1>6. t # NoFamily
  OBVIOUS
<1> HIDE DEF row, old
<1>7. /\ DOMAIN tokens' = DOMAIN tokens \cup {n} /\ tokens'[n] = row
      /\ tokens'[t] = old
      /\ \A m \in DOMAIN tokens \ {t} : tokens'[m] = tokens[m]
  BY <1>1, <1>3 DEF Put
<1>8. Unrevoked(f)' = {n}
  <2>1. n \in Unrevoked(f)'
    BY <1>2, <1>7 DEF Unrevoked
  <2>2. ASSUME NEW m \in Unrevoked(f)', m # n PROVE FALSE
    <3>1. m \in DOMAIN tokens /\ m # t
      BY <1>2, <1>7, <2>2 DEF Unrevoked
    <3>2. m \in Unrevoked(f)
      BY <1>7, <2>2, <3>1 DEF Unrevoked
    <3> QED BY <1>5, <3>1, <3>2
  <2> QED BY <2>1, <2>2
<1>9. \A g \in Tokens \ {f} : Unrevoked(g)' = Unrevoked(g)
  BY <1>0, <1>1, <1>2, <1>7 DEF Unrevoked
<1>10. ASSUME NEW g \in Tokens
       PROVE  HolderOf'[g] = IF g = f THEN n ELSE HolderOf[g]
  BY <1>8, <1>9, SameHolder, NewHolder
<1>11. HolderOf' = [HolderOf EXCEPT ![f] = n]
  BY <1>10 DEF HolderOf
<1>12. Chain!Hand(f, n)
  BY <1>1, <1>5, <1>6, <1>11 DEF Chain!Hand
<1> QED BY <1>1, <1>12 DEF Chain!ChainNext

\* Revoking tokens only loses holders.
LEMMA RevocationLoses ==
  ASSUME GrantInv, GrantInv', RevokesOnly(tokens, tokens'), minted' = minted
  PROVE  Chain!ChainNext
<1>1. ASSUME NEW t \in DOMAIN tokens
      PROVE  /\ tokens'[t].family = tokens[t].family
             /\ tokens[t].revoked => tokens'[t].revoked
  <2>1. tokens[t] \in TokenRow
    BY DEF GrantInv, TypeOK
  <2>2. \/ tokens'[t] = tokens[t]
        \/ tokens'[t] = [tokens[t] EXCEPT !.revoked = TRUE]
    BY DEF RevokesOnly
  <2> QED BY <2>1, <2>2, RevokedRow
<1>2. \A f \in Tokens : Unrevoked(f)' \subseteq Unrevoked(f)
  BY <1>1 DEF Unrevoked, RevokesOnly
<1> QED BY <1>2, LosingStep

\* Deleting tokens only loses holders.
LEMMA DeletionLoses ==
  ASSUME GrantInv, GrantInv', NEW S \in SUBSET DOMAIN tokens,
         tokens' = Restrict(tokens, S), minted' = minted
  PROVE  Chain!ChainNext
<1>1. \A f \in Tokens : Unrevoked(f)' \subseteq Unrevoked(f)
  BY RestrictRows DEF Unrevoked
<1> QED BY <1>1, LosingStep

\* A step that leaves the tokens alone changes no holder.
LEMMA OtherLoses ==
  ASSUME GrantInv, GrantInv', tokens' = tokens,
         minted' \cap Tokens = minted \cap Tokens
  PROVE  Chain!ChainNext
<1>1. \A f \in Tokens : Unrevoked(f)' = Unrevoked(f)
  BY DEF Unrevoked
<1> QED BY <1>1, LosingStep

\* Every step of the handlers is a step of the chain, or none.
LEMMA NextChain == GrantInv /\ GrantInv' /\ [Next]_vars => Chain!ChainNext
<1> SUFFICES ASSUME GrantInv, GrantInv', [Next]_vars PROVE Chain!ChainNext
  OBVIOUS
<1>1. CASE Tick
  BY <1>1, OtherLoses DEF Tick
<1>2. CASE GC
  <2> DEFINE S == {t \in DOMAIN tokens \ CollectedTokens :
                     tokens[t].client \notin CollectedClients}
  <2>1. tokens' = Restrict(tokens, S) /\ minted' = minted
    BY <1>2 DEF GC
  <2> HIDE DEF S
  <2>2. S \in SUBSET DOMAIN tokens
    BY DEF S
  <2> QED BY <2>1, <2>2, DeletionLoses
<1>3. ASSUME NEW c \in Clients, Register(c) \/ Provision(c)
      PROVE  Chain!ChainNext
  BY <1>3, OtherLoses DEF Register, Provision, AddClient
<1>4. ASSUME NEW c \in Clients, NEW u \in Users, NEW k \in Codes,
             Authorize(c, u, k)
      PROVE  Chain!ChainNext
  BY <1>4, OtherLoses DEF Authorize
<1>5. ASSUME NEW k \in Codes, NEW t \in Tokens, RedeemCode(k, t)
      PROVE  Chain!ChainNext
  BY <1>5, RedeemFounds
<1>6. ASSUME NEW k \in Codes, ReplayCode(k)
      PROVE  Chain!ChainNext
  BY <1>6, FamilyRevocation, RevocationLoses DEF ReplayCode
<1>7. ASSUME NEW t \in Tokens, NEW n \in Tokens, RefreshToken(t, n)
      PROVE  Chain!ChainNext
  BY <1>7, RefreshHands
<1>8. ASSUME NEW t \in Tokens, ReplayRefresh(t)
      PROVE  Chain!ChainNext
  BY <1>8, FamilyRevocation, RevocationLoses DEF ReplayRefresh
<1>9. ASSUME NEW S \in SUBSET DOMAIN tokens, AdminRevoke(S)
      PROVE  Chain!ChainNext
  <2>1. RevokesOnly(tokens, tokens')
    BY <1>9 DEF AdminRevoke, RevokesOnly
  <2> QED BY <1>9, <2>1, RevocationLoses DEF AdminRevoke
<1>10. ASSUME NEW c \in Clients, NEW b \in BOOLEAN, SwitchClient(c, b)
       PROVE  Chain!ChainNext
  BY <1>10, OtherLoses DEF SwitchClient
<1>11. ASSUME NEW u \in Users, NEW b \in BOOLEAN, SwitchUser(u, b)
       PROVE  Chain!ChainNext
  BY <1>11, OtherLoses DEF SwitchUser
<1>12. ASSUME NEW u \in Users, DeleteUser(u)
       PROVE  Chain!ChainNext
  <2> DEFINE S == {t \in DOMAIN tokens : tokens[t].user # u}
  <2>1. tokens' = Restrict(tokens, S) /\ minted' = minted
    BY <1>12 DEF DeleteUser
  <2> HIDE DEF S
  <2>2. S \in SUBSET DOMAIN tokens
    BY DEF S
  <2> QED BY <2>1, <2>2, DeletionLoses
<1>13. CASE UNCHANGED vars
  BY <1>13, OtherLoses DEF vars
<1> QED
  BY <1>1, <1>2, <1>3, <1>4, <1>5, <1>6, <1>7, <1>8, <1>9, <1>10, <1>11,
     <1>12, <1>13 DEF Next

\* Every family of refresh tokens is a chain handed from one token to the next
\* and lost for good, whatever interleaving of handlers, cron and admin runs.
THEOREM ImplementsChain == Spec => HandsOver
<1>1. Init => Chain!ChainInit
  BY InitChain
<1>2. GrantInv /\ GrantInv' /\ [Next]_vars => [Chain!ChainNext]_Chain!chainVars
  BY NextChain
<1> QED BY <1>1, <1>2, GrantInvariant, PTL DEF Spec, HandsOver, Chain!ChainSpec

\* A step of the chains makes no token that was handed out a holder, and founds
\* no family anew.
LEMMA ChainStep ==
  ASSUME Chain!ChainNext, NEW f \in Tokens, NEW t \in minted \cap Tokens
  PROVE  /\ HolderOf'[f] = t => HolderOf[f] = t
         /\ f \in minted /\ HolderOf[f] = NoFamily => HolderOf'[f] = NoFamily
<1> DEFINE H == HolderOf
<1>1. H = [g \in Tokens |-> H[g]] /\ t # NoFamily
  BY DEF HolderOf
<1>2. ASSUME NEW n \in Tokens, Chain!Found(n)
      PROVE  n \notin minted /\ H' = [H EXCEPT ![n] = n]
  BY <1>2 DEF Chain!Found
<1>3. ASSUME NEW g \in Tokens, NEW n \in Tokens, Chain!Hand(g, n)
      PROVE  H[g] # NoFamily /\ n \notin minted /\ H' = [H EXCEPT ![g] = n]
  BY <1>3 DEF Chain!Hand
<1>4. ASSUME NEW F \in SUBSET Tokens, Chain!Lose(F)
      PROVE  H' = [g \in Tokens |-> IF g \in F THEN NoFamily ELSE H[g]]
  BY <1>4 DEF Chain!Lose
<1> HIDE DEF H
<1>5. /\ H'[f] = t => H[f] = t
      /\ f \in minted /\ H[f] = NoFamily => H'[f] = NoFamily
  <2>1. ASSUME NEW n \in Tokens, Chain!Found(n) PROVE <1>5
    BY <1>1, <1>2, <2>1
  <2>2. ASSUME NEW g \in Tokens, NEW n \in Tokens, Chain!Hand(g, n) PROVE <1>5
    BY <1>1, <1>3, <2>2
  <2>3. ASSUME NEW F \in SUBSET Tokens, Chain!Lose(F) PROVE <1>5
    BY <1>1, <1>4, <2>3
  <2> QED BY <2>1, <2>2, <2>3 DEF Chain!ChainNext
<1> QED BY <1>5 DEF H

\* A token is good if the table has it, unrevoked.
IsGood(t) == t \in DOMAIN tokens /\ ~tokens[t].revoked

\* Read off the tables: no step makes a token good again that was rotated away,
\* revoked or collected, or gives a token to a family that had lost its last.
SpentForGood ==
  [][/\ \A t \in minted \cap Tokens : IsGood(t)' => IsGood(t)
     /\ \A f \in minted \cap Tokens : Unrevoked(f) = {} => Unrevoked(f)' = {}]_vars

\* Revocation, rotation and collection are for good, family by family.
THEOREM RevocationIsForGood == Spec => SpentForGood
<1>1. ASSUME GrantInv, GrantInv', Next
      PROVE  /\ \A t \in minted \cap Tokens : IsGood(t)' => IsGood(t)
             /\ \A f \in minted \cap Tokens : Unrevoked(f) = {} => Unrevoked(f)' = {}
  <2>1. Chain!ChainNext
    BY <1>1, NextChain
  <2>2. ASSUME NEW t \in minted \cap Tokens, IsGood(t)' PROVE IsGood(t)
    <3>1. PICK f \in Tokens : f = tokens'[t].family
      BY <1>1, <2>2 DEF IsGood, GrantInv, TypeOK, TokenRow
    <3>2. t \in Unrevoked(f)'
      BY <2>2, <3>1 DEF IsGood, Unrevoked
    <3>3. HolderOf'[f] = t
      BY <1>1, <3>2 DEF HolderOf, GrantInv, OneLivePerFamily, Unrevoked
    <3>4. HolderOf[f] = t /\ t # NoFamily
      BY <2>1, <3>3, ChainStep
    <3>5. t \in Unrevoked(f)
      BY <3>4 DEF HolderOf
    <3> QED BY <3>5 DEF Unrevoked, IsGood
  <2>3. ASSUME NEW f \in minted \cap Tokens, Unrevoked(f) = {}
        PROVE  Unrevoked(f)' = {}
    <3>1. HolderOf[f] = NoFamily
      BY <2>3 DEF HolderOf
    <3>2. HolderOf'[f] = NoFamily
      BY <2>1, <3>1, ChainStep
    <3>3. Unrevoked(f)' \subseteq Tokens
      BY <1>1 DEF GrantInv, TypeOK, Unrevoked
    <3> QED BY <3>2, <3>3 DEF HolderOf
  <2> QED BY <2>2, <2>3
<1>2. ASSUME GrantInv, GrantInv', [Next]_vars
      PROVE  [/\ \A t \in minted \cap Tokens : IsGood(t)' => IsGood(t)
              /\ \A f \in minted \cap Tokens : Unrevoked(f) = {} => Unrevoked(f)' = {}]_vars
  BY <1>1, <1>2
<1> QED BY <1>2, GrantInvariant, PTL DEF Spec, SpentForGood

-----------------------------------------------------------------------------
(***************************************************************************)
(* The safety half of SpentIsCollected: what is due to be collected stays  *)
(* due until the collector runs, and one run of it is enough.              *)
(***************************************************************************)
\* Time passes, expiries are fixed, an expired code is never touched again, and
\* a token of a family that was seen before comes from a live one of it.
RowsAge ==
  /\ now <= now'
  /\ \A k \in DOMAIN codes \cap DOMAIN codes' :
       codes'[k] = codes[k] \/ codes[k].expires > now
  /\ \A t \in DOMAIN tokens \cap DOMAIN tokens' :
       /\ tokens'[t].family = tokens[t].family
       /\ tokens'[t].access = tokens[t].access /\ tokens'[t].refresh = tokens[t].refresh
       /\ tokens[t].revoked => tokens'[t].revoked
  /\ \A t \in DOMAIN tokens' \ DOMAIN tokens :
       tokens'[t].family \notin minted \/ tokens'[t].family \in LiveFamilies
  /\ \A c \in DOMAIN clients \cap DOMAIN clients' :
       clients'[c].via = clients[c].via /\ clients'[c].created = clients[c].created

\* Revocations and deletions only take away.
LEMMA TakingAwayAges ==
  ASSUME GrantInv, now' = now,
         \/ codes' = codes
         \/ \E S \in SUBSET DOMAIN codes : codes' = Restrict(codes, S),
         \/ RevokesOnly(tokens, tokens')
         \/ \E S \in SUBSET DOMAIN tokens : tokens' = Restrict(tokens, S),
         \/ clients' = clients
         \/ \E S \in SUBSET DOMAIN clients : clients' = Restrict(clients, S)
  PROVE  RowsAge
<1>1. now \in Nat /\ \A t \in DOMAIN tokens : tokens[t] \in TokenRow
  BY DEF GrantInv, TypeOK
<1>2. \A k \in DOMAIN codes \cap DOMAIN codes' : codes'[k] = codes[k]
  BY RestrictRows
<1>3. \A c \in DOMAIN clients \cap DOMAIN clients' : clients'[c] = clients[c]
  BY RestrictRows
<1>4. DOMAIN tokens' \subseteq DOMAIN tokens
  BY RestrictRows DEF RevokesOnly
<1>5. ASSUME NEW t \in DOMAIN tokens \cap DOMAIN tokens'
      PROVE  /\ tokens'[t].family = tokens[t].family
             /\ tokens'[t].access = tokens[t].access
             /\ tokens'[t].refresh = tokens[t].refresh
             /\ tokens[t].revoked => tokens'[t].revoked
  <2>1. CASE RevokesOnly(tokens, tokens')
    <3>1. \/ tokens'[t] = tokens[t]
          \/ tokens'[t] = [tokens[t] EXCEPT !.revoked = TRUE]
      BY <2>1 DEF RevokesOnly
    <3> QED BY <1>1, <3>1, RevokedRow
  <2>2. CASE \E S \in SUBSET DOMAIN tokens : tokens' = Restrict(tokens, S)
    <3>1. tokens'[t] = tokens[t]
      BY <2>2, RestrictRows
    <3> QED BY <3>1
  <2> QED BY <2>1, <2>2
<1> QED BY <1>1, <1>2, <1>3, <1>4, <1>5 DEF RowsAge

\* A redeemed code is not expired, and its family is new.
LEMMA RedeemAges ==
  ASSUME GrantInv, NEW k \in Codes, NEW t \in Tokens, RedeemCode(k, t)
  PROVE  RowsAge
<1>1. PICK resource \in Resources : RedeemCode(k, t)!(resource)
  BY DEF RedeemCode
<1> DEFINE row == NewToken(codes[k].client, codes[k].user, codes[k].scope,
                           Audience(k, resource), t)
<1>2. row.family = t
  BY DEF NewToken
<1>3. tokens' = Put(tokens, t, row)
  BY <1>1
<1> HIDE DEF row
<1>4. t \notin minted /\ t \notin DOMAIN tokens /\ codes[k].expires > now /\ now \in Nat
  BY <1>1 DEF CodeIsValid, GrantInv, RowsAreMinted, TypeOK
<1>5. \A j \in DOMAIN codes : codes'[j] = codes[j] \/ codes[j].expires > now
  BY <1>1, <1>4
<1>6. /\ DOMAIN tokens' = DOMAIN tokens \cup {t} /\ tokens'[t].family = t
      /\ \A n \in DOMAIN tokens : tokens'[n] = tokens[n]
  BY <1>2, <1>3, <1>4 DEF Put
<1> QED BY <1>1, <1>4, <1>5, <1>6 DEF RowsAge

\* A successor's family is that of a live token.
LEMMA RefreshAges ==
  ASSUME GrantInv, NEW t \in Tokens, NEW n \in Tokens, RefreshToken(t, n)
  PROVE  RowsAge
<1> DEFINE old == [tokens[t] EXCEPT !.revoked = TRUE]
           row == NewToken(tokens[t].client, tokens[t].user, tokens[t].scope,
                           tokens[t].audience, tokens[t].family)
<1>1. /\ t \in DOMAIN tokens /\ tokens[t] \in TokenRow /\ t \in LiveTokens
      /\ n \notin DOMAIN tokens /\ now \in Nat
      /\ UNCHANGED <<now, clients, codes>>
  BY DEF RefreshToken, RefreshIsValid, LiveTokens, GrantInv, TypeOK, RowsAreMinted
<1>2. row.family = tokens[t].family
  BY DEF NewToken
<1>3. /\ old.family = tokens[t].family /\ old.access = tokens[t].access
      /\ old.refresh = tokens[t].refresh /\ old.revoked
  BY <1>1, RevokedRow
<1>4. tokens' = Put([tokens EXCEPT ![t] = old], n, row)
  BY DEF RefreshToken
<1> HIDE DEF old, row
<1>5. /\ DOMAIN tokens' = DOMAIN tokens \cup {n} /\ tokens'[n] = row /\ tokens'[t] = old
      /\ \A m \in DOMAIN tokens \ {t} : tokens'[m] = tokens[m]
  BY <1>1, <1>4 DEF Put
<1>6. tokens[t].family \in LiveFamilies
  BY <1>1 DEF LiveFamilies
<1> QED BY <1>1, <1>2, <1>3, <1>5, <1>6 DEF RowsAge

\* New clients and codes, and the administrator's switches, age nothing.
LEMMA OthersAge ==
  ASSUME GrantInv, tokens' = tokens, now' \in Nat, now <= now',
         \A k \in DOMAIN codes : codes'[k] = codes[k],
         \A c \in DOMAIN clients \cap DOMAIN clients' :
           clients'[c].via = clients[c].via /\ clients'[c].created = clients[c].created
  PROVE  RowsAge
BY DEF RowsAge

\* So every step of the server only ages the tables.
LEMMA NextAges == GrantInv /\ Next => RowsAge
<1> SUFFICES ASSUME GrantInv, Next PROVE RowsAge
  OBVIOUS
<1>0. /\ now \in Nat /\ RevokesOnly(tokens, tokens)
      /\ \A c \in DOMAIN clients : clients[c] \in ClientRow
  BY DEF GrantInv, TypeOK, RevokesOnly
<1>1. CASE Tick
  BY <1>0, <1>1, OthersAge DEF Tick
<1>2. CASE GC
  <2> DEFINE K == {k \in DOMAIN codes \ CollectedCodes :
                     codes[k].client \notin CollectedClients}
             T == {t \in DOMAIN tokens \ CollectedTokens :
                     tokens[t].client \notin CollectedClients}
             C == DOMAIN clients \ CollectedClients
  <2>1. /\ codes' = Restrict(codes, K) /\ tokens' = Restrict(tokens, T)
        /\ clients' = Restrict(clients, C) /\ now' = now
    BY <1>2 DEF GC
  <2>2. K \subseteq DOMAIN codes /\ T \subseteq DOMAIN tokens /\ C \subseteq DOMAIN clients
    OBVIOUS
  <2> HIDE DEF K, T, C
  <2> QED BY <2>1, <2>2, TakingAwayAges
<1>3. ASSUME NEW c \in Clients, Register(c) \/ Provision(c) PROVE RowsAge
  <2>1. c \notin DOMAIN clients /\ \E row : clients' = Put(clients, c, row)
    BY <1>3 DEF Register, Provision, AddClient, GrantInv, RowsAreMinted
  <2>2. \A d \in DOMAIN clients : clients'[d] = clients[d]
    BY <2>1 DEF Put
  <2>3. tokens' = tokens /\ now' = now /\ codes' = codes
    BY <1>3 DEF Register, Provision, AddClient
  <2> QED BY <1>0, <2>2, <2>3, OthersAge
<1>4. ASSUME NEW c \in Clients, NEW u \in Users, NEW k \in Codes, Authorize(c, u, k)
      PROVE  RowsAge
  <2>1. k \notin DOMAIN codes /\ \E row : codes' = Put(codes, k, row)
    BY <1>4 DEF Authorize, GrantInv, RowsAreMinted
  <2>2. \A j \in DOMAIN codes : codes'[j] = codes[j]
    BY <2>1 DEF Put
  <2>3. tokens' = tokens /\ now' = now /\ clients' = clients
    BY <1>4 DEF Authorize
  <2> QED BY <1>0, <2>2, <2>3, OthersAge
<1>5. ASSUME NEW k \in Codes, NEW t \in Tokens, RedeemCode(k, t) PROVE RowsAge
  BY <1>5, RedeemAges
<1>6. ASSUME NEW k \in Codes, ReplayCode(k) PROVE RowsAge
  BY <1>6, FamilyRevocation, TakingAwayAges DEF ReplayCode
<1>7. ASSUME NEW t \in Tokens, NEW n \in Tokens, RefreshToken(t, n) PROVE RowsAge
  BY <1>7, RefreshAges
<1>8. ASSUME NEW t \in Tokens, ReplayRefresh(t) PROVE RowsAge
  BY <1>8, FamilyRevocation, TakingAwayAges DEF ReplayRefresh
<1>9. ASSUME NEW S \in SUBSET DOMAIN tokens, AdminRevoke(S) PROVE RowsAge
  <2>1. RevokesOnly(tokens, tokens')
    BY <1>9 DEF AdminRevoke, RevokesOnly
  <2> QED BY <1>9, <2>1, TakingAwayAges DEF AdminRevoke
<1>10. ASSUME NEW c \in Clients, NEW b \in BOOLEAN, SwitchClient(c, b) PROVE RowsAge
  <2>1. \A d \in DOMAIN clients : /\ clients'[d].via = clients[d].via
                                  /\ clients'[d].created = clients[d].created
    BY <1>0, <1>10 DEF SwitchClient, ClientRow
  <2> QED BY <1>0, <1>10, <2>1, OthersAge DEF SwitchClient
<1>11. ASSUME NEW u \in Users, NEW b \in BOOLEAN, SwitchUser(u, b) PROVE RowsAge
  BY <1>0, <1>11, OthersAge DEF SwitchUser
<1>12. ASSUME NEW u \in Users, DeleteUser(u) PROVE RowsAge
  <2> DEFINE K == {k \in DOMAIN codes : codes[k].user # u}
             T == {t \in DOMAIN tokens : tokens[t].user # u}
  <2>1. /\ codes' = Restrict(codes, K) /\ tokens' = Restrict(tokens, T)
        /\ clients' = clients /\ now' = now
    BY <1>12 DEF DeleteUser
  <2>2. K \subseteq DOMAIN codes /\ T \subseteq DOMAIN tokens
    OBVIOUS
  <2> HIDE DEF K, T
  <2> QED BY <2>1, <2>2, TakingAwayAges
<1> QED
  BY <1>1, <1>2, <1>3, <1>4, <1>5, <1>6, <1>7, <1>8, <1>9, <1>10, <1>11, <1>12
     DEF Next

\* A code that guards nothing and is past its expiry.
SpentCode(k) ==
  k \in DOMAIN codes /\ codes[k].expires < now /\ codes[k].family \notin LiveFamilies

\* A client somebody uses again.
InUse(c) == c \in {tokens[t].client : t \in LiveTokens}

\* Between two runs of the collector nothing that is due to it stops being due,
\* unless it goes or, for a client, gets a live token; and a run takes it.
DueUntilCollected ==
  [][/\ \A k \in Codes : SpentCode(k) =>
          k \notin DOMAIN codes' \/ (~GC /\ SpentCode(k)')
     /\ \A t \in Tokens : t \in CollectedTokens =>
          t \notin DOMAIN tokens' \/ (~GC /\ t \in CollectedTokens')
     /\ \A c \in Clients : c \in CollectedClients =>
          c \notin DOMAIN clients' \/ (~GC /\ (InUse(c)' \/ c \in CollectedClients'))]_vars

\* A family that has no live token gets none.
LEMMA DeadFamiliesStay ==
  ASSUME GrantInv, GrantInv', RowsAge, NEW f \in minted \cup {NoFamily}, f \notin LiveFamilies
  PROVE  f \notin LiveFamilies'
<1> SUFFICES ASSUME NEW t \in LiveTokens', tokens'[t].family = f PROVE FALSE
  BY DEF LiveFamilies
<1>1. t \in DOMAIN tokens' /\ tokens'[t] \in TokenRow /\ now \in Nat /\ now' \in Nat
  BY DEF LiveTokens, GrantInv, TypeOK
<1>2. f \in minted
  BY <1>1 DEF TokenRow
<1>3. t \in DOMAIN tokens
  BY <1>1, <1>2 DEF RowsAge
<1>4. /\ tokens[t].family = f /\ tokens[t].access = tokens'[t].access
      /\ tokens[t].refresh = tokens'[t].refresh
      /\ tokens[t].revoked => tokens'[t].revoked
  BY <1>1, <1>3 DEF RowsAge
<1>5. ~tokens'[t].revoked /\ (tokens'[t].access > now' \/ tokens'[t].refresh > now')
  BY DEF LiveTokens
<1>6. tokens'[t].access > now \/ tokens'[t].refresh > now
  <2>1. \A n \in Int : n > now' => n > now
    BY <1>1 DEF RowsAge
  <2>2. tokens'[t].access \in Int /\ tokens'[t].refresh \in Int
    BY <1>1 DEF TokenRow, Never
  <2> QED BY <1>5, <2>1, <2>2
<1>7. t \in LiveTokens
  BY <1>3, <1>4, <1>5, <1>6 DEF LiveTokens
<1> QED BY <1>4, <1>7 DEF LiveFamilies

\* With the collector scheduled fairly this is what SpentIsCollected rests on.
THEOREM SpentWaitsForTheCollector == Spec => DueUntilCollected
<1>1. ASSUME GrantInv, GrantInv', Next
      PROVE  /\ \A k \in Codes : SpentCode(k) =>
                  k \notin DOMAIN codes' \/ (~GC /\ SpentCode(k)')
             /\ \A t \in Tokens : t \in CollectedTokens =>
                  t \notin DOMAIN tokens' \/ (~GC /\ t \in CollectedTokens')
             /\ \A c \in Clients : c \in CollectedClients =>
                  c \notin DOMAIN clients' \/ (~GC /\ (InUse(c)' \/ c \in CollectedClients'))
  <2> USE <1>1
  <2>0. RowsAge /\ now \in Nat /\ now' \in Nat /\ now <= now'
    <3>1. RowsAge
      BY NextAges
    <3> QED BY <3>1 DEF GrantInv, TypeOK, RowsAge
  <2>1. ASSUME NEW k \in Codes, SpentCode(k), k \in DOMAIN codes' PROVE ~GC /\ SpentCode(k)'
    <3>1. codes[k] \in CodeRow /\ codes[k].expires < now
      BY <2>1 DEF SpentCode, GrantInv, TypeOK
    <3>2. codes'[k] = codes[k]
      BY <2>0, <2>1, <3>1 DEF RowsAge, SpentCode, CodeRow
    <3>3. codes'[k].family \notin LiveFamilies'
      <4>1. codes[k].family \in minted \cup {NoFamily}
        BY <2>1 DEF SpentCode, GrantInv, RowsAreMinted
      <4> QED BY <2>0, <2>1, <3>2, <4>1, DeadFamiliesStay DEF SpentCode
    <3>4. codes'[k].expires < now'
      BY <2>0, <3>1, <3>2 DEF CodeRow
    <3>5. ~GC
      <4>1. k \in CollectedCodes
        BY <2>1 DEF SpentCode, CollectedCodes
      <4> QED BY <2>1, <4>1, RestrictRows DEF GC
    <3> QED BY <2>1, <3>3, <3>4, <3>5 DEF SpentCode
  <2>2. ASSUME NEW t \in Tokens, t \in CollectedTokens, t \in DOMAIN tokens'
        PROVE  ~GC /\ t \in CollectedTokens'
    <3>1. /\ t \in DOMAIN tokens /\ tokens[t] \in TokenRow
          /\ tokens[t].access < now /\ tokens[t].refresh < now
      BY <2>2 DEF CollectedTokens, GrantInv, TypeOK
    <3>2. tokens'[t].access = tokens[t].access /\ tokens'[t].refresh = tokens[t].refresh
      BY <2>0, <2>2, <3>1 DEF RowsAge
    <3>3. tokens'[t].access < now' /\ tokens'[t].refresh < now'
      BY <2>0, <3>1, <3>2 DEF TokenRow, Never
    <3>4. ~GC
      BY <2>2, RestrictRows DEF GC
    <3> QED BY <2>2, <3>3, <3>4 DEF CollectedTokens
  <2>3. ASSUME NEW c \in Clients, c \in CollectedClients, c \in DOMAIN clients'
        PROVE  ~GC /\ (InUse(c)' \/ c \in CollectedClients')
    <3>1. /\ c \in DOMAIN clients /\ clients[c] \in ClientRow /\ clients[c].via = "dcr"
          /\ clients[c].created < now - ClientTTL
      BY <2>3 DEF CollectedClients, GrantInv, TypeOK
    <3>2. clients'[c].via = clients[c].via /\ clients'[c].created = clients[c].created
      BY <2>0, <2>3, <3>1 DEF RowsAge
    <3>3. clients'[c].created < now' - ClientTTL
      BY <2>0, <3>1, <3>2 DEF ClientRow
    <3>4. ~GC
      BY <2>3, RestrictRows DEF GC
    <3> QED BY <2>3, <3>1, <3>2, <3>3, <3>4 DEF CollectedClients, InUse
  <2> QED BY <2>1, <2>2, <2>3
<1>2. ASSUME GrantInv, GrantInv', [Next]_vars
      PROVE  [/\ \A k \in Codes : SpentCode(k) =>
                   k \notin DOMAIN codes' \/ (~GC /\ SpentCode(k)')
              /\ \A t \in Tokens : t \in CollectedTokens =>
                   t \notin DOMAIN tokens' \/ (~GC /\ t \in CollectedTokens')
              /\ \A c \in Clients : c \in CollectedClients =>
                   c \notin DOMAIN clients'
                     \/ (~GC /\ (InUse(c)' \/ c \in CollectedClients'))]_vars
  BY <1>1, <1>2
<1> QED BY <1>2, GrantInvariant, PTL DEF Spec, DueUntilCollected
=============================================================================
