--------------------------- MODULE OAuthTxnProofs ---------------------------
(***************************************************************************)
(* Proofs about OAuthTxn, for any workers, codes, tokens, lifetimes and    *)
(* numbers of tries: the inductive invariant TxnInv, the properties it     *)
(* implies, and the refinement of GrantChain.                              *)
(***************************************************************************)
EXTENDS OAuthTxn, FiniteSetTheorems, TLAPS

-----------------------------------------------------------------------------
(***************************************************************************)
(* The inductive invariant.                                                *)
(***************************************************************************)
ClientTables == UNION {[D -> Nat] : D \in SUBSET Clients}
CodeTables == UNION {[D -> CodeRow] : D \in SUBSET Codes}
TokenTables == UNION {[D -> TokenRow] : D \in SUBSET Tokens}

TxnType ==
  [job : Jobs \cup {NoJob}, at : Nat, clients : ClientTables, codes : CodeTables,
   tokens : TokenTables, held : SUBSET Rows, tries : 0..MaxTries]

Types ==
  /\ now \in 0..MaxTime
  /\ clients \in ClientTables
  /\ codes \in CodeTables
  /\ tokens \in TokenTables
  /\ minted \subseteq Rows
  /\ txn \in [Workers -> TxnType]

\* Below, c and t are tables of codes and tokens, m is what has been minted, and
\* x is a transaction with its snapshot.

\* The values in a pair of tables, families included, have been handed out.
AreMinted(c, t, m) ==
  /\ DOMAIN c \cup DOMAIN t \subseteq m
  /\ \A k \in DOMAIN c : c[k].family \in m \cup {NoFamily}
  /\ \A n \in DOMAIN t : t[n].family \in m

OneLive(t) ==
  \A r \in DOMAIN t, s \in DOMAIN t :
    ~t[r].revoked /\ ~t[s].revoked /\ t[r].family = t[s].family => r = s

\* A worker has a job or is idle; what it has seen was handed out.
Working(x, m, clock) ==
  /\ x # Idle => x.job \in Jobs /\ x.at <= clock /\ x.tries >= 1
  /\ AreMinted(x.codes, x.tokens, m)

\* It holds what it needs; nobody has changed a code or token of it since the
\* snapshot.
HoldsFresh(x, c, t) ==
  /\ x.held \subseteq Needs(x)
  /\ \A r \in x.held \ Clients :
                       \/ r \in DOMAIN c /\ c[r] = x.codes[r]
                       \/ r \in DOMAIN t /\ t[r] = x.tokens[r]

\* What may have happened to the rows of the snapshot since: a code was used, a
\* token revoked, a row deleted.
Follows(x, c, t) ==
  /\ \A k \in DOMAIN x.codes \cap DOMAIN c :
       c[k] = x.codes[k] \/ (~x.codes[k].used /\ c[k].used)
  /\ \A n \in DOMAIN x.tokens \cap DOMAIN t :
       /\ t[n].family = x.tokens[n].family
       /\ t[n] = x.tokens[n] \/ (~x.tokens[n].revoked /\ t[n].revoked)

\* A token younger than the snapshot, of a family that is in the snapshot, has
\* taken over from a token that was live there and no longer is.
SeenFamilies(x) ==
  {x.codes[k].family : k \in DOMAIN x.codes} \cup {x.tokens[n].family : n \in DOMAIN x.tokens}

Overtaken(x, f, t) ==
  \E p \in DOMAIN x.tokens :
    /\ x.tokens[p].family = f /\ ~x.tokens[p].revoked
    /\ p \in DOMAIN t => t[p].revoked

TakesOver(x, t) ==
  \A n \in DOMAIN t \ DOMAIN x.tokens :
    t[n].family \in SeenFamilies(x) => Overtaken(x, t[n].family, t)

\* A request presents a credential that was handed out.  One its snapshot does
\* not have is gone.
Presents(x, c, t, m) ==
  /\ x.job.kind = "redeem" =>
       /\ x.job.row \in m
       /\ x.job.row \notin DOMAIN x.codes => x.job.row \notin DOMAIN c
  /\ x.job.kind = "refresh" =>
       /\ x.job.row \in m
       /\ x.job.row \notin DOMAIN x.tokens => x.job.row \notin DOMAIN t

WorkerInv(x, c, t, m, clock) ==
  /\ Working(x, m, clock) /\ HoldsFresh(x, c, t) /\ Follows(x, c, t)
  /\ TakesOver(x, t) /\ Presents(x, c, t, m)

\* Two workers hold no code or token both.
HeldApart ==
  \A v \in Workers, w \in Workers :
    v # w => txn[v].held \cap txn[w].held \subseteq Clients

TxnInv ==
  /\ Types
  /\ AreMinted(codes, tokens, minted)
  /\ OneLive(tokens)
  /\ HeldApart
  /\ \A w \in Workers : WorkerInv(txn[w], codes, tokens, minted, now)
-----------------------------------------------------------------------------
(***************************************************************************)
(* Tables, snapshots and what a transaction needs.                         *)
(***************************************************************************)
\* A table has rows for some of the names.
LEMMA ClientTable ==
  /\ \A c \in ClientTables : DOMAIN c \subseteq Clients /\ \A k \in DOMAIN c : c[k] \in Nat
  /\ \A D \in SUBSET Clients : [D -> Nat] \subseteq ClientTables
BY DEF ClientTables

\* The same of the codes.
LEMMA CodeTable ==
  /\ \A c \in CodeTables : DOMAIN c \subseteq Codes /\ \A k \in DOMAIN c : c[k] \in CodeRow
  /\ \A D \in SUBSET Codes : [D -> CodeRow] \subseteq CodeTables
BY DEF CodeTables

\* The same of the tokens.
LEMMA TokenTable ==
  /\ \A t \in TokenTables : DOMAIN t \subseteq Tokens /\ \A n \in DOMAIN t : t[n] \in TokenRow
  /\ \A D \in SUBSET Tokens : [D -> TokenRow] \subseteq TokenTables
BY DEF TokenTables

\* A new row joins a table, which otherwise stays as it was.
LEMMA PutCode ==
  ASSUME NEW c \in CodeTables, NEW k \in Codes, NEW row \in CodeRow
  PROVE  /\ Put(c, k, row) \in CodeTables
         /\ DOMAIN Put(c, k, row) = DOMAIN c \cup {k}
         /\ Put(c, k, row)[k] = row
         /\ \A j \in DOMAIN c \ {k} : Put(c, k, row)[j] = c[j]
<1> DEFINE u == Put(c, k, row)
<1>1. DOMAIN c \subseteq Codes /\ \A j \in DOMAIN c : c[j] \in CodeRow
  BY CodeTable
<1>2. DOMAIN u = DOMAIN c \cup {k} /\ u[k] = row /\ \A j \in DOMAIN c \ {k} : u[j] = c[j]
  BY DEF Put
<1>3. u \in [DOMAIN c \cup {k} -> CodeRow]
  BY <1>1 DEF Put
<1> HIDE DEF u
<1>4. u \in CodeTables
  BY <1>1, <1>3, CodeTable
<1> QED BY <1>2, <1>4 DEF u

\* The same of the tokens.
LEMMA PutToken ==
  ASSUME NEW t \in TokenTables, NEW n \in Tokens, NEW row \in TokenRow
  PROVE  /\ Put(t, n, row) \in TokenTables
         /\ DOMAIN Put(t, n, row) = DOMAIN t \cup {n}
         /\ Put(t, n, row)[n] = row
         /\ \A j \in DOMAIN t : j # n => Put(t, n, row)[j] = t[j]
<1> DEFINE u == Put(t, n, row)
<1>1. DOMAIN t \subseteq Tokens /\ \A j \in DOMAIN t : t[j] \in TokenRow
  BY TokenTable
<1>2. DOMAIN u = DOMAIN t \cup {n} /\ u[n] = row /\ \A j \in DOMAIN t : j # n => u[j] = t[j]
  BY DEF Put
<1>3. u \in [DOMAIN t \cup {n} -> TokenRow]
  BY <1>1 DEF Put
<1> HIDE DEF u
<1>4. u \in TokenTables
  BY <1>1, <1>3, TokenTable
<1> QED BY <1>2, <1>4 DEF u

\* A revocation changes the revoked flag of the rows it names, and no more.
LEMMA RevokedTable ==
  ASSUME tokens \in TokenTables, NEW S
  PROVE  /\ Revoked(S) \in TokenTables
         /\ DOMAIN Revoked(S) = DOMAIN tokens
         /\ \A n \in DOMAIN tokens \ S : Revoked(S)[n] = tokens[n]
         /\ \A n \in DOMAIN tokens \cap S :
              /\ Revoked(S)[n].revoked /\ Revoked(S)[n].family = tokens[n].family
              /\ tokens[n].revoked => Revoked(S)[n] = tokens[n]
<1> DEFINE u == Revoked(S)
<1>1. DOMAIN tokens \subseteq Tokens /\ \A n \in DOMAIN tokens : tokens[n] \in TokenRow
  BY TokenTable
<1>2. DOMAIN u = DOMAIN tokens
  BY DEF Revoked
<1>3. ASSUME NEW n \in DOMAIN tokens \cap S
      PROVE  /\ u[n] = [tokens[n] EXCEPT !.revoked = TRUE]
             /\ u[n] \in TokenRow /\ u[n].revoked /\ u[n].family = tokens[n].family
             /\ tokens[n].revoked => u[n] = tokens[n]
  <2>1. u[n] = [tokens[n] EXCEPT !.revoked = TRUE] /\ tokens[n] \in TokenRow
    BY <1>1 DEF Revoked
  <2> QED BY <2>1 DEF TokenRow
<1>4. \A n \in DOMAIN tokens \ S : u[n] = tokens[n]
  BY DEF Revoked
<1>5. u \in [DOMAIN tokens -> TokenRow]
  <2>1. \A n \in DOMAIN tokens : u[n] \in TokenRow
    BY <1>1, <1>3, <1>4
  <2>2. u = [n \in DOMAIN tokens |-> u[n]]
    BY DEF Revoked
  <2> HIDE DEF u
  <2> QED BY <2>1, <2>2
<1> HIDE DEF u
<1>6. u \in TokenTables
  BY <1>1, <1>5, TokenTable
<1> QED BY <1>2, <1>3, <1>4, <1>6 DEF u

\* An accepted grant needs the row it presents and the client of that row.
LEMMA AcceptedNeeds ==
  ASSUME NEW x \in TxnType, Accepted(x)
  PROVE  /\ Needs(x) = {x.job.row, Grantee(x)}
         /\ x.job.row \in Codes \cup Tokens /\ x.job.row \notin Clients
         /\ Grantee(x) \in Clients
<1>1. x.job.kind \in {"redeem", "refresh"} /\ Needs(x) = {x.job.row, Grantee(x)}
  BY DEF Accepted, Needs
<1>2. x.codes \in CodeTables /\ x.tokens \in TokenTables
  BY DEF TxnType
<1>3. CASE x.job.kind = "redeem"
  <2>1. x.job.row \in DOMAIN x.codes
    BY <1>3 DEF Accepted, CodeIsValid
  <2>2. x.job.row \in Codes /\ x.codes[x.job.row].client \in Clients
    BY <1>2, <2>1, CodeTable DEF CodeRow
  <2> QED BY <1>1, <1>3, <2>2, RowsAreDisjoint DEF Grantee
<1>4. CASE x.job.kind = "refresh"
  <2>1. x.job.row \in DOMAIN x.tokens
    BY <1>4 DEF Accepted, RefreshIsValid
  <2>2. x.job.row \in Tokens /\ x.tokens[x.job.row].client \in Clients
    BY <1>2, <2>1, TokenTable DEF TokenRow
  <2> QED BY <1>1, <1>4, <2>2, RowsAreDisjoint DEF Grantee
<1> QED BY <1>1, <1>3, <1>4

\* What is collected is in the snapshot.
LEMMA CollectedSeen ==
  ASSUME NEW x
  PROVE  Collected(x) \subseteq DOMAIN x.clients \cup DOMAIN x.codes \cup DOMAIN x.tokens
BY DEF Collected, Aged, Stale, Dependents

\* A transaction needs rows of the tables.
LEMMA NeedsSeen ==
  ASSUME NEW x \in TxnType
  PROVE  Needs(x) \subseteq Rows
<1>1. DOMAIN x.clients \cup DOMAIN x.codes \cup DOMAIN x.tokens \subseteq Rows
  BY ClientTable, CodeTable, TokenTable DEF TxnType, Rows
<1>2. CASE Accepted(x)
  BY <1>2, AcceptedNeeds DEF Rows
<1>3. CASE ~Accepted(x)
  <2>1. CASE x.job.kind \in {"redeem", "refresh"}
    <3>1. Needs(x) = {t \in DOMAIN x.tokens :
                        x.tokens[t].family \in Betrayed(x) /\ ~x.tokens[t].revoked}
      BY <1>3, <2>1 DEF Needs
    <3> QED BY <1>1, <3>1
  <2>2. CASE x.job.kind = "revoke"
    <3>1. Needs(x) = x.job.rows \cap DOMAIN x.tokens
      BY <1>3, <2>2 DEF Needs
    <3> QED BY <1>1, <3>1
  <2>3. CASE x.job.kind = "gc"
    <3>1. Needs(x) = Collected(x)
      BY <1>3, <2>3 DEF Needs
    <3> QED BY <1>1, <3>1, CollectedSeen
  <2>4. CASE x.job.kind \notin {"redeem", "refresh", "revoke", "gc"}
    BY <1>3, <2>4 DEF Needs
  <2> QED BY <1>3, <2>1, <2>2, <2>3, <2>4
<1> QED BY <1>2, <1>3

\* An idle worker has seen nothing and holds nothing.
LEMMA IdleWorks ==
  ASSUME NEW c, NEW t, NEW m, NEW clock
  PROVE  Idle \in TxnType /\ Idle.held = {} /\ WorkerInv(Idle, c, t, m, clock)
<1>1. /\ NoRows \in ClientTables /\ NoRows \in CodeTables /\ NoRows \in TokenTables
      /\ DOMAIN NoRows = {}
  <2>1. /\ NoRows \in [{} -> Nat] /\ NoRows \in [{} -> CodeRow]
        /\ NoRows \in [{} -> TokenRow] /\ DOMAIN NoRows = {}
    BY DEF NoRows
  <2> QED BY <2>1, ClientTable, CodeTable, TokenTable
<1>2. /\ Idle.job = NoJob /\ Idle.codes = NoRows /\ Idle.tokens = NoRows
      /\ Idle.held = {} /\ Idle.job.kind = "none"
  BY DEF Idle, NoJob
<1>3. Idle \in TxnType
  BY <1>1, TriesAndLifetimes DEF Idle, TxnType
<1>4. Working(Idle, m, clock) /\ HoldsFresh(Idle, c, t) /\ Follows(Idle, c, t)
  BY <1>1, <1>2 DEF Working, HoldsFresh, Follows, AreMinted
<1>5. TakesOver(Idle, t) /\ Presents(Idle, c, t, m)
  BY <1>1, <1>2 DEF TakesOver, Presents, SeenFamilies
<1> QED BY <1>2, <1>3, <1>4, <1>5 DEF WorkerInv

\* What the invariant says of one worker.
LEMMA AtWorker ==
  ASSUME TxnInv, NEW w \in Workers
  PROVE  /\ txn[w] \in TxnType /\ WorkerInv(txn[w], codes, tokens, minted, now)
         /\ codes \in CodeTables /\ tokens \in TokenTables
         /\ AreMinted(codes, tokens, minted) /\ OneLive(tokens) /\ now \in Nat
         /\ \A v \in Workers \ {w} : txn[v].held \cap txn[w].held \subseteq Clients
BY TriesAndLifetimes DEF TxnInv, Types, HeldApart

\* A run of a request begins on a fresh snapshot.
LEMMA StartedWorks ==
  ASSUME TxnInv, NEW job \in Jobs, NEW n \in 1..MaxTries,
         Presents(Started(job, n), codes, tokens, minted)
  PROVE  /\ Started(job, n) \in TxnType /\ Started(job, n).held = {}
         /\ WorkerInv(Started(job, n), codes, tokens, minted, now)
<1> DEFINE x == Started(job, n)
<1>1. /\ x.job = job /\ x.at = now /\ x.codes = codes /\ x.tokens = tokens
      /\ x.held = {} /\ x.tries = n
  BY DEF Started
<1>2. now \in Nat /\ MaxTries \in Nat
  BY TriesAndLifetimes DEF TxnInv, Types
<1>3. x \in TxnType
  <2>1. /\ clients \in ClientTables /\ codes \in CodeTables /\ tokens \in TokenTables
        /\ n \in 0..MaxTries
    BY <1>2 DEF TxnInv, Types
  <2> QED BY <1>2, <2>1 DEF Started, TxnType
<1> HIDE DEF x
<1>4. Working(x, minted, now)
  BY <1>1, <1>2 DEF Working, TxnInv
<1>5. HoldsFresh(x, codes, tokens) /\ Follows(x, codes, tokens) /\ TakesOver(x, tokens)
  BY <1>1 DEF HoldsFresh, Follows, TakesOver
<1>6. Presents(x, codes, tokens, minted)
  BY DEF x
<1>7. x.held = {} /\ WorkerInv(x, codes, tokens, minted, now)
  BY <1>1, <1>4, <1>5, <1>6 DEF WorkerInv
<1> QED BY <1>3, <1>7 DEF x

-----------------------------------------------------------------------------
(***************************************************************************)
(* What one transaction's step does to the others.                         *)
(***************************************************************************)
\* From c, t to d, u: at most the rows in H were used, revoked or deleted; new
\* rows have new names, and a new token is of a new family or takes over one.
Evolves(c, t, d, u, m, H) ==
  /\ \A k \in DOMAIN d : k \in DOMAIN c \/ k \notin m
  /\ \A k \in DOMAIN c : k \notin H => k \in DOMAIN d /\ d[k] = c[k]
  /\ \A k \in DOMAIN c \cap DOMAIN d : d[k] = c[k] \/ (~c[k].used /\ d[k].used)
  /\ \A n \in DOMAIN u : n \in DOMAIN t \/ n \notin m
  /\ \A n \in DOMAIN t : n \notin H => n \in DOMAIN u /\ u[n] = t[n]
  /\ \A n \in DOMAIN t \cap DOMAIN u :
       /\ u[n].family = t[n].family
       /\ u[n] = t[n] \/ (~t[n].revoked /\ u[n].revoked)
  /\ \A n \in DOMAIN u \ DOMAIN t :
       \/ u[n].family \notin m
       \/ \E p \in DOMAIN t : /\ t[p].family = u[n].family /\ ~t[p].revoked
                              /\ p \in DOMAIN u => u[p].revoked

\* What overtook a snapshot stays ahead of it.
LEMMA StaysOvertaken ==
  ASSUME NEW x, NEW c, NEW t, NEW d, NEW u, NEW m, NEW H, NEW f,
         Evolves(c, t, d, u, m, H), AreMinted(x.codes, x.tokens, m),
         Overtaken(x, f, t)
  PROVE  Overtaken(x, f, u)
<1>1. PICK p \in DOMAIN x.tokens :
        /\ x.tokens[p].family = f /\ ~x.tokens[p].revoked
        /\ p \in DOMAIN t => t[p].revoked
  BY DEF Overtaken
<1>2. p \in m
  BY DEF AreMinted
<1>3. ASSUME p \in DOMAIN u PROVE u[p].revoked
  <2>1. p \in DOMAIN t
    BY <1>2, <1>3 DEF Evolves
  <2> QED BY <1>1, <1>3, <2>1 DEF Evolves
<1> QED BY <1>1, <1>3 DEF Overtaken

\* A transaction whose rows are left alone goes on as if nothing had happened.
LEMMA OthersGoOn ==
  ASSUME NEW x \in TxnType, NEW c, NEW t, NEW d, NEW u \in TokenTables, NEW m, NEW H,
         NEW n, NEW clock \in Nat, NEW later \in Nat, clock <= later, m \subseteq n,
         WorkerInv(x, c, t, m, clock), Evolves(c, t, d, u, m, H),
         x.held \cap H \subseteq Clients
  PROVE  WorkerInv(x, d, u, n, later)
<1>1. /\ Working(x, m, clock) /\ HoldsFresh(x, c, t) /\ Follows(x, c, t)
      /\ TakesOver(x, t) /\ Presents(x, c, t, m)
  BY DEF WorkerInv
<1>2. x.at \in Nat /\ AreMinted(x.codes, x.tokens, m)
  BY <1>1 DEF TxnType, Working
<1>3. Working(x, n, later)
  <2>1. x # Idle => x.job \in Jobs /\ x.at <= later /\ x.tries >= 1
    BY <1>1, <1>2 DEF Working
  <2>2. AreMinted(x.codes, x.tokens, n)
    BY <1>2 DEF AreMinted
  <2> QED BY <2>1, <2>2 DEF Working
<1>4. HoldsFresh(x, d, u)
  BY <1>1 DEF HoldsFresh, Evolves
<1>5. Follows(x, d, u)
  <2>1. ASSUME NEW k \in DOMAIN x.codes \cap DOMAIN d
        PROVE  d[k] = x.codes[k] \/ (~x.codes[k].used /\ d[k].used)
    <3>1. k \in DOMAIN c
      BY <1>2 DEF AreMinted, Evolves
    <3> QED BY <1>1, <3>1 DEF Follows, Evolves
  <2>2. ASSUME NEW p \in DOMAIN x.tokens \cap DOMAIN u
        PROVE  /\ u[p].family = x.tokens[p].family
               /\ u[p] = x.tokens[p] \/ (~x.tokens[p].revoked /\ u[p].revoked)
    <3>1. p \in DOMAIN t
      BY <1>2 DEF AreMinted, Evolves
    <3> QED BY <1>1, <3>1 DEF Follows, Evolves
  <2> QED BY <2>1, <2>2 DEF Follows
<1>6. TakesOver(x, u)
  <2> SUFFICES ASSUME NEW p \in DOMAIN u \ DOMAIN x.tokens,
                      u[p].family \in SeenFamilies(x)
               PROVE  Overtaken(x, u[p].family, u)
    BY DEF TakesOver
  <2>1. Overtaken(x, u[p].family, t) => Overtaken(x, u[p].family, u)
    BY <1>2, StaysOvertaken
  <2>2. CASE p \in DOMAIN t
    <3>1. u[p].family = t[p].family
      BY <2>2 DEF Evolves
    <3> QED BY <1>1, <2>1, <2>2, <3>1 DEF TakesOver
  <2>3. CASE p \notin DOMAIN t
    <3>1. u[p].family \in m
      <4>1. SeenFamilies(x) \subseteq m \cup {NoFamily}
        BY <1>2 DEF SeenFamilies, AreMinted
      <4>2. u[p].family # NoFamily
        BY TokenTable, RowsAreDisjoint DEF TokenRow
      <4> QED BY <4>1, <4>2
    <3>2. PICK q \in DOMAIN t : t[q].family = u[p].family /\ ~t[q].revoked
                                /\ (q \in DOMAIN u => u[q].revoked)
      BY <2>3, <3>1 DEF Evolves
    <3>3. CASE q \notin DOMAIN x.tokens
      BY <1>1, <2>1, <3>2, <3>3 DEF TakesOver
    <3>4. CASE q \in DOMAIN x.tokens
      <4>1. x.tokens[q].family = u[p].family /\ ~x.tokens[q].revoked
        BY <1>1, <3>2, <3>4 DEF Follows
      <4>2. Overtaken(x, u[p].family, u)
        BY <3>2, <3>4, <4>1 DEF Overtaken
      <4> QED BY <4>2
    <3> QED BY <3>3, <3>4
  <2> QED BY <2>2, <2>3
<1>7. Presents(x, d, u, n)
  BY <1>1 DEF Presents, Evolves
<1> QED BY <1>3, <1>4, <1>5, <1>6, <1>7 DEF WorkerInv

\* A step of one transaction that changes no table: the others do not notice.
LEMMA OneTxn ==
  ASSUME TxnInv, NEW w \in Workers, NEW y \in TxnType,
         txn' = [txn EXCEPT ![w] = y], UNCHANGED <<now, tables, minted>>,
         WorkerInv(y, codes, tokens, minted, now),
         \A v \in Workers \ {w} : txn[v].held \cap y.held \subseteq Clients
  PROVE  TxnInv'
<1>1. /\ txn'[w] = y /\ \A v \in Workers \ {w} : txn'[v] = txn[v]
      /\ UNCHANGED <<now, clients, codes, tokens, minted>>
  BY DEF TxnInv, Types, tables
<1>2. Types'
  BY <1>1 DEF TxnInv, Types
<1>3. HeldApart'
  BY <1>1 DEF TxnInv, HeldApart
<1>4. \A v \in Workers : WorkerInv(txn'[v], codes', tokens', minted', now')
  BY <1>1 DEF TxnInv
<1>5. AreMinted(codes', tokens', minted') /\ OneLive(tokens')
  BY <1>1 DEF TxnInv
<1> QED BY <1>2, <1>3, <1>4, <1>5 DEF TxnInv

\* A commit: the tables evolve in the rows that were locked, and the worker is
\* idle again.
LEMMA Commits ==
  ASSUME TxnInv, NEW w \in Workers, txn' = [txn EXCEPT ![w] = Idle], now' = now,
         clients' \in ClientTables, codes' \in CodeTables, tokens' \in TokenTables,
         minted \subseteq minted', minted' \subseteq Rows,
         Evolves(codes, tokens, codes', tokens', minted, txn[w].held),
         AreMinted(codes', tokens', minted'), OneLive(tokens')
  PROVE  TxnInv'
<1>1. txn'[w] = Idle /\ \A v \in Workers \ {w} : txn'[v] = txn[v]
  BY DEF TxnInv, Types
<1>2. Types'
  BY IdleWorks DEF TxnInv, Types
<1>3. HeldApart'
  BY <1>1, IdleWorks DEF TxnInv, HeldApart
<1>4. ASSUME NEW v \in Workers
      PROVE  WorkerInv(txn'[v], codes', tokens', minted', now')
  <2>1. CASE v = w
    BY <1>1, <2>1, IdleWorks
  <2>2. CASE v # w
    <3>1. /\ txn[v] \in TxnType /\ WorkerInv(txn[v], codes, tokens, minted, now)
          /\ now \in Nat /\ now' = now /\ now <= now
          /\ txn[v].held \cap txn[w].held \subseteq Clients
      BY <2>2, AtWorker
    <3>2. WorkerInv(txn[v], codes', tokens', minted', now')
      BY <3>1, OthersGoOn
    <3> QED BY <1>1, <2>2, <3>2
  <2> QED BY <2>1, <2>2
<1> QED BY <1>2, <1>3, <1>4 DEF TxnInv

\* Tokens that are revoked or deleted do not make a second live one.
LEMMA FewerLive ==
  ASSUME NEW t, NEW u, OneLive(t),
         \A n \in DOMAIN u : ~u[n].revoked =>
           n \in DOMAIN t /\ ~t[n].revoked /\ u[n].family = t[n].family
  PROVE  OneLive(u)
BY DEF OneLive

\* What a transaction needs depends on its job, its clock and its snapshot.
LEMMA NeedsSame ==
  ASSUME NEW x, NEW y, y.job = x.job, y.at = x.at,
         y.clients = x.clients, y.codes = x.codes, y.tokens = x.tokens
  PROVE  /\ Needs(y) = Needs(x) /\ (Accepted(y) <=> Accepted(x))
         /\ Grantee(y) = Grantee(x) /\ Aged(y) = Aged(x)
         /\ \A c : Dependents(y, c) = Dependents(x, c)
<1>1. Accepted(y) <=> Accepted(x)
  BY DEF Accepted, CodeIsValid, RefreshIsValid
<1>2. Betrayed(y) = Betrayed(x)
  BY DEF Betrayed
<1>3. LiveTokens(y) = LiveTokens(x)
  BY DEF LiveTokens
<1>4. Aged(y) = Aged(x)
  BY <1>3 DEF Aged, LiveFamilies
<1>5. Stale(y) = Stale(x)
  BY <1>3 DEF Stale
<1>6. \A c : Dependents(y, c) = Dependents(x, c)
  BY DEF Dependents
<1>7. Collected(y) = Collected(x)
  BY <1>4, <1>5, <1>6 DEF Collected
<1>8. Grantee(y) = Grantee(x)
  BY DEF Grantee
<1> QED BY <1>1, <1>2, <1>4, <1>6, <1>7, <1>8 DEF Needs

\* The locked row of an accepted grant is still the row that was accepted.
LEMMA AcceptedIsLocked ==
  ASSUME TxnInv, NEW w \in Workers, Accepted(txn[w]), txn[w].job.row \in txn[w].held
  PROVE  /\ txn[w].job.kind = "redeem" =>
              /\ txn[w].job.row \in DOMAIN codes /\ ~codes[txn[w].job.row].used
              /\ codes[txn[w].job.row] = txn[w].codes[txn[w].job.row]
         /\ txn[w].job.kind = "refresh" =>
              /\ txn[w].job.row \in DOMAIN tokens /\ ~tokens[txn[w].job.row].revoked
              /\ tokens[txn[w].job.row] = txn[w].tokens[txn[w].job.row]
<1> DEFINE x == txn[w]  r == txn[w].job.row  kind == txn[w].job.kind
<1>1. /\ x \in TxnType /\ HoldsFresh(x, codes, tokens)
      /\ codes \in CodeTables /\ tokens \in TokenTables
  BY AtWorker DEF WorkerInv
<1>2. r \in x.held \ Clients
  BY <1>1, AcceptedNeeds
<1>3. \/ r \in DOMAIN codes /\ codes[r] = x.codes[r]
      \/ r \in DOMAIN tokens /\ tokens[r] = x.tokens[r]
  BY <1>1, <1>2 DEF HoldsFresh
<1>4. /\ DOMAIN codes \subseteq Codes /\ DOMAIN tokens \subseteq Tokens
      /\ DOMAIN x.codes \subseteq Codes /\ DOMAIN x.tokens \subseteq Tokens
  BY <1>1, CodeTable, TokenTable DEF TxnType
<1>5. kind = "redeem" => r \in DOMAIN x.codes /\ ~x.codes[r].used
  BY DEF Accepted, CodeIsValid
<1>6. kind = "refresh" => r \in DOMAIN x.tokens /\ ~x.tokens[r].revoked
  BY DEF Accepted, RefreshIsValid
<1> QED BY <1>2, <1>3, <1>4, <1>5, <1>6, RowsAreDisjoint
-----------------------------------------------------------------------------
(***************************************************************************)
(* The invariant is inductive.                                             *)
(***************************************************************************)
\* No table has a row, and no worker a job.
LEMMA InitTxnInv == Init => TxnInv
<1> SUFFICES ASSUME Init PROVE TxnInv
  OBVIOUS
<1>1. /\ now = 0 /\ minted = {}
      /\ clients = NoRows /\ codes = NoRows /\ tokens = NoRows
      /\ txn = [w \in Workers |-> Idle]
  BY DEF Init
<1>2. /\ NoRows \in ClientTables /\ NoRows \in CodeTables /\ NoRows \in TokenTables
      /\ DOMAIN NoRows = {}
  <2>1. /\ NoRows \in [{} -> Nat] /\ NoRows \in [{} -> CodeRow]
        /\ NoRows \in [{} -> TokenRow] /\ DOMAIN NoRows = {}
    BY DEF NoRows
  <2> QED BY <2>1, ClientTable, CodeTable, TokenTable
<1>3. Types
  BY <1>1, <1>2, IdleWorks, TriesAndLifetimes DEF Types
<1>4. AreMinted(codes, tokens, minted) /\ OneLive(tokens)
  BY <1>1, <1>2 DEF AreMinted, OneLive
<1>5. HeldApart /\ \A w \in Workers : WorkerInv(txn[w], codes, tokens, minted, now)
  BY <1>1, IdleWorks DEF HeldApart
<1> QED BY <1>3, <1>4, <1>5 DEF TxnInv

\* A step outside the transactions that hands out a name and changes no row.
LEMMA NewNames ==
  ASSUME TxnInv, UNCHANGED <<now, tokens, txn>>,
         minted \subseteq minted', minted' \subseteq Rows,
         clients' \in ClientTables, codes' \in CodeTables,
         Evolves(codes, tokens, codes', tokens', minted, {}),
         AreMinted(codes', tokens', minted')
  PROVE  TxnInv'
<1>1. Types'
  BY DEF TxnInv, Types
<1>2. ASSUME NEW v \in Workers
      PROVE  WorkerInv(txn'[v], codes', tokens', minted', now')
  <2>1. /\ txn[v] \in TxnType /\ WorkerInv(txn[v], codes, tokens, minted, now)
        /\ now \in Nat /\ tokens' \in TokenTables
    BY AtWorker
  <2>2. txn[v].held \cap {} \subseteq Clients /\ now <= now' /\ now' \in Nat
    BY <2>1
  <2>3. WorkerInv(txn[v], codes', tokens', minted', now')
    BY <2>1, <2>2, OthersGoOn
  <2> QED BY <2>3
<1>3. HeldApart' /\ OneLive(tokens')
  BY DEF TxnInv, HeldApart
<1> QED BY <1>1, <1>2, <1>3 DEF TxnInv

\* A new client touches nobody's rows.
LEMMA RegisterTxnInv ==
  ASSUME TxnInv, NEW c \in Clients, Register(c) PROVE TxnInv'
<1>1. /\ clients' = Put(clients, c, now) /\ minted' = minted \cup {c}
      /\ UNCHANGED <<now, codes, tokens, txn>>
  BY DEF Register
<1>2. /\ clients \in ClientTables /\ now \in Nat /\ minted \subseteq Rows
      /\ codes \in CodeTables /\ AreMinted(codes, tokens, minted)
  BY TriesAndLifetimes DEF TxnInv, Types
<1>3. clients' \in ClientTables
  <2>1. DOMAIN clients \subseteq Clients /\ \A k \in DOMAIN clients : clients[k] \in Nat
    BY <1>2, ClientTable
  <2>2. clients' \in [DOMAIN clients \cup {c} -> Nat]
    BY <1>1, <1>2, <2>1 DEF Put
  <2>3. DOMAIN clients \cup {c} \in SUBSET Clients
    BY <2>1
  <2> QED BY <2>2, <2>3, ClientTable
<1>4. AreMinted(codes', tokens', minted') /\ minted' \subseteq Rows
  BY <1>1, <1>2 DEF AreMinted, Rows
<1>5. Evolves(codes, tokens, codes', tokens', minted, {})
  BY <1>1 DEF Evolves
<1> QED BY <1>1, <1>2, <1>3, <1>4, <1>5, NewNames

\* A new code touches nobody's rows.
LEMMA AuthorizeTxnInv ==
  ASSUME TxnInv, NEW k \in Codes, NEW c \in Clients, Authorize(k, c) PROVE TxnInv'
<1> DEFINE row == [client |-> c, expires |-> now + CodeTTL, used |-> FALSE,
                   family |-> NoFamily]
<1>1. /\ k \notin minted /\ codes' = Put(codes, k, row) /\ minted' = minted \cup {k}
      /\ now' = now /\ clients' = clients /\ tokens' = tokens /\ txn' = txn
  BY DEF Authorize
<1>2. row \in CodeRow /\ row.family = NoFamily
  <2>1. now \in Nat /\ CodeTTL \in Nat
    BY TriesAndLifetimes DEF TxnInv, Types
  <2> QED BY <2>1 DEF CodeRow
<1> HIDE DEF row
<1>3. /\ codes \in CodeTables /\ tokens \in TokenTables /\ now \in Nat
      /\ AreMinted(codes, tokens, minted) /\ OneLive(tokens)
  BY TriesAndLifetimes DEF TxnInv, Types
<1>4. /\ codes' \in CodeTables /\ DOMAIN codes' = DOMAIN codes \cup {k}
      /\ codes'[k] = row /\ \A j \in DOMAIN codes \ {k} : codes'[j] = codes[j]
  <2>1. codes \in CodeTables /\ row \in CodeRow
    BY <1>2, <1>3
  <2>2. /\ Put(codes, k, row) \in CodeTables
        /\ DOMAIN Put(codes, k, row) = DOMAIN codes \cup {k}
        /\ Put(codes, k, row)[k] = row
        /\ \A j \in DOMAIN codes \ {k} : Put(codes, k, row)[j] = codes[j]
    BY ONLY <2>1, PutCode
  <2> QED BY ONLY <1>1, <2>2
<1>5. k \notin DOMAIN codes
  BY <1>1, <1>3 DEF AreMinted
<1>6. Evolves(codes, tokens, codes', tokens', minted, {})
  BY <1>1, <1>4, <1>5 DEF Evolves
<1>7. clients' \in ClientTables /\ minted' \subseteq Rows /\ minted \subseteq minted'
  BY <1>1 DEF TxnInv, Types, Rows
<1>8. AreMinted(codes', tokens', minted')
  BY <1>1, <1>2, <1>3, <1>4 DEF AreMinted
<1> QED BY <1>1, <1>4, <1>6, <1>7, <1>8, NewNames

\* A request is taken for a credential that is there, accepted or spent.
LEMMA BeginTxnInv ==
  ASSUME TxnInv, NEW w \in Workers, NEW job \in Jobs, Begin(w, job) PROVE TxnInv'
<1> DEFINE x == Started(job, MaxTries)
<1>1. /\ txn' = [txn EXCEPT ![w] = x] /\ UNCHANGED <<now, tables, minted>>
      /\ job.kind = "gc" \/ Needs(x) # {}
  BY DEF Begin
<1>2. x.job = job /\ x.codes = codes /\ x.tokens = tokens
  BY DEF Started
<1>3. AreMinted(codes, tokens, minted)
  BY AtWorker
<1> HIDE DEF x
<1>4. Presents(x, codes, tokens, minted)
  <2>1. CASE job.kind = "redeem"
    <3>1. CASE Accepted(x)
      <4>1. job.row \in DOMAIN codes
        BY <1>2, <2>1, <3>1 DEF Accepted, CodeIsValid
      <4> QED BY <1>2, <1>3, <2>1, <3>1, <4>1 DEF Presents, AreMinted
    <3>2. CASE ~Accepted(x)
      <4>1. Betrayed(x) # {}
        BY <1>1, <1>2, <2>1, <3>2 DEF Needs
      <4>2. job.row \in DOMAIN codes /\ codes[job.row].used
        BY <1>2, <2>1, <4>1 DEF Betrayed
      <4> QED BY <1>2, <1>3, <2>1, <4>2 DEF Presents, AreMinted
    <3> QED BY <3>1, <3>2
  <2>2. CASE job.kind = "refresh"
    <3>1. CASE Accepted(x)
      <4>1. job.row \in DOMAIN tokens
        BY <1>2, <2>2, <3>1 DEF Accepted, RefreshIsValid
      <4> QED BY <1>2, <1>3, <2>2, <3>1, <4>1 DEF Presents, AreMinted
    <3>2. CASE ~Accepted(x)
      <4>1. Betrayed(x) # {}
        BY <1>1, <1>2, <2>2, <3>2 DEF Needs
      <4>2. job.row \in DOMAIN tokens /\ tokens[job.row].revoked
        BY <1>2, <2>2, <4>1 DEF Betrayed
      <4> QED BY <1>2, <1>3, <2>2, <4>2 DEF Presents, AreMinted
    <3> QED BY <3>1, <3>2
  <2>3. CASE job.kind \notin {"redeem", "refresh"}
    BY <1>2, <2>3 DEF Presents
  <2> QED BY <2>1, <2>2, <2>3
<1>5. MaxTries \in 1..MaxTries
  BY TriesAndLifetimes
<1>6. x \in TxnType /\ x.held = {} /\ WorkerInv(x, codes, tokens, minted, now)
  BY <1>4, <1>5, StartedWorks DEF x
<1> QED BY <1>1, <1>6, OneTxn

\* A row is locked if nobody holds it and it is still as the snapshot has it.
LEMMA LockTxnInv ==
  ASSUME TxnInv, NEW w \in Workers, NEW r \in Rows, Lock(w, r)
  PROVE  TxnInv'
<1> DEFINE x == txn[w]
           y == [txn[w] EXCEPT !.held = @ \cup {r}]
<1>1. /\ Wants(w, r) /\ Unchanged(x, r) /\ UNCHANGED <<now, tables, minted>>
      /\ x \in TxnType /\ WorkerInv(x, codes, tokens, minted, now)
  BY AtWorker DEF Lock
<1>2. txn' = [txn EXCEPT ![w] = y]
  BY DEF Lock, TxnInv, Types
<1>3. /\ y \in TxnType /\ y.job = x.job /\ y.at = x.at /\ y.clients = x.clients
      /\ y.codes = x.codes /\ y.tokens = x.tokens /\ y.held = x.held \cup {r} /\ y.tries = x.tries
  BY <1>1 DEF TxnType
<1> HIDE DEF x, y
<1>4. Needs(y) = Needs(x) /\ (Accepted(y) <=> Accepted(x))
  BY <1>3, NeedsSame
<1>5. r \in Needs(x) /\ \A v \in Workers : r \in txn[v].held => r \in Clients
  BY <1>1 DEF Wants, Clash, Due, x
<1>6. Working(y, minted, now)
  <2>1. x # Idle
    BY <1>5 DEF Idle, NoJob, Needs, Accepted
  <2> QED BY <1>1, <1>3, <2>1 DEF WorkerInv, Working
<1>7. HoldsFresh(y, codes, tokens)
  <2>1. r \notin Clients => r \notin DOMAIN clients
    BY ClientTable DEF TxnInv, Types
  <2> QED BY <1>1, <1>3, <1>4, <1>5, <2>1 DEF WorkerInv, HoldsFresh, Unchanged
<1>8. Follows(y, codes, tokens) /\ TakesOver(y, tokens)
  BY <1>1, <1>3 DEF WorkerInv, Follows, TakesOver, SeenFamilies, Overtaken
<1>9. Presents(y, codes, tokens, minted)
  BY <1>1, <1>3 DEF WorkerInv, Presents
<1>10. WorkerInv(y, codes, tokens, minted, now)
  BY <1>6, <1>7, <1>8, <1>9 DEF WorkerInv
<1>11. \A v \in Workers \ {w} : txn[v].held \cap y.held \subseteq Clients
  BY <1>3, <1>5, AtWorker DEF x
<1> QED BY <1>1, <1>2, <1>3, <1>10, <1>11, OneTxn

\* A transaction that holds or needs something is a request at work.
LEMMA NeedsWorks ==
  ASSUME TxnInv, NEW w \in Workers, txn[w].held # {} \/ Needs(txn[w]) # {}
  PROVE  txn[w] # Idle /\ txn[w].job \in Jobs /\ txn[w].tries \in 1..MaxTries
<1>1. txn[w] # Idle
  BY DEF Idle, NoJob, Needs, Accepted
<1>2. txn[w].tries \in 0..MaxTries
  BY AtWorker DEF TxnType
<1> QED BY <1>1, <1>2, AtWorker, TriesAndLifetimes DEF WorkerInv, Working

\* A run that failed is begun anew, or the request is given up.
LEMMA RunAgainTxnInv ==
  ASSUME TxnInv, NEW w \in Workers, txn[w].held # {} \/ Needs(txn[w]) # {}, RunAgain(w)
  PROVE  TxnInv'
<1> DEFINE x == txn[w]
<1>1. UNCHANGED <<now, tables, minted>>
  BY DEF RunAgain
<1>2. CASE x.tries = 1
  <2>1. txn' = [txn EXCEPT ![w] = Idle]
    BY <1>2 DEF RunAgain
  <2> QED BY <1>1, <2>1, IdleWorks, OneTxn DEF tables
<1>3. CASE x.tries # 1
  <2> DEFINE y == Started(x.job, x.tries - 1)
  <2>1. txn' = [txn EXCEPT ![w] = y]
    BY <1>3 DEF RunAgain
  <2>2. x.job \in Jobs /\ x.tries - 1 \in 1..MaxTries
    <3>1. x.job \in Jobs /\ x.tries \in 1..MaxTries
      BY NeedsWorks
    <3> QED BY <1>3, <3>1, TriesAndLifetimes
  <2>3. y.job = x.job /\ y.codes = codes /\ y.tokens = tokens
    BY DEF Started
  <2> HIDE DEF y
  <2>4. Presents(y, codes, tokens, minted)
    BY <2>3, AtWorker DEF WorkerInv, Presents
  <2>5. y \in TxnType /\ y.held = {} /\ WorkerInv(y, codes, tokens, minted, now)
    BY <2>2, <2>4, StartedWorks DEF y
  <2> QED BY <1>1, <2>1, <2>5, OneTxn
<1> QED BY <1>2, <1>3

\* A conflict ends the run.
LEMMA ConflictTxnInv ==
  ASSUME TxnInv, NEW w \in Workers, NEW r \in Rows, Conflict(w, r)
  PROVE  TxnInv'
<1>1. txn[w].held # {} \/ Needs(txn[w]) # {}
  BY DEF Conflict, Wants, Due, Missed
<1> QED BY <1>1, RunAgainTxnInv DEF Conflict

\* So does the database's choice of a victim, which waits for another.
LEMMA VictimTxnInv ==
  ASSUME TxnInv, NEW w \in Workers, Victim(w) PROVE TxnInv'
<1>1. PICK S \in SUBSET Workers : w \in S /\ Circle(S)
  BY DEF Victim
<1>2. PICK next \in Bijection(S, S) : \A v \in S : WaitsFor(v, next[v])
  BY <1>1 DEF Circle
<1>3. PICK u \in S : u = next[w]
  BY <1>1 DEF Bijection, Surjection
<1>4. PICK r : r \in Due(txn[w])
  BY <1>1, <1>2, <1>3 DEF WaitsFor
<1>5. Needs(txn[w]) # {}
  BY <1>4 DEF Due
<1> QED BY <1>5, RunAgainTxnInv DEF Victim

\* A refusal leaves everything as it was.
LEMMA RefuseTxnInv ==
  ASSUME TxnInv, NEW w \in Workers, Refuse(w) PROVE TxnInv'
BY IdleWorks, OneTxn DEF Refuse

\* What CommitRedeem does to the tables.
LEMMA RedeemedTables ==
  ASSUME TxnInv, NEW w \in Workers, NEW n \in Tokens, CommitRedeem(w, n)
  PROVE  LET r == txn[w].job.row
         IN  /\ r \in txn[w].held /\ txn[w].job.kind = "redeem" /\ Accepted(txn[w])
             /\ txn' = [txn EXCEPT ![w] = Idle] /\ now' = now /\ clients' = clients
             /\ n \notin minted /\ minted' = minted \cup {n}
             /\ r \in DOMAIN codes /\ ~codes[r].used
             /\ codes' \in CodeTables /\ DOMAIN codes' = DOMAIN codes
             /\ codes'[r].used /\ codes'[r].family = n
             /\ \A k \in DOMAIN codes \ {r} : codes'[k] = codes[k]
             /\ tokens' \in TokenTables /\ DOMAIN tokens' = DOMAIN tokens \cup {n}
             /\ tokens'[n].family = n /\ ~tokens'[n].revoked
             /\ \A t \in DOMAIN tokens \ {n} : tokens'[t] = tokens[t]
<1> DEFINE r == txn[w].job.row
           row == [codes[r] EXCEPT !.used = TRUE, !.family = n]
<1>1. PICK clock \in txn[w].at..now : CommitRedeem(w, n)!(clock)
  BY DEF CommitRedeem
<1>2. /\ r \in txn[w].held /\ r \in DOMAIN codes /\ ~codes[r].used
      /\ txn[w].job.kind = "redeem" /\ Grantee(txn[w]) \in Clients
  <2>1. txn[w] \in TxnType /\ Accepted(txn[w])
    BY <1>1, AtWorker
  <2>2. r \in txn[w].held /\ Grantee(txn[w]) \in Clients /\ txn[w].job.kind = "redeem"
    BY <1>1, <2>1, AcceptedNeeds DEF Ready
  <2> QED BY <2>1, <2>2, AcceptedIsLocked
<1>3. /\ codes \in CodeTables /\ tokens \in TokenTables /\ now \in Nat
      /\ txn[w].at \in Nat
  BY AtWorker DEF TxnType
<1>4. codes[r] \in CodeRow /\ DOMAIN codes \subseteq Codes
  BY <1>2, <1>3, CodeTable
<1>5. row \in CodeRow /\ row.used /\ row.family = n
  BY <1>4 DEF CodeRow
<1>6. codes' = [codes EXCEPT ![r] = row]
  BY <1>1
<1> HIDE DEF row
<1>7. /\ DOMAIN codes' = DOMAIN codes /\ codes'[r] = row
      /\ \A k \in DOMAIN codes \ {r} : codes'[k] = codes[k]
  BY <1>2, <1>6
<1>8. codes' \in CodeTables
  <2>1. codes' = [k \in DOMAIN codes |-> codes'[k]]
    BY <1>6
  <2>2. \A k \in DOMAIN codes : codes'[k] \in CodeRow
    BY <1>3, <1>5, <1>7, CodeTable
  <2>3. codes' \in [DOMAIN codes -> CodeRow]
    BY ONLY <2>1, <2>2
  <2> QED BY <1>4, <2>3, CodeTable
<1> DEFINE new == NewToken(clock, Grantee(txn[w]), n)
<1>9. new \in TokenRow /\ new.family = n /\ ~new.revoked
  BY <1>2, <1>3, TriesAndLifetimes DEF NewToken, TokenRow
<1>10. tokens' = Put(tokens, n, new)
  BY <1>1
<1> HIDE DEF new
<1>11. /\ tokens' \in TokenTables /\ DOMAIN tokens' = DOMAIN tokens \cup {n}
       /\ tokens'[n] = new /\ \A t \in DOMAIN tokens \ {n} : tokens'[t] = tokens[t]
  <2>0. tokens \in TokenTables /\ new \in TokenRow
    BY <1>3, <1>9
  <2>1. /\ Put(tokens, n, new) \in TokenTables
        /\ DOMAIN Put(tokens, n, new) = DOMAIN tokens \cup {n}
        /\ Put(tokens, n, new)[n] = new
        /\ \A t \in DOMAIN tokens : t # n => Put(tokens, n, new)[t] = tokens[t]
    BY ONLY <2>0, PutToken
  <2> QED BY ONLY <1>10, <2>1
<1> QED BY <1>1, <1>2, <1>5, <1>7, <1>8, <1>9, <1>11

\* A redemption uses the code it has locked and founds a new family.
LEMMA CommitRedeemTxnInv ==
  ASSUME TxnInv, NEW w \in Workers, NEW n \in Tokens, CommitRedeem(w, n)
  PROVE  TxnInv'
<1> DEFINE r == txn[w].job.row
<1>1. /\ r \in txn[w].held
      /\ txn' = [txn EXCEPT ![w] = Idle] /\ now' = now /\ clients' = clients
      /\ n \notin minted /\ minted' = minted \cup {n}
      /\ r \in DOMAIN codes /\ ~codes[r].used
      /\ codes' \in CodeTables /\ DOMAIN codes' = DOMAIN codes
      /\ codes'[r].used /\ codes'[r].family = n
      /\ \A k \in DOMAIN codes \ {r} : codes'[k] = codes[k]
      /\ tokens' \in TokenTables /\ DOMAIN tokens' = DOMAIN tokens \cup {n}
      /\ tokens'[n].family = n /\ ~tokens'[n].revoked
      /\ \A t \in DOMAIN tokens \ {n} : tokens'[t] = tokens[t]
  BY RedeemedTables
<1> HIDE DEF r
<1>2. AreMinted(codes, tokens, minted) /\ OneLive(tokens)
  BY AtWorker
<1>3. n \notin DOMAIN tokens
  BY <1>1, <1>2 DEF AreMinted
<1>4. Evolves(codes, tokens, codes', tokens', minted, txn[w].held)
  BY <1>1, <1>3 DEF Evolves
<1>5. AreMinted(codes', tokens', minted')
  BY <1>1, <1>2 DEF AreMinted
<1>6. OneLive(tokens')
  BY <1>1, <1>2, <1>3 DEF OneLive, AreMinted
<1>7. minted \subseteq minted' /\ minted' \subseteq Rows /\ clients' \in ClientTables
  BY <1>1 DEF TxnInv, Types, Rows
<1> QED BY <1>1, <1>4, <1>5, <1>6, <1>7, Commits

\* What CommitRefresh does to the tables.
LEMMA RefreshedTables ==
  ASSUME TxnInv, NEW w \in Workers, NEW n \in Tokens, CommitRefresh(w, n)
  PROVE  LET r == txn[w].job.row
         IN  /\ r \in txn[w].held /\ txn[w].job.kind = "refresh" /\ Accepted(txn[w])
             /\ txn' = [txn EXCEPT ![w] = Idle] /\ now' = now
             /\ clients' = clients /\ codes' = codes
             /\ n \notin minted /\ minted' = minted \cup {n}
             /\ r \in DOMAIN tokens /\ ~tokens[r].revoked /\ r # n
             /\ tokens' \in TokenTables /\ DOMAIN tokens' = DOMAIN tokens \cup {n}
             /\ tokens'[n].family = tokens[r].family /\ ~tokens'[n].revoked
             /\ tokens'[r].revoked /\ tokens'[r].family = tokens[r].family
             /\ \A t \in DOMAIN tokens \ {r} : tokens'[t] = tokens[t]
<1> DEFINE r == txn[w].job.row
<1>1. PICK clock \in txn[w].at..now : CommitRefresh(w, n)!(clock)
  BY DEF CommitRefresh
<1>2. /\ r \in txn[w].held /\ r \in DOMAIN tokens /\ ~tokens[r].revoked
      /\ tokens[r] = txn[w].tokens[r] /\ txn[w].job.kind = "refresh"
      /\ Grantee(txn[w]) \in Clients
  <2>1. txn[w] \in TxnType /\ Accepted(txn[w])
    BY <1>1, AtWorker
  <2>2. r \in txn[w].held /\ Grantee(txn[w]) \in Clients /\ txn[w].job.kind = "refresh"
    BY <1>1, <2>1, AcceptedNeeds DEF Ready
  <2> QED BY <2>1, <2>2, AcceptedIsLocked
<1>3. /\ tokens \in TokenTables /\ now \in Nat /\ txn[w].at \in Nat
      /\ AreMinted(codes, tokens, minted)
  BY AtWorker DEF TxnType
<1>4. n \notin DOMAIN tokens
  BY <1>1, <1>3 DEF AreMinted
<1> DEFINE new == NewToken(clock, Grantee(txn[w]), tokens[r].family)
           old == Revoked({r})
<1>5. new \in TokenRow /\ new.family = tokens[r].family /\ ~new.revoked
  <2>1. tokens[r].family \in Tokens
    BY <1>2, <1>3, TokenTable DEF TokenRow
  <2> QED BY <1>2, <1>3, <2>1, TriesAndLifetimes DEF NewToken, TokenRow
<1>6. /\ old \in TokenTables /\ DOMAIN old = DOMAIN tokens
      /\ old[r].revoked /\ old[r].family = tokens[r].family
      /\ \A t \in DOMAIN tokens \ {r} : old[t] = tokens[t]
  BY <1>2, <1>3, RevokedTable
<1>7. tokens' = Put(old, n, new)
  BY <1>1, <1>2
<1> HIDE DEF new, old
<1>8. /\ tokens' \in TokenTables /\ DOMAIN tokens' = DOMAIN tokens \cup {n}
      /\ tokens'[n] = new /\ \A t \in DOMAIN tokens \ {n} : tokens'[t] = old[t]
  <2>0. old \in TokenTables /\ new \in TokenRow
    BY <1>5, <1>6
  <2>1. /\ Put(old, n, new) \in TokenTables
        /\ DOMAIN Put(old, n, new) = DOMAIN old \cup {n}
        /\ Put(old, n, new)[n] = new
        /\ \A t \in DOMAIN old : t # n => Put(old, n, new)[t] = old[t]
    BY ONLY <2>0, PutToken
  <2>2. DOMAIN old = DOMAIN tokens
    BY <1>6
  <2> QED BY ONLY <1>7, <2>1, <2>2
<1>9. tokens'[r] = old[r] /\ \A t \in DOMAIN tokens \ {r} : tokens'[t] = tokens[t]
  BY <1>2, <1>4, <1>6, <1>8
<1> QED BY <1>1, <1>2, <1>4, <1>5, <1>6, <1>8, <1>9

\* A rotation revokes the token it has locked and hands its family on.
LEMMA CommitRefreshTxnInv ==
  ASSUME TxnInv, NEW w \in Workers, NEW n \in Tokens, CommitRefresh(w, n)
  PROVE  TxnInv'
<1> DEFINE r == txn[w].job.row
<1>1. /\ r \in txn[w].held
      /\ txn' = [txn EXCEPT ![w] = Idle] /\ now' = now
      /\ clients' = clients /\ codes' = codes
      /\ n \notin minted /\ minted' = minted \cup {n}
      /\ r \in DOMAIN tokens /\ ~tokens[r].revoked /\ r # n
      /\ tokens' \in TokenTables /\ DOMAIN tokens' = DOMAIN tokens \cup {n}
      /\ tokens'[n].family = tokens[r].family /\ ~tokens'[n].revoked
      /\ tokens'[r].revoked /\ tokens'[r].family = tokens[r].family
      /\ \A t \in DOMAIN tokens \ {r} : tokens'[t] = tokens[t]
  BY RefreshedTables
<1> HIDE DEF r
<1>2. AreMinted(codes, tokens, minted) /\ OneLive(tokens) /\ codes \in CodeTables
  BY AtWorker
<1>3. n \notin DOMAIN tokens
  BY <1>1, <1>2 DEF AreMinted
<1>4. Evolves(codes, tokens, codes', tokens', minted, txn[w].held)
  BY <1>1, <1>3 DEF Evolves
<1>5. AreMinted(codes', tokens', minted')
  BY <1>1, <1>2 DEF AreMinted
<1>6. OneLive(tokens')
  BY <1>1, <1>2, <1>3 DEF OneLive
<1>7. minted \subseteq minted' /\ minted' \subseteq Rows /\ clients' \in ClientTables
  BY <1>1 DEF TxnInv, Types, Rows
<1> QED BY <1>1, <1>2, <1>4, <1>5, <1>6, <1>7, Commits

\* A revocation only revokes, and only what is locked.
LEMMA CommitRevocationTxnInv ==
  ASSUME TxnInv, NEW w \in Workers, CommitRevocation(w) PROVE TxnInv'
<1>1. /\ tokens' = Revoked(txn[w].held) /\ txn' = [txn EXCEPT ![w] = Idle]
      /\ UNCHANGED <<now, clients, codes, minted>>
  BY DEF CommitRevocation
<1>2. /\ codes \in CodeTables /\ tokens \in TokenTables
      /\ AreMinted(codes, tokens, minted) /\ OneLive(tokens)
  BY AtWorker
<1>3. /\ tokens' \in TokenTables /\ DOMAIN tokens' = DOMAIN tokens
      /\ \A t \in DOMAIN tokens \ txn[w].held : tokens'[t] = tokens[t]
      /\ \A t \in DOMAIN tokens \cap txn[w].held :
           /\ tokens'[t].revoked /\ tokens'[t].family = tokens[t].family
           /\ tokens[t].revoked => tokens'[t] = tokens[t]
  BY <1>1, <1>2, RevokedTable
<1>4. Evolves(codes, tokens, codes', tokens', minted, txn[w].held)
  BY <1>1, <1>3 DEF Evolves
<1>5. AreMinted(codes', tokens', minted')
  BY <1>1, <1>2, <1>3 DEF AreMinted
<1>6. OneLive(tokens')
  BY <1>2, <1>3, FewerLive
<1>7. minted \subseteq minted' /\ minted' \subseteq Rows /\ clients' \in ClientTables
  BY <1>1 DEF TxnInv, Types, Rows
<1> QED BY <1>1, <1>2, <1>3, <1>4, <1>5, <1>6, <1>7, Commits

\* What CommitGC does to the tables.
LEMMA CollectedTables ==
  ASSUME TxnInv, NEW w \in Workers, CommitGC(w)
  PROVE  /\ txn' = [txn EXCEPT ![w] = Idle] /\ now' = now /\ minted' = minted
         /\ clients' \in ClientTables
         /\ codes' \in CodeTables /\ DOMAIN codes' = DOMAIN codes \ txn[w].held
         /\ \A k \in DOMAIN codes' : codes'[k] = codes[k]
         /\ tokens' \in TokenTables /\ DOMAIN tokens' = DOMAIN tokens \ txn[w].held
         /\ \A t \in DOMAIN tokens' : tokens'[t] = tokens[t]
<1> DEFINE C == DOMAIN clients \ txn[w].held
           K == DOMAIN codes \ txn[w].held
           T == DOMAIN tokens \ txn[w].held
<1>1. /\ clients' = [c \in C |-> clients[c]]
      /\ codes' = [k \in K |-> codes[k]] /\ tokens' = [t \in T |-> tokens[t]]
      /\ txn' = [txn EXCEPT ![w] = Idle] /\ now' = now /\ minted' = minted
  BY DEF CommitGC, Restrict
<1>2. /\ K \subseteq Codes /\ \A k \in K : codes[k] \in CodeRow
      /\ T \subseteq Tokens /\ \A t \in T : tokens[t] \in TokenRow
  BY AtWorker, CodeTable, TokenTable
<1>3. C \subseteq Clients /\ \A c \in C : clients[c] \in Nat
  BY ClientTable DEF TxnInv, Types
<1> HIDE DEF C, K, T
<1>4. /\ clients' \in [C -> Nat] /\ codes' \in [K -> CodeRow]
      /\ tokens' \in [T -> TokenRow]
  BY <1>1, <1>2, <1>3
<1>5. clients' \in ClientTables /\ codes' \in CodeTables /\ tokens' \in TokenTables
  BY <1>2, <1>3, <1>4, ClientTable, CodeTable, TokenTable
<1> QED BY <1>1, <1>5 DEF K, T

\* The collector deletes what it has locked.
LEMMA CommitGCTxnInv ==
  ASSUME TxnInv, NEW w \in Workers, CommitGC(w) PROVE TxnInv'
<1>1. /\ txn' = [txn EXCEPT ![w] = Idle] /\ now' = now /\ minted' = minted
      /\ clients' \in ClientTables
      /\ codes' \in CodeTables /\ DOMAIN codes' = DOMAIN codes \ txn[w].held
      /\ \A k \in DOMAIN codes' : codes'[k] = codes[k]
      /\ tokens' \in TokenTables /\ DOMAIN tokens' = DOMAIN tokens \ txn[w].held
      /\ \A t \in DOMAIN tokens' : tokens'[t] = tokens[t]
  BY CollectedTables
<1>2. AreMinted(codes, tokens, minted) /\ OneLive(tokens)
  BY AtWorker
<1>3. Evolves(codes, tokens, codes', tokens', minted, txn[w].held)
  BY <1>1 DEF Evolves
<1>4. AreMinted(codes', tokens', minted')
  BY <1>1, <1>2 DEF AreMinted
<1>5. OneLive(tokens')
  BY <1>1, <1>2, FewerLive
<1>6. minted \subseteq minted' /\ minted' \subseteq Rows
  BY <1>1 DEF TxnInv, Types
<1> QED BY <1>1, <1>3, <1>4, <1>5, <1>6, Commits

\* The clock makes no snapshot younger.
LEMMA TickTxnInv == TxnInv /\ Tick => TxnInv'
<1> SUFFICES ASSUME TxnInv, Tick PROVE TxnInv'
  OBVIOUS
<1>1. /\ now \in Nat /\ now < MaxTime /\ now' = now + 1
      /\ UNCHANGED <<clients, codes, tokens, minted, txn>>
  BY TriesAndLifetimes DEF TxnInv, Types, Tick, tables
<1>2. Types'
  BY <1>1, TriesAndLifetimes DEF TxnInv, Types
<1>3. ASSUME NEW w \in Workers
      PROVE  WorkerInv(txn'[w], codes', tokens', minted', now')
  <2>1. txn[w].at \in Nat /\ WorkerInv(txn[w], codes, tokens, minted, now)
    BY AtWorker DEF TxnType
  <2>2. Working(txn[w], minted, now')
    BY <1>1, <2>1 DEF WorkerInv, Working
  <2> QED BY <1>1, <2>1, <2>2 DEF WorkerInv
<1>4. HeldApart' /\ AreMinted(codes', tokens', minted') /\ OneLive(tokens')
  BY <1>1 DEF TxnInv, HeldApart
<1> QED BY <1>2, <1>3, <1>4 DEF TxnInv

\* Every step keeps the invariant.
LEMMA NextTxnInv == TxnInv /\ [Next]_vars => TxnInv'
<1> SUFFICES ASSUME TxnInv, [Next]_vars PROVE TxnInv'
  OBVIOUS
<1>1. CASE Tick
  BY <1>1, TickTxnInv
<1>2. ASSUME NEW c \in Clients, Register(c) PROVE TxnInv'
  BY <1>2, RegisterTxnInv
<1>13. ASSUME NEW k \in Codes, NEW c \in Clients, Authorize(k, c) PROVE TxnInv'
  BY <1>13, AuthorizeTxnInv
<1>3. ASSUME NEW w \in Workers, NEW job \in Jobs, Begin(w, job) PROVE TxnInv'
  BY <1>3, BeginTxnInv
<1>4. ASSUME NEW w \in Workers, NEW r \in Rows, Lock(w, r) PROVE TxnInv'
  BY <1>4, LockTxnInv
<1>5. ASSUME NEW w \in Workers, NEW r \in Rows, Conflict(w, r) PROVE TxnInv'
  BY <1>5, ConflictTxnInv
<1>6. ASSUME NEW w \in Workers, NEW n \in Tokens, CommitRedeem(w, n) PROVE TxnInv'
  BY <1>6, CommitRedeemTxnInv
<1>7. ASSUME NEW w \in Workers, NEW n \in Tokens, CommitRefresh(w, n) PROVE TxnInv'
  BY <1>7, CommitRefreshTxnInv
<1>8. ASSUME NEW w \in Workers, Refuse(w) PROVE TxnInv'
  BY <1>8, RefuseTxnInv
<1>9. ASSUME NEW w \in Workers, CommitRevocation(w) PROVE TxnInv'
  BY <1>9, CommitRevocationTxnInv
<1>10. ASSUME NEW w \in Workers, CommitGC(w) PROVE TxnInv'
  BY <1>10, CommitGCTxnInv
<1>11. ASSUME NEW w \in Workers, Victim(w) PROVE TxnInv'
  BY <1>11, VictimTxnInv
<1>12. CASE UNCHANGED vars
  BY <1>12 DEF vars, tables, TxnInv, Types, HeldApart
<1> QED
  BY <1>1, <1>2, <1>3, <1>4, <1>5, <1>6, <1>7, <1>8, <1>9, <1>10, <1>11, <1>12, <1>13
     DEF Next

\* In every reachable state the tables and every worker's snapshot, locks and
\* credential fit together.
THEOREM TxnInvariant == Spec => []TxnInv
BY InitTxnInv, NextTxnInv, PTL DEF Spec

-----------------------------------------------------------------------------
(***************************************************************************)
(* What it implies.                                                        *)
(***************************************************************************)
\* Every variable keeps its type, and a worker that is not idle has a job, a
\* clock that is not ahead, and a run that it is due.
THEOREM TxnTypeCorrect == Spec => []TypeOK
<1>1. TxnInv => TypeOK
  <2> SUFFICES ASSUME TxnInv PROVE TypeOK
    OBVIOUS
  <2>1. now \in 0..MaxTime /\ minted \subseteq Rows
    BY DEF TxnInv, Types
  <2>2. /\ DOMAIN clients \subseteq Clients /\ \A c \in DOMAIN clients : clients[c] \in Nat
        /\ DOMAIN codes \subseteq Codes /\ \A k \in DOMAIN codes : codes[k] \in CodeRow
        /\ DOMAIN tokens \subseteq Tokens
        /\ \A t \in DOMAIN tokens : tokens[t] \in TokenRow
    BY ClientTable, CodeTable, TokenTable DEF TxnInv, Types
  <2>3. ASSUME NEW w \in Workers, txn[w] # Idle
        PROVE  /\ txn[w].job \in Jobs /\ txn[w].at \in 0..now
               /\ txn[w].held \subseteq Rows
               /\ txn[w].tries \in 1..MaxTries
    <3>1. txn[w] \in TxnType /\ Working(txn[w], minted, now) /\ now \in Nat
      BY AtWorker DEF WorkerInv
    <3>2. txn[w].job \in Jobs /\ txn[w].at <= now /\ txn[w].tries >= 1
      BY <2>3, <3>1 DEF Working
    <3>3. /\ txn[w].at \in Nat /\ txn[w].held \subseteq Rows
          /\ txn[w].tries \in 0..MaxTries
      BY <3>1 DEF TxnType
    <3> QED BY <3>1, <3>2, <3>3, TriesAndLifetimes
  <2> QED BY <2>1, <2>2, <2>3 DEF TypeOK
<1> QED BY <1>1, TxnInvariant, PTL

\* A family with a live token has that token alone.
LEMMA LiveAlone ==
  ASSUME OneLive(tokens), NEW f, NEW t \in Unrevoked(f)
  PROVE  Unrevoked(f) = {t}
BY DEF OneLive, Unrevoked

\* Racing redemptions and rotations never leave a family with two live tokens.
THEOREM FamiliesNeverFork == Spec => []OneLivePerFamily
<1>1. TxnInv => OneLivePerFamily
  <2> SUFFICES ASSUME TxnInv, NEW f \in Tokens PROVE Cardinality(Unrevoked(f)) <= 1
    BY DEF OneLivePerFamily
  <2>1. CASE Unrevoked(f) = {}
    BY <2>1, FS_EmptySet
  <2>2. CASE Unrevoked(f) # {}
    <3>1. PICK t : Unrevoked(f) = {t}
      BY <2>2, LiveAlone DEF TxnInv
    <3>2. Cardinality({t}) = 1
      BY FS_Singleton
    <3> QED BY <3>1, <3>2
  <2> QED BY <2>1, <2>2
<1> QED BY <1>1, TxnInvariant, PTL

\* A request whose credential is spent locks every token of the betrayed family
\* that is live, however young: the lock of an older one would have failed.
LEMMA RevocationReachesAll ==
  ASSUME TxnInv, NEW w \in Workers, CommitRevocation(w), ~Lapsed(txn[w]),
         NEW f \in SpentFamilies(txn[w].job)
  PROVE  Unrevoked(f)' = {}
<1> DEFINE x == txn[w]  row == txn[w].job.row
<1>1. /\ x \in TxnType /\ WorkerInv(x, codes, tokens, minted, now)
      /\ codes \in CodeTables /\ tokens \in TokenTables
      /\ HoldsFresh(x, codes, tokens) /\ Follows(x, codes, tokens)
      /\ TakesOver(x, tokens) /\ Presents(x, codes, tokens, minted)
  BY AtWorker DEF WorkerInv
<1>2. /\ ~Accepted(x) /\ Needs(x) = x.held /\ tokens' = Revoked(x.held)
  BY DEF CommitRevocation, Ready
<1>3. \/ x.job.kind = "redeem" /\ row \in DOMAIN codes /\ codes[row].used
         /\ f = codes[row].family
      \/ x.job.kind = "refresh" /\ row \in DOMAIN tokens /\ tokens[row].revoked
         /\ f = tokens[row].family
  BY DEF SpentFamilies
<1>4. x.job.kind \in {"redeem", "refresh"} /\ f \in Betrayed(x) /\ f \in SeenFamilies(x)
  <2>1. CASE x.job.kind = "redeem"
    <3>1. row \in DOMAIN codes /\ codes[row].used /\ f = codes[row].family
      BY <1>3, <2>1
    <3>2. row \in DOMAIN x.codes /\ x.codes[row].used
      BY <1>1, <1>2, <2>1, <3>1 DEF Presents, Lapsed
    <3>3. x.codes[row] = codes[row]
      BY <1>1, <3>1, <3>2 DEF Follows
    <3> QED BY <2>1, <3>1, <3>2, <3>3 DEF Betrayed, SeenFamilies
  <2>2. CASE x.job.kind = "refresh"
    <3>1. row \in DOMAIN tokens /\ tokens[row].revoked /\ f = tokens[row].family
      BY <1>3, <2>2
    <3>2. row \in DOMAIN x.tokens /\ x.tokens[row].revoked
      BY <1>1, <1>2, <2>2, <3>1 DEF Presents, Lapsed
    <3>3. x.tokens[row].family = f
      BY <1>1, <3>1, <3>2 DEF Follows
    <3> QED BY <2>2, <3>2, <3>3 DEF Betrayed, SeenFamilies
  <2> QED BY <1>3, <2>1, <2>2
<1>5. \A n \in DOMAIN x.tokens : x.tokens[n].family = f /\ ~x.tokens[n].revoked => n \in x.held
  <2>1. Needs(x) = {n \in DOMAIN x.tokens :
                      x.tokens[n].family \in Betrayed(x) /\ ~x.tokens[n].revoked}
    BY <1>2, <1>4 DEF Needs
  <2> QED BY <1>2, <1>4, <2>1
<1>6. ASSUME NEW n \in DOMAIN tokens, tokens[n].family = f, ~tokens[n].revoked
      PROVE  n \in x.held
  <2>1. CASE n \in DOMAIN x.tokens
    <3>1. x.tokens[n].family = f /\ ~x.tokens[n].revoked
      BY <1>1, <1>6, <2>1 DEF Follows
    <3> QED BY <1>5, <2>1, <3>1
  <2>2. CASE n \notin DOMAIN x.tokens
    <3>1. PICK p \in DOMAIN x.tokens :
            /\ x.tokens[p].family = f /\ ~x.tokens[p].revoked
            /\ p \in DOMAIN tokens => tokens[p].revoked
      BY <1>1, <1>4, <1>6, <2>2 DEF TakesOver, Overtaken
    <3>2. p \in x.held
      BY <1>5, <3>1
    <3>3. p \notin DOMAIN codes /\ p \notin Clients
      <4>1. DOMAIN x.tokens \subseteq Tokens /\ DOMAIN codes \subseteq Codes
        BY <1>1, CodeTable, TokenTable DEF TxnType
      <4> QED BY <3>1, <4>1, RowsAreDisjoint
    <3>4. p \in DOMAIN tokens /\ tokens[p] = x.tokens[p]
      BY <1>1, <3>2, <3>3 DEF HoldsFresh
    <3> QED BY <3>1, <3>4
  <2> QED BY <2>1, <2>2
<1>7. /\ DOMAIN tokens' = DOMAIN tokens
      /\ \A n \in DOMAIN tokens \ x.held : tokens'[n] = tokens[n]
      /\ \A n \in DOMAIN tokens \cap x.held : tokens'[n].revoked
  BY <1>1, <1>2, RevokedTable
<1>8. \A n \in DOMAIN tokens : tokens'[n].revoked \/ tokens'[n].family # f
  BY <1>6, <1>7
<1> QED BY <1>7, <1>8 DEF Unrevoked

\* A grant that is accepted was not spent, its row being locked.
LEMMA AcceptedIsUnspent ==
  ASSUME TxnInv, NEW w \in Workers, Accepted(txn[w]), txn[w].job.row \in txn[w].held
  PROVE  SpentFamilies(txn[w].job) = {}
<1>1. txn[w].job.kind \in {"redeem", "refresh"}
  BY DEF Accepted
<1>2. CASE txn[w].job.kind = "redeem"
  BY <1>2, AcceptedIsLocked DEF SpentFamilies
<1>3. CASE txn[w].job.kind = "refresh"
  BY <1>3, AcceptedIsLocked DEF SpentFamilies
<1> QED BY <1>1, <1>2, <1>3

\* A grant that is ready holds its row.
LEMMA ReadyHolds ==
  ASSUME TxnInv, NEW w \in Workers, NEW kind, Ready(w, kind), Accepted(txn[w])
  PROVE  txn[w].job.row \in txn[w].held
BY AtWorker, AcceptedNeeds DEF Ready

\* When a request that presented a spent credential is over, tries to spare, no
\* token of its family is live, whatever ran at the same time.
THEOREM ReplaysEndFamilies == Spec => SpentMeansDead
<1> DEFINE A == \A w \in Workers :
                  txn[w] # Idle /\ txn'[w] = Idle /\ txn[w].tries > 1 /\ ~Lapsed(txn[w]) =>
                    \A f \in SpentFamilies(txn[w].job) : Unrevoked(f)' = {}
<1>1. ASSUME TxnInv, [Next]_vars PROVE A \/ UNCHANGED vars
  <2> SUFFICES ASSUME Next, NEW w \in Workers, txn[w] # Idle, txn'[w] = Idle,
                      txn[w].tries > 1, ~Lapsed(txn[w]), NEW f \in SpentFamilies(txn[w].job)
               PROVE  Unrevoked(f)' = {}
    BY <1>1
  <2> USE <1>1
  <2>0. txn \in [Workers -> TxnType]
    BY DEF TxnInv, Types
  <2>1. CASE \/ Tick \/ \E c \in Clients : Register(c)
             \/ \E k \in Codes, c \in Clients : Authorize(k, c)
    BY <2>1 DEF Tick, Register, Authorize
  <2>2. ASSUME NEW v \in Workers, NEW job \in Jobs, Begin(v, job) PROVE FALSE
    <3>1. v = w
      BY <2>0, <2>2 DEF Begin
    <3> QED BY <2>2, <3>1 DEF Begin
  <2>3. ASSUME NEW v \in Workers, NEW r \in Rows, Lock(v, r) PROVE FALSE
    <3>1. txn' = [txn EXCEPT ![v] = [txn[v] EXCEPT !.held = txn[v].held \cup {r}]]
      BY <2>3 DEF Lock
    <3>2. v = w
      BY <2>0, <3>1
    <3>3. txn'[w].held = txn[w].held \cup {r}
      BY <2>0, <3>1, <3>2 DEF TxnType
    <3> QED BY <3>3 DEF Idle
  <2>4. ASSUME NEW v \in Workers, RunAgain(v) PROVE FALSE
    <3>1. v = w
      BY <2>0, <2>4 DEF RunAgain
    <3>2. txn'[w] = Started(txn[w].job, txn[w].tries - 1)
      BY <2>0, <2>4, <3>1 DEF RunAgain
    <3>3. txn[w].job \in Jobs
      BY AtWorker DEF WorkerInv, Working
    <3>4. txn'[w].job \in Jobs
      BY <3>2, <3>3 DEF Started
    <3> QED BY <3>4 DEF Idle, NoJob, Jobs
  <2>5. ASSUME NEW v \in Workers, NEW n \in Tokens, CommitRedeem(v, n) PROVE FALSE
    <3>1. v = w /\ Ready(w, "redeem") /\ Accepted(txn[w])
      BY <2>0, <2>5 DEF CommitRedeem
    <3> QED BY <3>1, ReadyHolds, AcceptedIsUnspent
  <2>6. ASSUME NEW v \in Workers, NEW n \in Tokens, CommitRefresh(v, n) PROVE FALSE
    <3>1. v = w /\ Ready(w, "refresh") /\ Accepted(txn[w])
      BY <2>0, <2>6 DEF CommitRefresh
    <3> QED BY <3>1, ReadyHolds, AcceptedIsUnspent
  <2>7. ASSUME NEW v \in Workers, Refuse(v) PROVE FALSE
    <3>1. v = w /\ Accepted(txn[w]) /\ txn[w].job.row \in txn[w].held
      BY <2>0, <2>7 DEF Refuse
    <3> QED BY <3>1, AcceptedIsUnspent
  <2>8. ASSUME NEW v \in Workers, CommitRevocation(v) PROVE Unrevoked(f)' = {}
    <3>1. v = w
      BY <2>0, <2>8 DEF CommitRevocation
    <3> QED BY <2>8, <3>1, RevocationReachesAll
  <2>9. ASSUME NEW v \in Workers, CommitGC(v) PROVE FALSE
    <3>1. v = w /\ txn[w].job.kind = "gc"
      BY <2>0, <2>9 DEF CommitGC, Ready
    <3> QED BY <3>1 DEF SpentFamilies
  <2> QED
    BY <2>1, <2>2, <2>3, <2>4, <2>5, <2>6, <2>7, <2>8, <2>9 DEF Next, Conflict, Victim
<1>2. TxnInv /\ [Next]_vars => [A]_vars
  BY <1>1
<1> QED BY <1>2, TxnInvariant, PTL DEF Spec, SpentMeansDead

-----------------------------------------------------------------------------
(***************************************************************************)
(* Who waits for whom.                                                     *)
(***************************************************************************)
\* No snapshot shows a family with two live tokens, what a worker holds it has
\* locked in order, and one worker at most collects: what a worker may have to
\* wait for depends on all three.
InOrder(x) ==
  \A s \in x.held : \A r \in Needs(x) : Before(x, r, s) => r \in x.held

WaitInv ==
  /\ \A w \in Workers : OneLive(txn[w].tokens) /\ InOrder(txn[w])
  /\ \A v \in Workers, w \in Workers :
       txn[v].job.kind = "gc" /\ txn[w].job.kind = "gc" => v = w

\* A step of one worker keeps it, unless a second collector starts.
LEMMA WorkerWaitInv ==
  ASSUME TxnInv, WaitInv, NEW w \in Workers, NEW y, txn' = [txn EXCEPT ![w] = y],
         OneLive(y.tokens), InOrder(y),
         y.job.kind = "gc" => \A v \in Workers \ {w} : txn[v].job.kind # "gc"
  PROVE  WaitInv'
<1>1. txn'[w] = y /\ \A v \in Workers \ {w} : txn'[v] = txn[v]
  BY DEF TxnInv, Types
<1>2. \A v \in Workers : OneLive(txn'[v].tokens) /\ InOrder(txn'[v])
  BY <1>1 DEF WaitInv
<1>3. ASSUME NEW u \in Workers, NEW v \in Workers,
             txn'[u].job.kind = "gc", txn'[v].job.kind = "gc"
      PROVE  u = v
  <2>1. CASE u # w /\ v # w
    BY <1>1, <1>3, <2>1 DEF WaitInv
  <2>2. CASE u = w \/ v = w
    BY <1>1, <1>3, <2>2
  <2> QED BY <2>1, <2>2
<1> QED BY <1>2, <1>3 DEF WaitInv

\* Idle workers and fresh snapshots have no family with two live tokens, and
\* nothing is locked out of order.
LEMMA FreshOneLive ==
  ASSUME TxnInv, NEW job, NEW n
  PROVE  /\ OneLive(Idle.tokens) /\ InOrder(Idle) /\ Idle.job.kind = "none"
         /\ OneLive(Started(job, n).tokens) /\ InOrder(Started(job, n))
         /\ Started(job, n).job = job
<1>1. Idle.held = {} /\ Started(job, n).held = {}
  BY DEF Idle, Started
<1>2. InOrder(Idle) /\ InOrder(Started(job, n))
  BY <1>1 DEF InOrder
<1>3. /\ OneLive(Idle.tokens) /\ Idle.job.kind = "none"
      /\ OneLive(Started(job, n).tokens) /\ Started(job, n).job = job
  BY DEF TxnInv, OneLive, Idle, NoJob, NoRows, Started
<1> QED BY <1>2, <1>3

\* A lock is taken in order.
LEMMA LockInOrder ==
  ASSUME NEW x, NEW y, NEW r \in Due(x), InOrder(x),
         y.job = x.job, y.at = x.at, y.clients = x.clients, y.codes = x.codes,
         y.tokens = x.tokens, y.held = x.held \cup {r}
  PROVE  InOrder(y)
<1>1. /\ Needs(y) = Needs(x) /\ (Accepted(y) <=> Accepted(x)) /\ Aged(y) = Aged(x)
      /\ \A c : Dependents(y, c) = Dependents(x, c)
  BY NeedsSame
<1>2. \A q, s : Before(y, q, s) <=> Before(x, q, s)
  BY <1>1 DEF Before
<1> QED BY <1>1, <1>2 DEF InOrder, Due

\* A commit or a refusal leaves the worker idle.
LEMMA DoneWaitInv ==
  ASSUME TxnInv, WaitInv, NEW w \in Workers, txn' = [txn EXCEPT ![w] = Idle]
  PROVE  WaitInv'
<1>1. OneLive(Idle.tokens) /\ InOrder(Idle) /\ Idle.job.kind = "none"
  BY FreshOneLive
<1> QED BY <1>1, WorkerWaitInv

\* A rerun collects if the run before it did.
LEMMA RunAgainWaitInv ==
  ASSUME TxnInv, WaitInv, NEW w \in Workers, RunAgain(w) PROVE WaitInv'
<1>1. CASE txn[w].tries = 1
  <2>1. txn' = [txn EXCEPT ![w] = Idle]
    BY <1>1 DEF RunAgain
  <2> QED BY <2>1, DoneWaitInv
<1>2. CASE txn[w].tries # 1
  <2> DEFINE y == Started(txn[w].job, txn[w].tries - 1)
  <2>1. txn' = [txn EXCEPT ![w] = y]
    BY <1>2 DEF RunAgain
  <2>2. OneLive(y.tokens) /\ InOrder(y) /\ y.job = txn[w].job
    BY FreshOneLive
  <2> HIDE DEF y
  <2>3. y.job.kind = "gc" => \A v \in Workers \ {w} : txn[v].job.kind # "gc"
    BY <2>2 DEF WaitInv
  <2> QED BY <2>1, <2>2, <2>3, WorkerWaitInv
<1> QED BY <1>1, <1>2

\* Every step keeps it.
LEMMA NextWaitInv == TxnInv /\ WaitInv /\ [Next]_vars => WaitInv'
<1> SUFFICES ASSUME TxnInv, WaitInv, [Next]_vars PROVE WaitInv'
  OBVIOUS
<1>1. CASE txn' = txn
  BY <1>1 DEF WaitInv
<1>2. CASE \/ Tick \/ (\E c \in Clients : Register(c)) \/ UNCHANGED vars
           \/ \E k \in Codes, c \in Clients : Authorize(k, c)
  BY <1>1, <1>2 DEF Tick, Register, Authorize, vars
<1>3. ASSUME NEW w \in Workers, NEW job \in Jobs, Begin(w, job) PROVE WaitInv'
  <2> DEFINE y == Started(job, MaxTries)
  <2>1. /\ txn' = [txn EXCEPT ![w] = y]
        /\ job.kind = "gc" => \A v \in Workers : txn[v].job.kind # "gc"
    BY <1>3 DEF Begin
  <2>2. OneLive(y.tokens) /\ InOrder(y) /\ y.job = job
    BY FreshOneLive
  <2> HIDE DEF y
  <2> QED BY <2>1, <2>2, WorkerWaitInv
<1>4. ASSUME NEW w \in Workers, NEW r \in Rows, Lock(w, r) PROVE WaitInv'
  <2> DEFINE y == [txn[w] EXCEPT !.held = @ \cup {r}]
  <2>1. txn[w] \in TxnType /\ txn' = [txn EXCEPT ![w] = y]
    BY <1>4, AtWorker DEF Lock, TxnInv, Types
  <2>2. /\ y.job = txn[w].job /\ y.at = txn[w].at /\ y.clients = txn[w].clients
        /\ y.codes = txn[w].codes /\ y.tokens = txn[w].tokens
        /\ y.held = txn[w].held \cup {r}
    BY <2>1 DEF TxnType
  <2> HIDE DEF y
  <2>3. OneLive(y.tokens) /\ InOrder(y)
    <3>1. r \in Due(txn[w]) /\ OneLive(txn[w].tokens) /\ InOrder(txn[w])
      BY <1>4 DEF Lock, Wants, WaitInv
    <3> QED BY <2>2, <3>1, LockInOrder
  <2>4. y.job.kind = "gc" => \A v \in Workers \ {w} : txn[v].job.kind # "gc"
    BY <2>2 DEF WaitInv
  <2> QED BY <2>1, <2>3, <2>4, WorkerWaitInv
<1>5. ASSUME NEW w \in Workers, RunAgain(w) PROVE WaitInv'
  BY <1>5, RunAgainWaitInv
<1>6. ASSUME NEW w \in Workers, NEW n \in Tokens, CommitRedeem(w, n) \/ CommitRefresh(w, n)
      PROVE  WaitInv'
  BY <1>6, DoneWaitInv DEF CommitRedeem, CommitRefresh
<1>7. ASSUME NEW w \in Workers, Refuse(w) \/ CommitRevocation(w) \/ CommitGC(w)
      PROVE  WaitInv'
  BY <1>7, DoneWaitInv DEF Refuse, CommitRevocation, CommitGC
<1> QED BY <1>2, <1>3, <1>4, <1>5, <1>6, <1>7 DEF Next, Conflict, Victim

\* In every reachable state the snapshots and the collector are as the waiting
\* argument needs them.
THEOREM WaitInvariant == Spec => [](TxnInv /\ WaitInv)
<1>1. Init => WaitInv
  <2> SUFFICES ASSUME Init PROVE WaitInv
    OBVIOUS
  <2>1. \A w \in Workers : txn[w] = Idle
    BY DEF Init
  <2>2. OneLive(Idle.tokens) /\ InOrder(Idle) /\ Idle.job.kind = "none"
    BY InitTxnInv, FreshOneLive
  <2> QED BY <2>1, <2>2 DEF WaitInv
<1>2. TxnInv /\ WaitInv /\ [Next]_vars => WaitInv'
  BY NextWaitInv
<1> QED BY <1>1, <1>2, TxnInvariant, PTL DEF Spec

\* A replay, or the revocation of one token, needs one row at most: a family
\* has one live token in the snapshot, and one credential betrays one family.
LEMMA NeedsOneRow ==
  ASSUME NEW x \in TxnType, OneLive(x.tokens), ~Accepted(x), x.job.kind # "gc",
         ~BulkRevocation(x), NEW r \in Needs(x), NEW s \in Needs(x)
  PROVE  r = s
<1>1. CASE x.job.kind \in {"redeem", "refresh"}
  <2>1. Needs(x) = {t \in DOMAIN x.tokens :
                      x.tokens[t].family \in Betrayed(x) /\ ~x.tokens[t].revoked}
    BY <1>1 DEF Needs
  <2>2. \A f \in Betrayed(x), g \in Betrayed(x) : f = g
    BY DEF Betrayed
  <2> QED BY <2>1, <2>2 DEF OneLive
<1>2. CASE x.job.kind = "revoke"
  <2>1. Needs(x) = x.job.rows \cap DOMAIN x.tokens
    BY <1>2 DEF Needs
  <2> QED BY <1>2, <2>1 DEF BulkRevocation
<1>3. CASE x.job.kind \notin {"redeem", "refresh", "revoke"}
  BY <1>3 DEF Needs
<1> QED BY <1>1, <1>2, <1>3

\* A worker that holds a row and waits for another, and revokes no selection, is
\* the collector, or a grant that waits for the collector to let go of a client.
LEMMA MiddleOfAChain ==
  ASSUME TxnInv, WaitInv, NEW w \in Workers, NEW u \in Workers,
         txn[w].held # {}, WaitsFor(w, u), ~BulkRevocation(txn[w])
  PROVE  /\ txn[u].held # {} /\ u # w
         /\ \/ txn[w].job.kind = "gc"
            \/ Accepted(txn[w]) /\ txn[u].job.kind = "gc"
<1> DEFINE x == txn[w]
<1>1. /\ x \in TxnType /\ OneLive(x.tokens) /\ InOrder(x) /\ x.held \subseteq Needs(x)
  BY AtWorker DEF WaitInv, WorkerInv, HoldsFresh
<1>2. PICK q : q \in txn[u].held /\ Clash(w, u, q) /\ q \in Due(x)
  BY DEF WaitsFor
<1>3. q \in Needs(x) /\ q \notin x.held
  BY <1>2 DEF Due
<1>4. PICK r : r \in x.held
  OBVIOUS
<1>5. r \in Needs(x) /\ r # q
  BY <1>1, <1>3, <1>4
<1>6. CASE Accepted(x)
  <2>1. /\ Needs(x) = {x.job.row, Grantee(x)} /\ x.job.row \notin Clients
        /\ Grantee(x) \in Clients
    BY <1>1, <1>6, AcceptedNeeds
  <2>2. x.job.row \in x.held
    <3>1. CASE r = x.job.row
      BY <1>4, <3>1
    <3>2. CASE r = Grantee(x)
      <4>1. Before(x, x.job.row, r)
        BY <1>6, <2>1, <3>2 DEF Before
      <4> QED BY <1>1, <1>4, <2>1, <4>1 DEF InOrder
    <3> QED BY <1>5, <2>1, <3>1, <3>2
  <2>3. q \in Clients
    BY <1>3, <2>1, <2>2
  <2>4. "gc" \in {x.job.kind, txn[u].job.kind}
    BY <1>2, <2>3 DEF Clash
  <2>5. x.job.kind # "gc"
    BY <1>6 DEF Accepted
  <2> QED BY <1>2, <1>3, <1>6, <2>4, <2>5
<1>7. CASE ~Accepted(x)
  <2>1. x.job.kind = "gc"
    BY <1>1, <1>3, <1>5, <1>7, NeedsOneRow
  <2> QED BY <1>2, <1>3, <2>1
<1> QED BY <1>6, <1>7

\* Follow the chain of those that wait, each for the next.  From its second on,
\* each holds a row and is due another: without a bulk revocation it is the
\* collector, or a grant, which then waits for the collector.  So the collector
\* is in the chain, and whom it waits for is a grant that waits for it.
LEMMA StuckHasACause ==
  ASSUME TxnInv, WaitInv, NEW S \in SUBSET Workers, Stuck(S)
  PROVE  \E v, w \in S : BulkRevocation(txn[v]) \/ CollectsUnder(v, w)
<1> SUFFICES ASSUME \A w \in S : ~BulkRevocation(txn[w])
             PROVE  \E v, w \in S : CollectsUnder(v, w)
  OBVIOUS
<1>1. PICK a \in S, b \in S : WaitsFor(a, b)
  BY DEF Stuck
<1>2. PICK c \in S : WaitsFor(b, c)
  BY DEF Stuck
<1>3. txn[b].held # {}
  BY <1>1 DEF WaitsFor
<1>4. PICK v \in S : txn[v].job.kind = "gc" /\ txn[v].held # {}
  <2>1. /\ txn[c].held # {}
        /\ txn[b].job.kind = "gc" \/ txn[c].job.kind = "gc"
    BY <1>2, <1>3, MiddleOfAChain
  <2> QED BY <1>3, <2>1
<1>5. PICK w \in S : WaitsFor(v, w)
  BY DEF Stuck
<1>6. txn[w].held # {} /\ w # v
  BY <1>4, <1>5, MiddleOfAChain
<1>7. txn[w].job.kind # "gc"
  BY <1>4, <1>6 DEF WaitInv
<1>8. PICK u \in S : WaitsFor(w, u)
  BY DEF Stuck
<1>9. Accepted(txn[w]) /\ txn[u].job.kind = "gc"
  BY <1>6, <1>7, <1>8, MiddleOfAChain
<1>10. u = v
  BY <1>4, <1>9 DEF WaitInv
<1>11. CollectsUnder(v, w)
  BY <1>4, <1>5, <1>8, <1>9, <1>10 DEF CollectsUnder
<1> QED BY <1>11

\* The database has a deadlock to break only if an administrator revokes several
\* tokens at once, or the collector and a grant wait for each other over a client
\* that is being deleted.
THEOREM DeadlocksHaveACause == Spec => []CirclesHaveACause
<1>1. TxnInv /\ WaitInv => CirclesHaveACause
  BY StuckHasACause DEF CirclesHaveACause
<1> QED BY <1>1, WaitInvariant, PTL

\* A busy worker holds what it needs, or the next row is free, or it waits.
Busy == {w \in Workers : txn[w] # Idle}

GoesOn(w) == Ready(w, txn[w].job.kind) \/ \E r \in Rows : Wants(w, r)

\* While there is work, some worker can take its next lock or is at its end, or
\* one of the two kinds of circle has formed: nobody waits for nothing.
WorkGoesOn ==
  Busy # {} =>
    \E v, w \in Busy : GoesOn(v) \/ BulkRevocation(txn[v]) \/ CollectsUnder(v, w)

\* The order has no circle: what a collector deletes with a client comes after
\* the clients, these after the aged tokens, and these after the aged codes.
\* There is always a row to lock next while a worker needs one.
LEMMA SomethingIsDue ==
  ASSUME NEW x \in TxnType, Needs(x) # x.held, x.held \subseteq Needs(x)
  PROVE  Due(x) # {}
<1>1. Needs(x) \subseteq Rows
  BY NeedsSeen
<1>2. \A q, s : Before(x, q, s) => Accepted(x) \/ x.job.kind = "gc"
  BY DEF Before
<1>3. CASE ~Accepted(x) /\ x.job.kind # "gc"
  BY <1>2, <1>3 DEF Due
<1>4. CASE Accepted(x)
  <2>1. /\ Needs(x) = {x.job.row, Grantee(x)} /\ x.job.row \notin Clients
        /\ Grantee(x) \in Clients /\ x.job.kind # "gc"
    BY <1>4, AcceptedNeeds DEF Accepted
  <2>2. \A q, s : Before(x, q, s) => q = x.job.row /\ s \in Clients
    BY <2>1 DEF Before
  <2>3. CASE x.job.row \in x.held
    <3>1. Grantee(x) \in Needs(x) \ x.held
      BY <2>1, <2>3
    <3>2. Grantee(x) \in Due(x)
      BY <2>2, <2>3, <3>1 DEF Due
    <3> QED BY <3>2
  <2>4. CASE x.job.row \notin x.held
    <3>1. x.job.row \in Due(x)
      BY <2>1, <2>2, <2>4 DEF Due
    <3> QED BY <3>1
  <2> QED BY <2>3, <2>4
<1>5. CASE x.job.kind = "gc"
  <2> DEFINE K == Aged(x) \cap Codes
  <2>0. /\ Aged(x) \subseteq Codes \cup Tokens /\ ~Accepted(x)
        /\ \A c \in Clients : Dependents(x, c) \subseteq Codes \cup Tokens
    <3>1. DOMAIN x.codes \subseteq Codes /\ DOMAIN x.tokens \subseteq Tokens
      BY CodeTable, TokenTable DEF TxnType
    <3> QED BY <1>5, <3>1 DEF Aged, Dependents, Accepted
  <2>1. \A q, s : Before(x, q, s) =>
          \/ q \in K /\ s \in Tokens
          \/ q \in Aged(x) /\ s \in Clients
          \/ q \in Clients /\ s \in (Codes \cup Tokens) \ Aged(x)
    BY <1>5, <2>0 DEF Before
  <2> DEFINE Left == Needs(x) \ x.held
  <2>2. \A s \in Left : (\A q \in Left : ~Before(x, q, s)) => s \in Due(x)
    BY DEF Due
  <2> HIDE DEF K
  <2>3. CASE \E s \in Left : s \in K
    <3>1. PICK s \in Left : s \in K
      BY <2>3
    <3>2. s \in Codes /\ s \in Aged(x) /\ s \notin Tokens /\ s \notin Clients
      BY <3>1, RowsAreDisjoint DEF K
    <3>3. \A q : ~Before(x, q, s)
      BY <2>1, <3>2
    <3> QED BY <2>2, <3>1, <3>3
  <2>4. CASE (\E s \in Left : s \in Aged(x)) /\ ~(\E s \in Left : s \in K)
    <3>1. PICK s \in Left : s \in Aged(x)
      BY <2>4
    <3>2. s \notin Clients
      BY <2>0, <3>1, RowsAreDisjoint
    <3>3. \A q \in Left : ~Before(x, q, s)
      BY <2>1, <2>4, <3>1, <3>2
    <3> QED BY <2>2, <3>1, <3>3
  <2>5. CASE (\E s \in Left : s \in Clients) /\ ~(\E s \in Left : s \in Aged(x))
    <3>1. PICK s \in Left : s \in Clients
      BY <2>5
    <3>2. s \notin Codes /\ s \notin Tokens
      BY <3>1, RowsAreDisjoint
    <3>3. \A q \in Left : ~Before(x, q, s)
      BY <2>1, <2>5, <3>2
    <3> QED BY <2>2, <3>1, <3>3
  <2>6. CASE ~(\E s \in Left : s \in Clients \cup Aged(x))
    <3>1. PICK s \in Left : TRUE
      OBVIOUS
    <3>2. \A q \in Left : q \notin K
      BY <2>6 DEF K
    <3>3. \A q \in Left : ~Before(x, q, s)
      BY <2>1, <2>6, <3>2
    <3> QED BY <2>2, <3>1, <3>3
  <2> QED BY <2>3, <2>4, <2>5, <2>6
<1> QED BY <1>3, <1>4, <1>5

\* The workers are never all waiting for each other for good.
THEOREM SomebodyGoesOn == Spec => []WorkGoesOn
<1>1. TxnInv /\ WaitInv => WorkGoesOn
  <2> SUFFICES ASSUME TxnInv, WaitInv, Busy # {}, \A w \in Busy : ~GoesOn(w)
               PROVE  \E v, w \in Busy : BulkRevocation(txn[v]) \/ CollectsUnder(v, w)
    BY DEF WorkGoesOn
  <2>1. ASSUME NEW w \in Busy PROVE \E u \in Busy : WaitsFor(w, u)
    <3>1. txn[w] \in TxnType /\ txn[w].held \subseteq Needs(txn[w])
      BY AtWorker DEF Busy, WorkerInv, HoldsFresh
    <3>2. Needs(txn[w]) # txn[w].held
      BY DEF GoesOn, Ready
    <3>3. PICK r : r \in Due(txn[w])
      BY <3>1, <3>2, SomethingIsDue
    <3>4. r \in Rows
      BY <3>1, <3>3, NeedsSeen DEF Due
    <3>5. PICK u \in Workers : Clash(w, u, r)
      BY <3>3, <3>4 DEF GoesOn, Wants
    <3>6. r \in txn[u].held
      BY <3>5 DEF Clash
    <3>7. u \in Busy
      BY <3>5, <3>6 DEF Busy, Idle
    <3> QED BY <3>3, <3>5, <3>6, <3>7 DEF WaitsFor
  <2>2. Busy \in SUBSET Workers /\ Stuck(Busy)
    BY <2>1 DEF Busy, Stuck
  <2> QED BY <2>2, StuckHasACause
<1> QED BY <1>1, WaitInvariant, PTL

-----------------------------------------------------------------------------
(***************************************************************************)
(* The refinement: the unrevoked token of a family is its holder.          *)
(***************************************************************************)
\* A family's holder is its unrevoked token, if it has one.
LEMMA HolderIsLive ==
  ASSUME OneLive(tokens), NEW f \in Tokens, NEW t \in Unrevoked(f)
  PROVE  HolderOf[f] = t
BY LiveAlone DEF HolderOf

\* The same after a step.
LEMMA HolderThen ==
  ASSUME NEW f \in Tokens
  PROVE  /\ Unrevoked(f)' = Unrevoked(f) => HolderOf'[f] = HolderOf[f]
         /\ Unrevoked(f)' = {} => HolderOf'[f] = NoFamily
         /\ \A t \in Tokens : Unrevoked(f)' = {t} => HolderOf'[f] = t
<1>1. Unrevoked(f)' = Unrevoked(f) => HolderOf'[f] = HolderOf[f]
  BY DEF HolderOf
<1>2. Unrevoked(f)' = {} => HolderOf'[f] = NoFamily
  BY DEF HolderOf
<1>3. ASSUME NEW t \in Tokens, Unrevoked(f)' = {t} PROVE HolderOf'[f] = t
  BY <1>3 DEF HolderOf
<1> QED BY <1>1, <1>2, <1>3

\* A step that hands out no token and makes none live loses holders, at most.
LEMMA OnlyLoses ==
  ASSUME OneLive(tokens), OneLive(tokens'), minted' \cap Tokens = minted \cap Tokens,
         \A f \in Tokens : Unrevoked(f)' \subseteq Unrevoked(f)
  PROVE  Chain!ChainNext
<1> DEFINE F == {f \in Tokens : Unrevoked(f)' = {}}
<1>1. ASSUME NEW f \in Tokens \ F PROVE HolderOf'[f] = HolderOf[f]
  <2>1. PICK t : t \in Unrevoked(f)'
    OBVIOUS
  <2>2. t \in Unrevoked(f)
    BY <2>1
  <2>3. Unrevoked(f) = {t}
    BY <2>2, LiveAlone
  <2>4. Unrevoked(f)' = Unrevoked(f)
    BY <2>1, <2>3
  <2> QED BY <2>4, HolderThen
<1>2. \A f \in F : HolderOf'[f] = NoFamily
  BY HolderThen
<1>3. HolderOf' = [f \in Tokens |-> IF f \in F THEN NoFamily ELSE HolderOf[f]]
  <2>1. \A f \in Tokens : HolderOf'[f] = IF f \in F THEN NoFamily ELSE HolderOf[f]
    BY <1>1, <1>2
  <2> HIDE DEF F
  <2> QED BY <2>1 DEF HolderOf
<1>4. Chain!Lose(F)
  BY <1>3 DEF Chain!Lose
<1> QED BY <1>4 DEF Chain!ChainNext

\* With no rows, no family has a holder.
LEMMA InitHolders == Init => Chain!ChainInit
<1> SUFFICES ASSUME Init PROVE Chain!ChainInit
  OBVIOUS
<1>1. \A f \in Tokens : Unrevoked(f) = {}
  BY DEF Init, NoRows, Unrevoked
<1>2. HolderOf = [f \in Tokens |-> NoFamily]
  BY <1>1 DEF HolderOf
<1>3. minted \cap Tokens = {}
  BY DEF Init
<1> QED BY <1>2, <1>3 DEF Chain!ChainInit

\* The commit of a redemption founds a family.
LEMMA CommitFounds ==
  ASSUME TxnInv, NEW w \in Workers, NEW n \in Tokens, CommitRedeem(w, n)
  PROVE  Chain!ChainNext
<1>1. /\ n \notin minted /\ minted' = minted \cup {n}
      /\ DOMAIN tokens' = DOMAIN tokens \cup {n}
      /\ tokens'[n].family = n /\ ~tokens'[n].revoked
      /\ \A t \in DOMAIN tokens \ {n} : tokens'[t] = tokens[t]
  BY RedeemedTables
<1>2. n \notin DOMAIN tokens /\ \A t \in DOMAIN tokens : tokens[t].family # n
  BY <1>1, AtWorker DEF AreMinted
<1>3. Unrevoked(n)' = {n} /\ \A f \in Tokens \ {n} : Unrevoked(f)' = Unrevoked(f)
  BY <1>1, <1>2 DEF Unrevoked
<1>4. \A f \in Tokens : HolderOf'[f] = IF f = n THEN n ELSE HolderOf[f]
  BY <1>3, HolderThen
<1>5. HolderOf' = [HolderOf EXCEPT ![n] = n]
  BY <1>4 DEF HolderOf
<1>6. Chain!Found(n)
  BY <1>1, <1>5 DEF Chain!Found
<1> QED BY <1>6 DEF Chain!ChainNext

\* The commit of a rotation hands the family on.
LEMMA CommitHands ==
  ASSUME TxnInv, NEW w \in Workers, NEW n \in Tokens, CommitRefresh(w, n)
  PROVE  Chain!ChainNext
<1> DEFINE r == txn[w].job.row
<1>1. /\ n \notin minted /\ minted' = minted \cup {n}
      /\ r \in DOMAIN tokens /\ ~tokens[r].revoked /\ r # n
      /\ DOMAIN tokens' = DOMAIN tokens \cup {n}
      /\ tokens'[n].family = tokens[r].family /\ ~tokens'[n].revoked
      /\ tokens'[r].revoked /\ tokens'[r].family = tokens[r].family
      /\ \A t \in DOMAIN tokens \ {r} : tokens'[t] = tokens[t]
  BY RefreshedTables
<1> HIDE DEF r
<1>2. n \notin DOMAIN tokens /\ OneLive(tokens) /\ tokens \in TokenTables
  BY <1>1, AtWorker DEF AreMinted
<1>3. PICK f \in Tokens : f = tokens[r].family
  BY <1>1, <1>2, TokenTable DEF TokenRow
<1>4. r \in Unrevoked(f) /\ Unrevoked(f) = {r} /\ HolderOf[f] = r
  <2>1. r \in Unrevoked(f)
    BY <1>1, <1>3 DEF Unrevoked
  <2> QED BY <1>2, <2>1, LiveAlone, HolderIsLive
<1>5. r # NoFamily
  BY <1>1, <1>2, TokenTable, RowsAreDisjoint
<1>6. Unrevoked(f)' = {n}
  <2>1. n \in Unrevoked(f)'
    BY <1>1, <1>3 DEF Unrevoked
  <2>2. ASSUME NEW m \in Unrevoked(f)', m # n PROVE FALSE
    <3>1. m \in DOMAIN tokens /\ m # r
      BY <1>1, <2>2 DEF Unrevoked
    <3>2. m \in Unrevoked(f)
      BY <1>1, <2>2, <3>1 DEF Unrevoked
    <3> QED BY <1>4, <3>1, <3>2
  <2> QED BY <2>1, <2>2
<1>7. \A g \in Tokens \ {f} : Unrevoked(g)' = Unrevoked(g)
  BY <1>1, <1>2, <1>3 DEF Unrevoked
<1>8. \A g \in Tokens : HolderOf'[g] = IF g = f THEN n ELSE HolderOf[g]
  BY <1>6, <1>7, HolderThen
<1>9. HolderOf' = [HolderOf EXCEPT ![f] = n]
  BY <1>8 DEF HolderOf
<1>10. Chain!Hand(f, n)
  BY <1>1, <1>4, <1>5, <1>9 DEF Chain!Hand
<1> QED BY <1>10 DEF Chain!ChainNext

\* Every commit is a step of the chains, and so is, or does nothing, all else.
LEMMA NextHands == TxnInv /\ TxnInv' /\ [Next]_vars => Chain!ChainNext
<1> SUFFICES ASSUME TxnInv, TxnInv', [Next]_vars PROVE Chain!ChainNext
  OBVIOUS
<1>0. OneLive(tokens) /\ OneLive(tokens')
  BY DEF TxnInv
<1>1. CASE tokens' = tokens /\ minted' \cap Tokens = minted \cap Tokens
  <2>1. \A f \in Tokens : Unrevoked(f)' = Unrevoked(f)
    BY <1>1 DEF Unrevoked
  <2> QED BY <1>0, <1>1, <2>1, OnlyLoses
<1>2. CASE Tick
  BY <1>1, <1>2 DEF Tick, tables
<1>13. ASSUME NEW c \in Clients, Register(c) PROVE Chain!ChainNext
  BY <1>1, <1>13, RowsAreDisjoint DEF Register
<1>3. ASSUME NEW k \in Codes, NEW c \in Clients, Authorize(k, c) PROVE Chain!ChainNext
  BY <1>1, <1>3, RowsAreDisjoint DEF Authorize
<1>4. ASSUME NEW w \in Workers, NEW job \in Jobs, Begin(w, job) PROVE Chain!ChainNext
  BY <1>1, <1>4 DEF Begin, tables
<1>5. ASSUME NEW w \in Workers, NEW r \in Rows, Lock(w, r) \/ Conflict(w, r)
      PROVE  Chain!ChainNext
  BY <1>1, <1>5 DEF Lock, Conflict, RunAgain, tables
<1>6. ASSUME NEW w \in Workers, NEW n \in Tokens, CommitRedeem(w, n) PROVE Chain!ChainNext
  BY <1>6, CommitFounds
<1>7. ASSUME NEW w \in Workers, NEW n \in Tokens, CommitRefresh(w, n) PROVE Chain!ChainNext
  BY <1>7, CommitHands
<1>8. ASSUME NEW w \in Workers, CommitRevocation(w) PROVE Chain!ChainNext
  <2>1. /\ minted' = minted /\ DOMAIN tokens' = DOMAIN tokens
        /\ \A n \in DOMAIN tokens : ~tokens'[n].revoked => tokens'[n] = tokens[n]
    <3>1. tokens' = Revoked(txn[w].held) /\ minted' = minted /\ tokens \in TokenTables
      BY <1>8, AtWorker DEF CommitRevocation
    <3> QED BY <3>1, RevokedTable
  <2>2. \A f \in Tokens : Unrevoked(f)' \subseteq Unrevoked(f)
    BY <2>1 DEF Unrevoked
  <2> QED BY <1>0, <2>1, <2>2, OnlyLoses
<1>9. ASSUME NEW w \in Workers, CommitGC(w) PROVE Chain!ChainNext
  <2>1. minted' = minted /\ \A f \in Tokens : Unrevoked(f)' \subseteq Unrevoked(f)
    BY <1>9, CollectedTables DEF Unrevoked
  <2> QED BY <1>0, <2>1, OnlyLoses
<1>10. ASSUME NEW w \in Workers, Refuse(w) PROVE Chain!ChainNext
  BY <1>1, <1>10 DEF Refuse, tables
<1>11. ASSUME NEW w \in Workers, Victim(w) PROVE Chain!ChainNext
  BY <1>1, <1>11 DEF Victim, RunAgain, tables
<1>12. CASE UNCHANGED vars
  BY <1>1, <1>12 DEF vars
<1> QED
  BY <1>2, <1>3, <1>4, <1>5, <1>6, <1>7, <1>8, <1>9, <1>10, <1>11, <1>12, <1>13
     DEF Next

\* Snapshots, row locks and reruns add nothing to what the atomic handlers do:
\* the committed families are chains of holders, handed on and lost for good.
THEOREM RacesImplementChain == Spec => HandsOver
<1>1. Init => Chain!ChainInit
  BY InitHolders
<1>2. TxnInv /\ TxnInv' /\ [Next]_vars => [Chain!ChainNext]_Chain!chainVars
  BY NextHands
<1> QED BY <1>1, <1>2, TxnInvariant, PTL DEF Spec, HandsOver, Chain!ChainSpec

\* A step of the chains makes no token that was handed out a holder, and founds
\* no family anew.
LEMMA ChainStep ==
  ASSUME Chain!ChainNext, NEW f \in Tokens, NEW t \in minted \cap Tokens
  PROVE  /\ HolderOf'[f] = t => HolderOf[f] = t
         /\ f \in minted /\ HolderOf[f] = NoFamily => HolderOf'[f] = NoFamily
<1> DEFINE H == HolderOf
<1>1. H = [g \in Tokens |-> H[g]] /\ t # NoFamily
  BY RowsAreDisjoint DEF HolderOf
<1>2. ASSUME NEW n \in Tokens, Chain!Found(n)
      PROVE  n \notin minted /\ H' = [H EXCEPT ![n] = n]
  BY <1>2 DEF Chain!Found
<1>3. ASSUME NEW g \in Tokens, NEW n \in Tokens, Chain!Hand(g, n)
      PROVE  H[g] # NoFamily /\ n \notin minted /\ H' = [H EXCEPT ![g] = n]
  BY <1>3 DEF Chain!Hand
<1>4. ASSUME NEW F \in SUBSET Tokens, Chain!Lose(F)
      PROVE  H' = [g \in Tokens |-> IF g \in F THEN NoFamily ELSE H[g]]
  BY <1>4 DEF Chain!Lose
<1> HIDE DEF H
<1>5. /\ H'[f] = t => H[f] = t
      /\ f \in minted /\ H[f] = NoFamily => H'[f] = NoFamily
  <2>1. ASSUME NEW n \in Tokens, Chain!Found(n) PROVE <1>5
    BY <1>1, <1>2, <2>1
  <2>2. ASSUME NEW g \in Tokens, NEW n \in Tokens, Chain!Hand(g, n) PROVE <1>5
    BY <1>1, <1>3, <2>2
  <2>3. ASSUME NEW F \in SUBSET Tokens, Chain!Lose(F) PROVE <1>5
    BY <1>1, <1>4, <2>3
  <2> QED BY <2>1, <2>2, <2>3 DEF Chain!ChainNext
<1> QED BY <1>5 DEF H

\* A token is good if the table has it, unrevoked.
IsGood(t) == t \in DOMAIN tokens /\ ~tokens[t].revoked

\* Read off the tables: no step makes a token good again that was rotated away,
\* revoked or collected, or gives a token to a family that had lost its last.
SpentForGood ==
  [][/\ \A t \in minted \cap Tokens : IsGood(t)' => IsGood(t)
     /\ \A f \in minted \cap Tokens : Unrevoked(f) = {} => Unrevoked(f)' = {}]_vars

\* Racing transactions bring no token and no family back either.
THEOREM RevocationStaysUnderRaces == Spec => SpentForGood
<1>1. ASSUME TxnInv, TxnInv', Next
      PROVE  /\ \A t \in minted \cap Tokens : IsGood(t)' => IsGood(t)
             /\ \A f \in minted \cap Tokens : Unrevoked(f) = {} => Unrevoked(f)' = {}
  <2>1. Chain!ChainNext
    BY <1>1, NextHands
  <2>2. ASSUME NEW t \in minted \cap Tokens, IsGood(t)' PROVE IsGood(t)
    <3>1. PICK f \in Tokens : f = tokens'[t].family
      BY <1>1, <2>2, TokenTable DEF IsGood, TxnInv, Types, TokenRow
    <3>2. t \in Unrevoked(f)'
      BY <2>2, <3>1 DEF IsGood, Unrevoked
    <3>3. HolderOf'[f] = t
      BY <1>1, <3>2 DEF HolderOf, TxnInv, OneLive, Unrevoked
    <3>4. HolderOf[f] = t /\ t # NoFamily
      BY <2>1, <3>3, ChainStep, RowsAreDisjoint
    <3>5. t \in Unrevoked(f)
      BY <3>4 DEF HolderOf
    <3> QED BY <3>5 DEF Unrevoked, IsGood
  <2>3. ASSUME NEW f \in minted \cap Tokens, Unrevoked(f) = {}
        PROVE  Unrevoked(f)' = {}
    <3>1. HolderOf[f] = NoFamily
      BY <2>3 DEF HolderOf
    <3>2. HolderOf'[f] = NoFamily
      BY <2>1, <3>1, ChainStep
    <3>3. Unrevoked(f)' \subseteq Tokens
      BY <1>1, TokenTable DEF TxnInv, Types, Unrevoked
    <3> QED BY <3>2, <3>3, RowsAreDisjoint DEF HolderOf
  <2> QED BY <2>2, <2>3
<1>2. ASSUME TxnInv, TxnInv', [Next]_vars
      PROVE  [/\ \A t \in minted \cap Tokens : IsGood(t)' => IsGood(t)
              /\ \A f \in minted \cap Tokens : Unrevoked(f) = {} => Unrevoked(f)' = {}]_vars
  BY <1>1, <1>2
<1> QED BY <1>2, TxnInvariant, PTL DEF Spec, SpentForGood
=============================================================================
