-------------------------- MODULE GrantChainProofs --------------------------
(* What follows from GrantChain alone, for any set of tokens. *)
EXTENDS GrantChain, TLAPS

ChainInv ==
  /\ ChainTypeOK
  /\ HoldersAreKnown
  /\ \A f \in Tokens : holder[f] # NoHolder =>
       \A g \in Tokens : holder[g] = holder[f] => g = f

\* Holders are tokens that were handed out, in families that were founded.
LEMMA ChainInvariant ==
  ASSUME NoHolder \notin Tokens
  PROVE  ChainSpec => []ChainInv
<1>1. ChainInit => ChainInv
  BY DEF ChainInit, ChainInv, ChainTypeOK, HoldersAreKnown
<1>2. ChainInv /\ [ChainNext]_chainVars => ChainInv'
  <2> SUFFICES ASSUME ChainInv, [ChainNext]_chainVars PROVE ChainInv'
    OBVIOUS
  <2> USE DEF ChainInv, ChainTypeOK, HoldersAreKnown
  <2>1. ASSUME NEW t \in Tokens, Found(t) PROVE ChainInv'
    BY <2>1 DEF Found
  <2>2. ASSUME NEW f \in Tokens, NEW t \in Tokens, Hand(f, t) PROVE ChainInv'
    BY <2>2 DEF Hand
  <2>3. ASSUME NEW F \in SUBSET Tokens, Lose(F) PROVE ChainInv'
    BY <2>3 DEF Lose
  <2>4. CASE UNCHANGED chainVars
    BY <2>4 DEF chainVars
  <2> QED BY <2>1, <2>2, <2>3, <2>4 DEF ChainNext
<1> QED BY <1>1, <1>2, PTL DEF ChainSpec

\* A credential that was rotated away or revoked is never good again: neither
\* the token nor, once its holder is lost, the family comes back.
THEOREM ChainNeverComesBack ==
  ASSUME NoHolder \notin Tokens
  PROVE  ChainSpec => NoComeback /\ DeadForGood
<1>1. ChainInv /\ [ChainNext]_chainVars =>
        [\A t \in known : ~Holds(t) => ~Holds(t)']_chainVars
  <2> SUFFICES ASSUME ChainInv, ChainNext, NEW t \in known, ~Holds(t),
                      NEW f \in Tokens, holder'[f] = t
               PROVE  FALSE
    BY DEF Holds
  <2>1. t \in Tokens /\ t # NoHolder /\ holder[f] # t
    BY DEF ChainInv, ChainTypeOK, Holds
  <2>2. ASSUME NEW n \in Tokens, Found(n) PROVE FALSE
    BY <2>1, <2>2 DEF Found, ChainInv, ChainTypeOK
  <2>3. ASSUME NEW g \in Tokens, NEW n \in Tokens, Hand(g, n) PROVE FALSE
    BY <2>1, <2>3 DEF Hand, ChainInv, ChainTypeOK
  <2>4. ASSUME NEW F \in SUBSET Tokens, Lose(F) PROVE FALSE
    BY <2>1, <2>4 DEF Lose
  <2> QED BY <2>2, <2>3, <2>4 DEF ChainNext
<1>2. ChainInv /\ [ChainNext]_chainVars =>
        [\A f \in known : holder[f] = NoHolder => holder'[f] = NoHolder]_chainVars
  <2> SUFFICES ASSUME ChainInv, ChainNext, NEW f \in known, holder[f] = NoHolder
               PROVE  holder'[f] = NoHolder
    OBVIOUS
  <2>1. f \in Tokens
    BY DEF ChainInv, ChainTypeOK
  <2>2. ASSUME NEW n \in Tokens, Found(n) PROVE holder'[f] = NoHolder
    BY <2>1, <2>2 DEF Found, ChainInv, ChainTypeOK
  <2>3. ASSUME NEW g \in Tokens, NEW n \in Tokens, Hand(g, n)
        PROVE  holder'[f] = NoHolder
    BY <2>1, <2>3 DEF Hand, ChainInv, ChainTypeOK
  <2>4. ASSUME NEW F \in SUBSET Tokens, Lose(F) PROVE holder'[f] = NoHolder
    BY <2>1, <2>4 DEF Lose
  <2> QED BY <2>2, <2>3, <2>4 DEF ChainNext
<1> QED
  BY <1>1, <1>2, ChainInvariant, PTL DEF ChainSpec, NoComeback, DeadForGood
=============================================================================
