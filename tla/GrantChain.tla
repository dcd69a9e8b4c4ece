----------------------------- MODULE GrantChain -----------------------------
(***************************************************************************)
(* What the token endpoint promises about a refresh-token family, with no  *)
(* tables, clocks or codes: a family is a chain of credentials of which at *)
(* most one, its holder, is good at any time.  The holder is handed from   *)
(* one token to a token never seen before, or it is lost for good.  The    *)
(* family is named by the first token of its chain.                        *)
(***************************************************************************)
CONSTANTS Tokens,    \* every opaque token value
          NoHolder   \* the holder of a family that has none

VARIABLES holder,    \* [Tokens -> Tokens \cup {NoHolder}], indexed by family
          known      \* the token values handed out so far

chainVars == <<holder, known>>

ChainTypeOK ==
  /\ holder \in [Tokens -> Tokens \cup {NoHolder}]
  /\ known \subseteq Tokens

ChainInit ==
  /\ holder = [f \in Tokens |-> NoHolder]
  /\ known = {}

\* A code is redeemed: a new family starts with its first token.
Found(t) ==
  /\ t \notin known
  /\ holder' = [holder EXCEPT ![t] = t]
  /\ known' = known \cup {t}

\* A refresh token is exchanged: the family moves on to a new token.
Hand(f, t) ==
  /\ holder[f] # NoHolder
  /\ t \notin known
  /\ holder' = [holder EXCEPT ![f] = t]
  /\ known' = known \cup {t}

\* Revocation, replay containment, garbage collection, cascading deletes:
\* some families lose their holder.
Lose(F) ==
  /\ holder' = [f \in Tokens |-> IF f \in F THEN NoHolder ELSE holder[f]]
  /\ UNCHANGED known

ChainNext ==
  \/ \E t \in Tokens : Found(t)
  \/ \E f, t \in Tokens : Hand(f, t)
  \/ \E F \in SUBSET Tokens : Lose(F)

ChainSpec == ChainInit /\ [][ChainNext]_chainVars
-----------------------------------------------------------------------------
\* A token is the holder of at most one family, and only if it was handed out.
HoldersAreKnown ==
  \A f \in Tokens : holder[f] # NoHolder => holder[f] \in known /\ f \in known

\* No family, and no token, comes back: a token that was handed out and holds
\* nothing never holds anything again.
Holds(t) == \E f \in Tokens : holder[f] = t

NoComeback ==
  [][\A t \in known : ~Holds(t) => ~Holds(t)']_chainVars

\* A family that was founded and lost its holder has none ever after.
DeadForGood ==
  [][\A f \in known : holder[f] = NoHolder => holder'[f] = NoHolder]_chainVars
=============================================================================
