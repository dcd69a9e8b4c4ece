---------------------------- MODULE AtomicCalls ----------------------------
(***************************************************************************)
(* What a client of /mcp may rely on, with no transactions, locks, retries *)
(* or savepoints: a call happens as a whole, once and at one instant, and  *)
(* is then answered with success; or it is refused, or lost with the       *)
(* worker, and has no effect at all.                                       *)
(***************************************************************************)
CONSTANTS Callers,   \* one call each
          Records    \* rows of the business database

VARIABLES
  effect,   \* [Records -> SUBSET Callers]: whose calls made the record's value
  asked,    \* [Callers -> SUBSET Records]: what the call is to write
  outcome   \* [Callers -> {"none", "open", "success", "refused", "lost"}]

atomicVars == <<effect, asked, outcome>>

AtomicInit ==
  /\ effect = [r \in Records |-> {}]
  /\ asked = [c \in Callers |-> {}]
  /\ outcome = [c \in Callers |-> "none"]

Ask(c, S) ==
  /\ outcome[c] = "none"
  /\ asked' = [asked EXCEPT ![c] = S]
  /\ outcome' = [outcome EXCEPT ![c] = "open"]
  /\ UNCHANGED effect

Perform(c) ==
  /\ outcome[c] = "open"
  /\ effect' = [r \in Records |-> IF r \in asked[c] THEN effect[r] \cup {c}
                                                  ELSE effect[r]]
  /\ outcome' = [outcome EXCEPT ![c] = "success"]
  /\ UNCHANGED asked

Refuse(c) ==
  /\ outcome[c] = "open"
  /\ outcome' = [outcome EXCEPT ![c] = "refused"]
  /\ UNCHANGED <<effect, asked>>

\* The process dies: every open call is lost.
Lose ==
  /\ outcome' = [c \in Callers |-> IF outcome[c] = "open" THEN "lost"
                                                          ELSE outcome[c]]
  /\ UNCHANGED <<effect, asked>>

AtomicNext ==
  \/ \E c \in Callers : Perform(c) \/ Refuse(c)
  \/ \E c \in Callers, S \in SUBSET Records : Ask(c, S)
  \/ Lose

AtomicSpec == AtomicInit /\ [][AtomicNext]_atomicVars
=============================================================================
