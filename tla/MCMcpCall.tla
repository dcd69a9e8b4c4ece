----------------------------- MODULE MCMcpCall -----------------------------
(* The instances of McpCall that TLC checks. *)
EXTENDS McpCall, TLC

CONSTANTS r1, r2

\* A well-formed call of a writing tool the caller may use, and its variations.
WriteBoth ==
  [method |-> "tools/call", name |-> "builtin", object |-> TRUE,
   complete |-> TRUE, mayRun |-> TRUE, readOnlyTool |-> FALSE,
   writeAllowed |-> TRUE, writes |-> {r1, r2}, ends |-> "well"]

NoWrites == [WriteBoth EXCEPT !.writes = {}]

\* Every method, every gate that refuses, and pairs of gates that both would.
ScreenedRequests ==
  {[NoWrites EXCEPT !.method = m] : m \in {"malformed", "ping", "unknown"}}
  \cup {[NoWrites EXCEPT !.name = "unusable", !.object = FALSE],
        [NoWrites EXCEPT !.object = FALSE, !.writeAllowed = FALSE],
        [NoWrites EXCEPT !.name = "custom", !.mayRun = FALSE, !.complete = FALSE],
        [NoWrites EXCEPT !.writeAllowed = FALSE, !.complete = FALSE],
        [NoWrites EXCEPT !.writeAllowed = FALSE, !.complete = FALSE,
                         !.readOnlyTool = TRUE]}

\* Tools that write, and fail after some or all of their writes.
RunningRequests ==
  {[WriteBoth EXCEPT !.ends = e] : e \in {"well", "denied", "badly"}}
  \cup {[WriteBoth EXCEPT !.writes = {r1}, !.name = "custom"],
        [NoWrites EXCEPT !.method = "resources/read", !.readOnlyTool = TRUE,
                         !.ends = "badly"]}

AllRequests == ScreenedRequests \cup RunningRequests

Symmetric == Permutations(Callers)
=============================================================================
