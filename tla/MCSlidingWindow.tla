-------------------------- MODULE MCSlidingWindow --------------------------
(* The instance of SlidingWindow that TLC checks. *)
EXTENDS SlidingWindow, TLC

Names == Permutations(Keys) \cup Permutations(Threads)
=============================================================================
