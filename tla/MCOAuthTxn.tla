----------------------------- MODULE MCOAuthTxn -----------------------------
(* The instances of OAuthTxn that TLC checks. *)
EXTENDS OAuthTxn, TLC

Names == Permutations(Workers) \cup Permutations(Clients) \cup Permutations(Codes) \cup Permutations(Tokens)
=============================================================================
