---------------------------- MODULE MCOAuthGrant ----------------------------
(* The instances of OAuthGrant that TLC checks. *)
EXTENDS OAuthGrant, TLC

\* What clients register and ask for: nothing, read-only, full, something odd.
TwoRegistrations == {{}, {"mcp:read"}}
OneRegistration == {{}}
OneRequest == {{"mcp"}}
OddRegistration == {{"openid"}}

Names == Permutations(Codes) \cup Permutations(Tokens)
=============================================================================
