------------------------------ MODULE MCDoor -------------------------------
(* The instance of Door that TLC checks: one user with a key confined to    *)
(* /mcp, an unconfined one and a password, and another with two tokens.     *)
EXTENDS Door, TLC

CONSTANTS ann, bob, app, mcpKey, anyKey, password, token, foreign

Issued ==
  (mcpKey :> [door |-> "key", user |-> ann, scope |-> "mcp"])
    @@ (anyKey :> [door |-> "key", user |-> ann, scope |-> "any"])
    @@ (password :> [door |-> "password", user |-> ann])
    @@ (token :> [door |-> "token", user |-> bob, client |-> app, here |-> TRUE])
    @@ (foreign :> [door |-> "token", user |-> bob, client |-> app, here |-> FALSE])
=============================================================================
