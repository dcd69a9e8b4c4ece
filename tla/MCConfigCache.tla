--------------------------- MODULE MCConfigCache ---------------------------
(* The instances of ConfigCache that TLC checks: a prefork deployment, two  *)
(* worker processes of one thread, and a threaded one, one of two threads.  *)
EXTENDS ConfigCache, TLC

CONSTANTS t1, t2, p1, p2, sale

OwnProcess == (t1 :> p1) @@ (t2 :> p2)
OneProcess == (t1 :> p1) @@ (t2 :> p1)

GrantsOfRead == {{}, {"read"}}

OffAndOn ==
  {[i \in Items |-> IF i \in Params THEN TRUE ELSE row] :
     row \in {Absent, [active |-> FALSE, allows |-> {}], [active |-> TRUE, allows |-> {"read"}]}}

ReadGates == {SwitchGate("mcp"), OperationGate(sale, "read")}
=============================================================================
