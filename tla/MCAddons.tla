------------------------------ MODULE MCAddons ------------------------------
(* Addons on small instances.                                               *)
EXTENDS Addons, TLC

Groups == 1 :> 1 @@ 2 :> 1 @@ 3 :> 2 @@ 4 :> 3
Lines == [id \in Ids |-> id % 3]
LimitValues == {-1, 1, 3}
Days == {-1, 1}
Hours == [sheet \in Sheets |-> 2]
=============================================================================
