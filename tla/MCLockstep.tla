----------------------------- MODULE MCLockstep -----------------------------
(* Small games for TLC: how many commands each machine may issue. *)
EXTENDS Lockstep, TLC

Both == 0 .. 1
Trio == 0 .. 2

OneEach    == [p \in Players |-> 1]
RouterTwoClientOne == 0 :> 2 @@ 1 :> 1
OneClientOrders == 0 :> 1 @@ 1 :> 0 @@ 2 :> 0
=============================================================================
