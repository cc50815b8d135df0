---------------------------- MODULE MCConnection ----------------------------
(* Small lines for TLC: how many commands each machine sends. *)
EXTENDS Connection, TLC

TwoAndOne == Left :> 2 @@ Right :> 1
TwoAndTwo == Left :> 2 @@ Right :> 2
OneAndOne == Left :> 1 @@ Right :> 1
TwoAndNone == Left :> 2 @@ Right :> 0
NoQuitter == {}
LeftQuits == {Left}
BothQuit  == {Left, Right}
=============================================================================
