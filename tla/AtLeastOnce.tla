---------------------------- MODULE AtLeastOnce ----------------------------
(***************************************************************************)
(* What two Connections promise each other: a command handed over is kept  *)
(* until the other side has it, and is not made up.  It may be received    *)
(* any number of times and in any order.  Only a connection that gives up  *)
(* may forget commands.                                                    *)
(***************************************************************************)
CONSTANTS Machines, Other(_), IDs

VARIABLES
  sent,         \* the commands each machine has handed over
  outstanding,  \* those it still takes care of
  received,     \* the commands each machine has received from the other
  gaveUp        \* has its connection been given up?

vars == <<sent, outstanding, received, gaveUp>>

Init ==
  /\ sent        = [p \in Machines |-> {}]
  /\ outstanding = [p \in Machines |-> {}]
  /\ received    = [p \in Machines |-> {}]
  /\ gaveUp      = [p \in Machines |-> FALSE]

Send(p) ==
  /\ \E c \in IDs \ sent[p] :
       /\ sent'        = [sent EXCEPT ![p] = @ \cup {c}]
       /\ outstanding' = [outstanding EXCEPT ![p] = @ \cup {c}]
  /\ UNCHANGED <<received, gaveUp>>

(* Machine p takes commands and learns that some of its own have arrived. *)
Receive(p) ==
  /\ \E cs \in SUBSET sent[Other(p)] : received' = [received EXCEPT ![p] = @ \cup cs]
  /\ \E done \in SUBSET received[Other(p)] :
       outstanding' = [outstanding EXCEPT ![p] = @ \ done]
  /\ UNCHANGED <<sent, gaveUp>>

GiveUp(p) ==
  /\ gaveUp'      = [gaveUp EXCEPT ![p] = TRUE]
  /\ outstanding' = [outstanding EXCEPT ![p] = {}]
  /\ UNCHANGED <<sent, received>>

Next == \E p \in Machines : Send(p) \/ Receive(p) \/ GiveUp(p)

Spec == Init /\ [][Next]_vars
=============================================================================
