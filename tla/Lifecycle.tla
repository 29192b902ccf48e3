------------------------------ MODULE Lifecycle ------------------------------
(***************************************************************************)
(* What the endpoint promises about each slot of a connection table, with  *)
(* sequence numbers, segments and memory left out: the states a connection *)
(* can be found in and the order it goes through them.  It differs from    *)
(* the RFC 793 diagram where the code does: a slot is freed by the first   *)
(* acceptable segment after the user's close (no FIN_WAIT2, CLOSING or     *)
(* TIME_WAIT is ever filed), and "close" is possible in every state.       *)
(***************************************************************************)
CONSTANT Slots

VARIABLE status

Open == {"SYN_SENT", "SYN_RECV", "ESTABLISHED", "FIN_WAIT1", "LAST_ACK"}

Init == status = [x \in Slots |-> "NONE"]

Move(x, from, to) == /\ status[x] \in from
                     /\ status' = [status EXCEPT ![x] = to]

PassiveOpen(x)  == Move(x, {"NONE"}, "SYN_RECV")
ActiveOpen(x)   == Move(x, {"NONE"}, "SYN_SENT")
Establish(x)    == Move(x, {"SYN_SENT", "SYN_RECV"}, "ESTABLISHED")
PassiveClose(x) == Move(x, {"ESTABLISHED"}, "LAST_ACK")
ActiveClose(x)  == Move(x, Open, "FIN_WAIT1")
Remove(x)       == Move(x, {"FIN_WAIT1", "LAST_ACK"}, "NONE")

Next == \E x \in Slots :
          \/ PassiveOpen(x) \/ ActiveOpen(x) \/ Establish(x)
          \/ PassiveClose(x) \/ ActiveClose(x) \/ Remove(x)

Spec == Init /\ [][Next]_status

=============================================================================
