------------------------------- MODULE MCTcp -------------------------------
(***************************************************************************)
(* Instances of Tcp for TLC.                                               *)
(***************************************************************************)
EXTENDS Tcp, TLC

SteerToOne   == [q \in Flows |-> 1]
SteerToTwo   == [q \in Flows |-> 2]

\* What a peer, or an old duplicate, can bring: every flag combination the
\* handlers tell apart, numbers on both sides of the wrap and of the window.
MCSegments(seqs, acks, wnds, lens) ==
  [flags : {{"SYN"}}, seq : seqs, ack : {0}, wnd : wnds, len : lens]
  \cup [flags : {{"SYN", "ACK"}, {"ACK"}, {"FIN", "ACK"}, {"RST"}},
        seq : seqs, ack : acks, wnd : {MaxWindow}, len : lens]

\* Rich numbers for one connection on the smallest circle.  Size -1: the headers
\* are longer than the datagram says it is.
RichSegments == MCSegments({0, 3, 7}, {0, 1, 7}, {0, 2}, {-1, 0, 1})

\* Few numbers, for several cores, flows or keys.
PoorSegments == MCSegments({0, 1}, {1}, {2}, {0})

ConnSymmetry == Permutations(ConnIds)

=============================================================================
