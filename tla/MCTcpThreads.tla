---------------------------- MODULE MCTcpThreads ----------------------------
(***************************************************************************)
(* Instances of TcpThreads for TLC.                                        *)
(***************************************************************************)
EXTENDS TcpThreads, TLC

CONSTANTS q1, q2

\* Each core receives one of the keys; both can be connected to from core 1.
OneEach == (q1 :> 1) @@ (q2 :> 2)

Symmetry == Permutations(ConnIds)

=============================================================================
