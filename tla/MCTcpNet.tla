------------------------------ MODULE MCTcpNet ------------------------------
(***************************************************************************)
(* An instance of TcpNet for TLC.                                          *)
(***************************************************************************)
EXTENDS TcpNet

SteerToOne == [q \in Flows |-> 1]

Scene(opens, user, lossy, bytes, window, cap) ==
  [opens |-> opens, user |-> user, lossy |-> lossy, bytes |-> bytes, window |-> window, cap |-> cap]

\* Nothing is lost and several segments are in flight: the peer opens and closes,
\* with a user who watches or takes part; or it listens, and the user connects; or
\* it does neither, and refuses the user.
Ordered ==
  {Scene(TRUE,  {},                           FALSE, 4, 4, 4),
   Scene(TRUE,  {"send"},                     FALSE, 2, 2, 2),
   Scene(TRUE,  {"send", "close"},            FALSE, 2, 2, 2),
   Scene(FALSE, {"connect", "send", "close"}, FALSE, 2, 2, 2),
   Scene(TRUE,  {"connect", "send", "close"}, FALSE, 1, 1, 2)}

\* Segments are lost: the peer opens, and the user may connect at the same moment.
Losing ==
  {Scene(TRUE,  {},                  TRUE, 2, 1, 2),
   Scene(TRUE,  {"connect", "send"}, TRUE, 2, 1, 2),
   Scene(FALSE, {"connect", "send"}, TRUE, 2, 1, 2)}

AllScenarios == Ordered \cup Losing

=============================================================================
