------------------------------- MODULE TcpNet -------------------------------
(***************************************************************************)
(* The endpoint of module Tcp, with one core and one flow, facing a peer   *)
(* that follows RFC 793 over a network.  The peer and the network are not  *)
(* in the repository: they are what the handlers are written against (the  *)
(* segments each of them expects and answers), so that the promises of a   *)
(* connection as a whole can be stated: what is printed, what is           *)
(* acknowledged, and that handshakes and closes come to an end.            *)
(*                                                                         *)
(* The peer sends its stream in segments of one byte, the last byte with   *)
(* its FIN or before it; it repeats what is not acknowledged whenever its  *)
(* timer fires, on every network; and it resets what it cannot place.      *)
(***************************************************************************)
EXTENDS Tcp, Sequences

CONSTANTS PeerISS,      \* the peer's initial sequence number
          UserBytes,    \* bytes of the user's stream (bound)
          Scenarios     \* who does what, over which network

Scenario ==
  [opens  : BOOLEAN,                              \* the peer opens; else it listens
   user   : SUBSET {"connect", "send", "close"},  \* the commands the user gives
   lossy  : BOOLEAN,                              \* segments may be lost
   bytes  : Nat,                                  \* bytes the peer may send, one in each segment
   window : Nat \ {0},                            \* with as many unacknowledged, the peer starts no new segment
   cap    : Nat \ {0}]                            \* bound: segments in flight before anybody starts a new one

ASSUME NetAssumption ==
  /\ NumCores = 1 /\ Flows # {} /\ Pads # {} /\ HashEntries # 0
  /\ PeerISS \in SeqNum
  /\ UserBytes \in Nat /\ UserBytes + 4 < HalfSpace
  /\ Scenarios \subseteq Scenario
  /\ \A sc \in Scenarios : sc.bytes + 2 < Modulus

VARIABLES scenario,  \* chosen at the start
          peer,      \* the peer's connection
          toHost,    \* segments on their way, oldest first
          toPeer,
          shown      \* positions in the peer's stream that the host printed

netVars == <<vars, scenario, peer, toHost, toPeer, shown>>

Flow == CHOOSE q \in Flows : TRUE
Pad  == CHOOSE p \in Pads : TRUE

\* The position of a number in the peer's stream: 0 is its SYN, 1 its first byte.
Position(n) == Minus(n, PeerISS)

\* An open peer stays to answer when both sides have closed, in TIME_WAIT.
Peers == [st : {"CLOSED", "SYN_SENT", "SYN_RECV", "OPEN"},
          una : SeqNum, nxt : SeqNum, rcv : SeqNum,
          fin : 0 .. 2,        \* numbers its FIN segment takes, 0 before it is sent
          finGot : BOOLEAN,
          reset : BOOLEAN]     \* it has answered with a reset

NetTypeOK ==
  /\ TypeOK
  /\ scenario \in Scenarios
  /\ peer \in Peers
  /\ toHost \in Seq(Segment)
  /\ toPeer \in Seq(Output)
  /\ shown \subseteq 1 .. scenario.bytes

NetInit ==
  /\ Init
  /\ scenario \in Scenarios
  /\ peer = [st |-> "CLOSED", una |-> PeerISS, nxt |-> PeerISS, rcv |-> 0,
             fin |-> 0, finGot |-> FALSE, reset |-> FALSE]
  /\ toHost = <<>> /\ toPeer = <<>>
  /\ shown = {}

InFlight == Len(toHost) + Len(toPeer)

-----------------------------------------------------------------------------
(* The host *)

\* What the host sent and printed in this step.
HostOutput ==
  /\ toPeer' = IF tx' = {} THEN toPeer ELSE Append(toPeer, CHOOSE g \in tx' : TRUE)
  /\ shown' = shown \cup {Position(p.seq) : p \in printed'}

HostReceive ==
  /\ toHost # <<>>
  /\ toHost' = Tail(toHost)
  /\ Receive(1, Flow, Head(toHost))
  /\ HostOutput
  /\ UNCHANGED <<scenario, peer>>

\* The user follows the connection with "dump" and gives a command when the state
\* it shows is the one the command is for, and gives "connect" before the peer has
\* anything of the connection: a peer that only opens refuses it.  The user closes
\* once everything is answered: a FIN sent earlier has the number of the first
\* unacknowledged byte, the peer takes it for old data, and the host stays in
\* FIN_WAIT1 for ever.
Sender == conn[table[1][CliKey(Flow, Pad)]]
UserSees(st) == table[1][CliKey(Flow, Pad)] # NoConn /\ Sender.tcpState = st

HostCommand ==
  /\ InFlight < scenario.cap
  /\ \/ "connect" \in scenario.user /\ peer.st = "CLOSED" /\ active_connect(Flow, Pad)
     \/ /\ "send" \in scenario.user /\ UserSees("ESTABLISHED")
        /\ \E size \in SendLens :
             /\ Minus(Sender.snd_nxt, ISS) + size <= UserBytes + 1
             /\ active_send_data(1, Flow, Pad, size)
     \/ /\ "close" \in scenario.user /\ UserSees("ESTABLISHED") /\ InFlight = 0
        /\ active_close(1, Flow, Pad)
  /\ HostOutput
  /\ UNCHANGED <<scenario, peer, toHost>>

-----------------------------------------------------------------------------
(* The peer *)

Sends(seg) == toHost' = Append(toHost, seg)

\* The peer becomes p and sends a segment.
PeerSends(p, flags, seq, len) ==
  /\ peer' = p
  /\ Sends([flags |-> flags, seq |-> seq, ack |-> IF "ACK" \in flags THEN p.rcv ELSE 0,
            wnd |-> MaxWindow, len |-> len])

Unacked == Position(peer.nxt) - Position(peer.una)

MayStart == InFlight < scenario.cap /\ Unacked < scenario.window

PeerOpen ==
  /\ scenario.opens /\ peer.st = "CLOSED" /\ MayStart
  /\ PeerSends([peer EXCEPT !.st = "SYN_SENT", !.nxt = Plus(PeerISS, 1)], {"SYN"}, PeerISS, 0)

HasBytes == Position(peer.nxt) <= scenario.bytes

PeerSend ==
  /\ peer.st = "OPEN" /\ peer.fin = 0 /\ MayStart /\ HasBytes
  /\ PeerSends([peer EXCEPT !.nxt = Plus(@, 1)], {"ACK", "PSH"}, peer.nxt, 1)

\* The FIN goes alone, or with the last byte.
PeerClose ==
  /\ peer.st = "OPEN" /\ peer.fin = 0 /\ MayStart
  /\ \/ PeerSends([peer EXCEPT !.nxt = Plus(@, 1), !.fin = 1], {"FIN", "ACK"}, peer.nxt, 0)
     \/ /\ HasBytes
        /\ PeerSends([peer EXCEPT !.nxt = Plus(@, 2), !.fin = 2], {"FIN", "ACK"}, peer.nxt, 1)

\* The retransmission timer, which knows nothing of the network: what is oldest
\* and unacknowledged is sent again.
PeerTimeout ==
  /\ InFlight < scenario.cap
  /\ peer.una # peer.nxt
  /\ \/ peer.st = "SYN_SENT" /\ PeerSends(peer, {"SYN"}, PeerISS, 0)
     \/ peer.st = "SYN_RECV" /\ PeerSends(peer, {"SYN", "ACK"}, PeerISS, 0)
     \/ /\ peer.st = "OPEN"
        /\ IF Unacked <= peer.fin
           THEN PeerSends(peer, {"FIN", "ACK"}, peer.una, Unacked - 1)
           ELSE PeerSends(peer, {"ACK", "PSH"}, peer.una, 1)

\* The sequence numbers a segment takes behind its own.
Content(g) == g.len + (IF {"SYN", "FIN"} \cap g.flags = {} THEN 0 ELSE 1)

\* A segment the peer cannot place is answered with a reset, to which the peer's
\* own state has nothing to add.
Resets(g) ==
  /\ peer' = [peer EXCEPT !.reset = TRUE]
  /\ Sends(IF "ACK" \in g.flags
           THEN [flags |-> {"RST"}, seq |-> g.ack, ack |-> 0, wnd |-> 0, len |-> 0]
           ELSE [flags |-> {"RST", "ACK"}, seq |-> 0, ack |-> Plus(g.seq, Content(g)),
                 wnd |-> 0, len |-> 0])

Drops == UNCHANGED <<peer, toHost>>

\* The host's SYN: the peer answers with its own.
GetsSyn(g) ==
  PeerSends([peer EXCEPT !.st = "SYN_RECV", !.nxt = Plus(PeerISS, 1), !.rcv = Plus(g.seq, 1)],
            {"SYN", "ACK"}, PeerISS, 0)

\* CLOSED, or LISTEN in the scenarios in which the peer does not open.
ClosedPeerGets(g) ==
  \/ (scenario.opens \/ "ACK" \in g.flags) /\ Resets(g)
  \/ /\ ~scenario.opens /\ "ACK" \notin g.flags
     /\ IF "SYN" \in g.flags THEN GetsSyn(g) ELSE Drops

SynSentPeerGets(g) ==
  LET answers == "ACK" \in g.flags /\ g.ack = peer.nxt
  IN  \/ "ACK" \in g.flags /\ ~answers /\ Resets(g)
      \/ /\ answers /\ "SYN" \in g.flags
         /\ PeerSends([peer EXCEPT !.st = "OPEN", !.una = g.ack, !.rcv = Plus(g.seq, 1)],
                      {"ACK"}, peer.nxt, 0)
      \/ "ACK" \notin g.flags /\ "SYN" \in g.flags /\ GetsSyn(g)
      \/ ("ACK" \in g.flags => answers) /\ "SYN" \notin g.flags /\ Drops

\* What begins behind rcv is not kept, and a SYN is never acceptable: the host's
\* is numbered ISS, in front of rcv.
PeerAccepts(g) ==
  /\ "SYN" \notin g.flags
  /\ IF Content(g) = 0 THEN Minus(g.seq, peer.rcv) < MaxWindow
     ELSE Minus(peer.rcv, g.seq) < Content(g)

\* An acknowledgement only moves una forward.
PeerAcked(g) ==
  [peer EXCEPT !.st = "OPEN",
               !.una = IF Position(g.ack) > Position(@) THEN g.ack ELSE @]

\* The order of RFC 793: the sequence number, the acknowledgement, then the text
\* and the FIN, of which what has come before is cut off.
SyncedPeerGets(g) ==
  LET acksUnsent == Position(g.ack) > Position(peer.nxt)
      badOpening == peer.st = "SYN_RECV" /\ g.ack # peer.nxt
      p          == PeerAcked(g)
  IN  \/ ~PeerAccepts(g) /\ PeerSends(peer, {"ACK"}, peer.nxt, 0)
      \/ /\ PeerAccepts(g)
         /\ \/ "ACK" \notin g.flags /\ Drops
            \/ /\ "ACK" \in g.flags
               /\ \/ badOpening /\ Resets(g)
                  \/ ~badOpening /\ acksUnsent /\ PeerSends(peer, {"ACK"}, peer.nxt, 0)
                  \/ /\ ~badOpening /\ ~acksUnsent
                     /\ IF Content(g) = 0
                        THEN peer' = p /\ UNCHANGED toHost
                        ELSE PeerSends([p EXCEPT !.rcv = Plus(g.seq, Content(g)),
                                                 !.finGot = @ \/ "FIN" \in g.flags],
                                       {"ACK"}, p.nxt, 0)

PeerReceive ==
  /\ toPeer # <<>>
  /\ toPeer' = Tail(toPeer)
  /\ \/ peer.st = "CLOSED"               /\ ClosedPeerGets(Head(toPeer))
     \/ peer.st = "SYN_SENT"             /\ SynSentPeerGets(Head(toPeer))
     \/ peer.st \in {"SYN_RECV", "OPEN"} /\ SyncedPeerGets(Head(toPeer))
  /\ UNCHANGED <<vars, scenario, shown>>

PeerStep == /\ PeerOpen \/ PeerSend \/ PeerClose \/ PeerTimeout
            /\ UNCHANGED <<vars, scenario, toPeer, shown>>

Lose ==
  /\ scenario.lossy
  /\ \/ toHost # <<>> /\ toHost' = Tail(toHost) /\ UNCHANGED toPeer
     \/ toPeer # <<>> /\ toPeer' = Tail(toPeer) /\ UNCHANGED toHost
  /\ UNCHANGED <<vars, scenario, peer, shown>>

NetNext == HostReceive \/ HostCommand \/ PeerReceive \/ PeerStep \/ Lose

-----------------------------------------------------------------------------
(* Fairness.  The receive loop polls its queue for ever and the peer is alive, *)
(* so both get to what has arrived.  A lossy network may lose a segment any    *)
(* number of times, but not every one of a kind: what is sent again and again  *)
(* gets through.  Only the peer repeats itself; the host has no timer.         *)

Brings(queue, flags) == queue # <<>> /\ Head(queue).flags = flags

Repeats == PeerTimeout /\ UNCHANGED <<vars, scenario, toPeer, shown>>

Fairness ==
  /\ WF_netVars(HostReceive)
  /\ WF_netVars(PeerReceive)
  /\ WF_netVars(Repeats)
  /\ \A flags \in {{"SYN"}, {"ACK", "PSH"}, {"FIN", "ACK"}} :
       SF_netVars(HostReceive /\ Brings(toHost, flags))
  /\ \A flags \in {{"SYN", "ACK"}, {"ACK"}} :
       SF_netVars(PeerReceive /\ Brings(toPeer, flags))

NetSpec == NetInit /\ [][NetNext]_netVars /\ Fairness

-----------------------------------------------------------------------------
(* Properties *)

\* What the host acknowledges and prints rests on three conditions.
\*
\* handle_tcp_fin_wait1 acknowledges seq + 1 of whatever segment ends the user's
\* close, printed or not, sent or not.
NoClose == "close" \notin scenario.user

\* handle_tcp_syn_sent takes any segment for the answer to the SYN, the reset of a
\* peer that refuses it too: the connection is ESTABLISHED, and a number the peer
\* never used is acknowledged.
NotReset == ~peer.reset

\* segment_check lets data through wherever it starts, and handle_tcp_establish
\* acknowledges its end: with a byte lost and the next one on its way, both would
\* be acknowledged.  So a peer that may lose segments has one number at a time out.
NoGaps == scenario.lossy => scenario.window = 1

\* The user is shown the peer's stream from its start: no byte is missing before
\* one that was printed.  A byte the peer repeats may be printed again, because no
\* handler tells old data from new.
StreamPrefix ==
  NotReset /\ (scenario.lossy => NoClose /\ NoGaps)
    => \A n \in shown : 1 .. n \subseteq shown

\* The host never acknowledges a number the peer has not used.
AcksOnlySent ==
  NoClose /\ NotReset =>
    \A i \in 1 .. Len(toPeer) :
      "ACK" \in toPeer[i].flags => Position(toPeer[i].ack) <= Position(peer.nxt)

\* The only segment of the host that a peer cannot place is the "connect" to one
\* that does not listen, and what follows from it: however SYNs cross, are
\* repeated or lost, no handshake that was begun is reset.
OnlyRefusals ==
  peer.reset => scenario.opens /\ "connect" \in scenario.user

\* The bytes the peer has sent, and those it knows to have arrived.  A byte that
\* comes with the FIN is not counted: handle_tcp_establish acknowledges its
\* number, which it takes for the FIN's, and does not print it.
MaxBytes == CHOOSE n \in {sc.bytes : sc \in Scenarios} : \A sc \in Scenarios : sc.bytes <= n
Sent(n)  == n < Position(peer.nxt) - peer.fin
Known(n) == Sent(n) /\ n < Position(peer.una)

\* What the peer may forget because it was acknowledged has been printed.
AckedWasPrinted ==
  NoClose /\ NotReset /\ NoGaps => \A n \in 1 .. MaxBytes : Known(n) => n \in shown

\* The user only watches.  A "send" whose bytes are not yet acknowledged makes the
\* host number its next segment, a FIN too, like those bytes, and the peer then
\* takes it for old data: the promises to the peer are made without it.
Undisturbed == scenario.user = {}

\* A peer that keeps asking is answered, lossy network or not: its handshake
\* completes.
HandshakeCompletes == Undisturbed /\ peer.st = "SYN_SENT" ~> peer.st = "OPEN"

\* Every byte the peer sends before its FIN is acknowledged in the end.
DataAcked == \A n \in 1 .. MaxBytes : Undisturbed /\ Sent(n) ~> Known(n)

\* When nothing is lost, a connection the peer closes is removed and its memory
\* freed, and the peer is told: it gets the host's FIN and its own is acknowledged,
\* unless the last byte came with it.
PeerCloseCompletes ==
  Undisturbed /\ ~scenario.lossy /\ peer.fin # 0
    ~> DOMAIN conn = {} /\ peer.finGot /\ (peer.fin = 1 => peer.una = peer.nxt)

\* "connect" comes to an end when nothing is lost: the connection is established,
\* or gone.
ConnectCompletes ==
  \A id \in ConnIds :
    (~scenario.lossy /\ Allocated(id) /\ conn[id].tcpState = "SYN_SENT")
      ~> (Allocated(id) => conn[id].tcpState # "SYN_SENT")

\* A "close" comes to an end too: the peer gets the FIN and the entry is removed.
CloseCompletes ==
  \A id \in ConnIds :
    (~scenario.lossy /\ NotReset /\ Filed(id) /\ conn[id].tcpState = "FIN_WAIT1")
      ~> (peer.finGot /\ ~Filed(id))

=============================================================================
