---------------------------- MODULE TcpNetProofs ----------------------------
(***************************************************************************)
(* Proofs about TcpNet: the endpoint and its peer keep to what they may    *)
(* say to each other, for every scenario, every padding of the keys, every *)
(* size of the tables and every circle of sequence numbers.                *)
(***************************************************************************)
EXTENDS TcpNet, TcpProofs, FiniteSetTheorems

(***************************************************************************)
(* The inductive invariant: that of the endpoint, and what holds of the    *)
(* peer and of the segments on their way.                                  *)
(***************************************************************************)

Elements(queue) == {queue[i] : i \in 1 .. Len(queue)}

IsSyn(g)   == "SYN" \in g.flags
BareSyn(g) == g.flags = {"SYN"}
IsFin(g)   == "FIN" \in g.flags
Starts(g)  == g.len # 0 \/ IsFin(g)          \* takes numbers behind the SYN
IsData(g)  == g.len # 0 /\ ~IsFin(g)

\* Where the peer's bytes end that it has sent before its FIN.
Limit(p) == Position(p.nxt) - p.fin

\* How far the peer has used its stream, in each of its states.
PeerOK(p) ==
  /\ p.st = "CLOSED" => p.nxt = PeerISS
  /\ p.st \in {"CLOSED", "SYN_SENT"} => p.rcv = 0
  /\ p.st = "SYN_RECV" => p.rcv = 1
  /\ p.st # "OPEN" => p.una = PeerISS /\ p.fin = 0
  /\ p.st \in {"SYN_SENT", "SYN_RECV"} => Position(p.nxt) = 1
  /\ p.st = "OPEN" => /\ 1 <= Position(p.una)
                      /\ Position(p.una) <= Position(p.nxt)
                      /\ Limit(p) \in 1 .. scenario.bytes + 1
                      /\ Position(p.nxt) <= scenario.bytes + (IF p.fin = 0 THEN 1 ELSE 2)

\* What a segment to the host takes up, the peer has used: bytes before the FIN,
\* and the FIN behind them.
Occupies(g) ==
  /\ IsSyn(g) => g.seq = PeerISS /\ g.wnd = MaxWindow /\ g.len = 0
  /\ IsSyn(g) \/ Starts(g) => Position(g.seq) + 1 <= Position(peer.nxt)
  /\ g.len # 0 => g.len = 1 /\ Position(g.seq) \in 1 .. scenario.bytes
  /\ IsData(g) => Position(g.seq) < Limit(peer)
  /\ IsFin(g) => Limit(peer) <= Position(g.seq)

ToHostInv == \A g \in Elements(toHost) : Occupies(g)

ToPeerInv == \A g \in Elements(toPeer) : g.len \in Windows /\ (IsSyn(g) => g.seq = ISS)

\* What a segment to the peer acknowledges, the peer has used, and so is the edge
\* of a connection.
Acknowledges(g) == "ACK" \in g.flags => Position(g.ack) <= Position(peer.nxt)

Reached(c) ==
  /\ c.tcpState \in {"SYN_SENT", "SYN_RECV", "ESTABLISHED", "LAST_ACK"}
  /\ c.tcpState # "SYN_SENT" => Position(c.rcv_nxt) <= Position(peer.nxt)

UsedInv ==
  NoClose /\ NotReset => /\ \A g \in Elements(toPeer) : Acknowledges(g)
                         /\ \A id \in DOMAIN conn : Reached(conn[id])

\* Before the peer opens, all there is is one "connect": its SYN, and its entry.
ClosedInv ==
  NotReset /\ peer.st = "CLOSED" =>
    /\ toHost = <<>>
    /\ Len(toPeer) <= 1
    /\ \A g \in Elements(toPeer) : BareSyn(g)
    /\ \A id \in DOMAIN conn : conn[id].tcpState = "SYN_SENT"
    /\ \A key \in Keys : table[1][key] # NoConn => key = CliKey(Flow, Pad)
    /\ table[1][CliKey(Flow, Pad)] = NoConn => toPeer = <<>>

\* The receive loop's entry.
Slot      == table[1][RxKey(1, Flow)]
Hears(st) == Slot # NoConn /\ conn[Slot].tcpState = st

\* While it waits for the answer to its SYN, whatever comes is a SYN that its
\* acknowledgement check lets through.
Answer(g) == IsSyn(g) /\ g.ack \in {0, 1}

OpeningInv ==
  NotReset /\ Hears("SYN_SENT") =>
    /\ peer.st # "OPEN"
    /\ \A g \in Elements(toHost) : Answer(g)
    /\ Len(toPeer) <= 1
    /\ \A g \in Elements(toPeer) : BareSyn(g)
    /\ peer.st = "SYN_RECV" => toPeer = <<>>

NetTypes ==
  /\ scenario \in Scenarios
  /\ peer \in Peers
  /\ toHost \in Seq(Segment)
  /\ toPeer \in Seq(Output)
  /\ shown \subseteq 1 .. scenario.bytes

NetInv == /\ IInv /\ NetTypes
          /\ PeerOK(peer) /\ ToHostInv /\ ToPeerInv
          /\ UsedInv /\ ClosedInv /\ OpeningInv

-----------------------------------------------------------------------------
(* Queues and positions *)

LEMMA AppendFacts ==
  ASSUME NEW S, NEW queue \in Seq(S), NEW e \in S
  PROVE  /\ Append(queue, e) \in Seq(S)
         /\ Elements(Append(queue, e)) = Elements(queue) \cup {e}
<1>1. /\ Append(queue, e) \in Seq(S)
      /\ Len(Append(queue, e)) = Len(queue) + 1 /\ Len(queue) \in Nat
      /\ \A i \in 1 .. Len(queue) : Append(queue, e)[i] = queue[i]
      /\ Append(queue, e)[Len(queue) + 1] = e
  OBVIOUS
<1>2. 1 .. Len(Append(queue, e)) = (1 .. Len(queue)) \cup {Len(queue) + 1}
  BY <1>1
<1> QED
  BY <1>1, <1>2 DEF Elements

LEMMA TailFacts ==
  ASSUME NEW S, NEW queue \in Seq(S), queue # <<>>
  PROVE  /\ Tail(queue) \in Seq(S)
         /\ Elements(Tail(queue)) \subseteq Elements(queue)
         /\ Head(queue) \in Elements(queue)
         /\ Head(queue) \in S
<1>1. Len(queue) \in Nat \ {0} /\ Tail(queue) \in Seq(S) /\ Head(queue) = queue[1]
  OBVIOUS
<1>2. /\ Len(Tail(queue)) = Len(queue) - 1
      /\ \A i \in 1 .. Len(Tail(queue)) : Tail(queue)[i] = queue[i + 1]
  OBVIOUS
<1>3. Elements(Tail(queue)) \subseteq Elements(queue)
  BY <1>1, <1>2 DEF Elements
<1>4. 1 \in 1 .. Len(queue)
  BY <1>1
<1> QED
  BY <1>1, <1>3, <1>4 DEF Elements

LEMMA EmptyFacts == ASSUME NEW S PROVE <<>> \in Seq(S) /\ Elements(<<>>) = {}
BY DEF Elements

LEMMA PositionType ==
  ASSUME NEW n \in SeqNum
  PROVE  Position(n) \in SeqNum /\ Position(n) \in Nat /\ Position(n) < Modulus
<1>1. Position(n) \in SeqNum
  BY NetAssumption, MinusType DEF Position
<1> QED
  BY <1>1, HalfSpacePositive DEF SeqNum, Modulus

\* The position follows the number as long as the stream is shorter than the circle.
LEMMA PositionNext ==
  ASSUME NEW n \in SeqNum, NEW k \in {1, 2}, Position(n) + k < Modulus
  PROVE  Plus(n, k) \in SeqNum /\ Position(Plus(n, k)) = Position(n) + k
BY NetAssumption, HalfSpacePositive DEF Position, SeqNum, Modulus, Plus, Minus

LEMMA PositionISS ==
  /\ PeerISS \in SeqNum /\ Position(PeerISS) = 0
  /\ Plus(PeerISS, 1) \in SeqNum /\ Position(Plus(PeerISS, 1)) = 1
  /\ Plus(ISS, 1) = 1
BY NetAssumption, HalfSpacePositive DEF Position, SeqNum, Modulus, Plus, Minus, ISS

LEMMA PositionInjective ==
  ASSUME NEW a \in SeqNum, NEW b \in SeqNum, Position(a) = Position(b)
  PROVE  a = b
BY NetAssumption, HalfSpacePositive DEF Position, SeqNum, Modulus, Minus

\* The answers to the host's SYN pass its acknowledgement check.
LEMMA AnswerInRange ==
  ASSUME NEW c, c.una = ISS, c.snd_nxt = Plus(ISS, 1), NEW g, g.ack \in {0, 1}
  PROVE  AckInRange(c, g)
BY HalfSpacePositive
DEF AckInRange, is_between_wrapped, wrapping_lt, Plus, Minus, Modulus, ISS

LEMMA ScenarioFacts ==
  ASSUME NetTypes
  PROVE  /\ scenario.bytes \in Nat /\ scenario.bytes + 2 < Modulus
         /\ scenario.window \in Nat \ {0} /\ scenario.opens \in BOOLEAN
BY NetAssumption DEF NetTypes, Scenario

\* What the lemmas need to know of the peer.
LEMMA PeerFacts ==
  ASSUME NetInv
  PROVE  /\ peer \in Peers /\ PeerOK(peer) /\ peer.fin \in 0 .. 2
         /\ peer.una \in SeqNum /\ peer.nxt \in SeqNum /\ peer.rcv \in SeqNum
         /\ Position(peer.una) \in Nat /\ Position(peer.nxt) \in Nat
         /\ Position(peer.nxt) < Modulus
         /\ scenario.bytes \in Nat /\ scenario.bytes + 2 < Modulus /\ Modulus \in Nat
<1>1. /\ peer \in Peers /\ peer.una \in SeqNum /\ peer.nxt \in SeqNum /\ peer.rcv \in SeqNum
      /\ peer.fin \in 0 .. 2
  BY DEF NetInv, NetTypes, Peers
<1> QED
  BY <1>1, PositionType, ScenarioFacts, HalfSpacePositive DEF NetInv, Modulus

LEMMA Here == 1 \in Cores /\ Flow \in Flows /\ Pad \in Pads
BY TcpAssumption, NetAssumption DEF Cores, Flow, Pad

-----------------------------------------------------------------------------
(* What a step of the host does to the receive loop's connection, and what it *)
(* sends and prints: one outcome for each branch of each handler.             *)

\* Connection id becomes d, and what is sent is sent from it and acknowledges its edge.
Stores(id, d) ==
  /\ d \in Connection
  /\ DOMAIN conn' = DOMAIN conn \cup {id} /\ conn'[id] = d
  /\ \A x \in DOMAIN conn : x # id => conn'[x] = conn[x]
  /\ \A o \in tx' : o.by = id /\ o.ack = d.rcv_nxt /\ o.len \in Windows

\* The receive loop's connection becomes d, which keeps its window.
Updates(d) ==
  /\ Slot \in DOMAIN conn /\ Slot' = Slot
  /\ Stores(Slot, d) /\ d.rcv_wnd = conn[Slot].rcv_wnd

Quiet == UNCHANGED <<conn, table>> /\ Slot' = Slot /\ tx' = {} /\ printed' = {}

Listens(g) ==
  /\ Slot = NoConn /\ BareSyn(g) /\ printed' = {}
  /\ \E id \in ConnIds \ DOMAIN conn, d \in Connection :
       /\ Stores(id, d) /\ Slot' \in {id, NoConn}
       /\ d.tcpState = "SYN_RECV" /\ d.rcv_nxt = Plus(g.seq, 1) /\ d.rcv_wnd = g.wnd
       /\ \A o \in tx' : IsSyn(o)

Handshakes(g) ==
  /\ Hears("SYN_RECV") /\ printed' = {}
  /\ \E d \in Connection :
       /\ Updates(d) /\ d.rcv_nxt = conn[Slot].rcv_nxt /\ d.snd_nxt = conn[Slot].snd_nxt
       /\ \/ /\ d.tcpState = "SYN_RECV" /\ IsSyn(g) /\ ~Acceptable(conn[Slot], g)
             /\ \A o \in tx' : IsSyn(o)
          \/ d.tcpState = "ESTABLISHED" /\ Acceptable(conn[Slot], g) /\ tx' = {}

Connects(g) ==
  /\ Hears("SYN_SENT") /\ printed' = {}
  /\ \E d \in Connection :
       /\ Updates(d) /\ d.rcv_nxt = Plus(g.seq, 1) /\ d.snd_nxt = conn[Slot].snd_nxt
       /\ d.tcpState \in {"SYN_SENT", "ESTABLISHED"}
       /\ Answer(g) => d.tcpState = "ESTABLISHED"
       /\ \A o \in tx' : o.flags = {"ACK"}

Advances(g) ==
  /\ Hears("ESTABLISHED") /\ Acceptable(conn[Slot], g) /\ ~IsFin(g)
  /\ \E d \in Connection :
       /\ Updates(d) /\ d.tcpState = "ESTABLISHED" /\ d.snd_nxt = g.ack
       /\ \/ g.len = 0 /\ d.rcv_nxt = conn[Slot].rcv_nxt /\ tx' = {} /\ printed' = {}
          \/ /\ g.len # 0 /\ d.rcv_nxt = DataEnd(g) /\ printed' = Shown(Slot, g)
             /\ \A o \in tx' : o.flags = {"ACK"}

PeerEnds(g) ==
  /\ Hears("ESTABLISHED") /\ Acceptable(conn[Slot], g) /\ IsFin(g) /\ printed' = {}
  /\ \E d \in Connection :
       /\ Updates(d) /\ d.tcpState = "LAST_ACK" /\ d.rcv_nxt = Plus(g.seq, 1)
       /\ \A o \in tx' : o.flags = {"FIN", "ACK"}

CloseEnds(g) ==
  /\ Hears("FIN_WAIT1") /\ Acceptable(conn[Slot], g) /\ printed' = {}
  /\ Slot \in DOMAIN conn /\ Slot' = NoConn
  /\ \E d \in Connection : Stores(Slot, d) /\ d.tcpState = "FIN_WAIT2"

Ends ==
  /\ Hears("LAST_ACK") /\ printed' = {} /\ tx' = {} /\ Slot' = NoConn
  /\ DOMAIN conn' \subseteq DOMAIN conn /\ \A x \in DOMAIN conn' : conn'[x] = conn[x]

Ignores(g) ==
  /\ Quiet
  /\ \/ Slot = NoConn /\ ~BareSyn(g)
     \/ Hears("SYN_RECV") /\ ~Acceptable(conn[Slot], g) /\ ~IsSyn(g)
     \/ Hears("SYN_RECV") /\ Acceptable(conn[Slot], g) /\ ~AckInRange(conn[Slot], g)
     \/ Hears("ESTABLISHED") /\ ~Acceptable(conn[Slot], g)
     \/ Hears("FIN_WAIT1")

HostMoves(g) ==
  \/ Ignores(g) \/ Listens(g) \/ Handshakes(g) \/ Connects(g)
  \/ Advances(g) \/ PeerEnds(g) \/ CloseEnds(g) \/ Ends

\* tcp_tx_packets
LEMMA TransmitStores ==
  ASSUME NEW id \in ConnIds, NEW c \in Connection, NEW len \in Windows,
         NEW final \in States, Transmit(id, c, len, final)
  PROVE  \E d \in Connection :
           /\ Stores(id, d) /\ d.tcpState = final
           /\ d.rcv_nxt = c.rcv_nxt /\ d.rcv_wnd = c.rcv_wnd
           /\ d.snd_nxt = Plus(c.snd_nxt, Taken(c))
           /\ c.tcp_flags \cap {"SYN", "FIN"} = {} => d.snd_nxt = c.snd_nxt
           /\ \A o \in tx' : o.flags = c.tcp_flags /\ o.seq = c.snd_nxt
<1>1. tx' = {Outgoing(id, c, len)}
  BY DEF Transmit
<1> DEFINE d == [AfterTx(c) EXCEPT !.tcpState = final]
<1>2. d = [c EXCEPT !.snd_nxt = Plus(c.snd_nxt, Taken(c)),
                    !.tcp_flags = c.tcp_flags \ {"SYN", "FIN"}, !.tcpState = final]
  BY DEF AfterTx, Connection
<1>3. Plus(c.snd_nxt, Taken(c)) \in SeqNum
  BY TakenRange, PlusType DEF Connection
<1>4. /\ d \in Connection /\ d.tcpState = final
      /\ d.rcv_nxt = c.rcv_nxt /\ d.rcv_wnd = c.rcv_wnd
      /\ d.snd_nxt = Plus(c.snd_nxt, Taken(c))
  BY <1>2, <1>3 DEF Connection
<1>5. conn' = Store(id, d)
  BY DEF Transmit
<1> HIDE DEF d
<1>6. c.tcp_flags \cap {"SYN", "FIN"} = {} => d.snd_nxt = c.snd_nxt
  <2> SUFFICES ASSUME "SYN" \notin c.tcp_flags, "FIN" \notin c.tcp_flags
               PROVE  Plus(c.snd_nxt, Taken(c)) = c.snd_nxt
    BY <1>4
  <2>1. c.snd_nxt \in SeqNum /\ Taken(c) = 0
    BY DEF Connection, Taken
  <2> QED
    BY <2>1, HalfSpacePositive DEF Plus, SeqNum, Modulus
<1>7. Stores(id, d)
  <2>1. \A o \in tx' : o.by = id /\ o.ack = d.rcv_nxt /\ o.len \in Windows
    BY <1>1, <1>4 DEF Outgoing
  <2>2. /\ DOMAIN conn' = DOMAIN conn \cup {id} /\ conn'[id] = d
        /\ \A x \in DOMAIN conn : x # id => conn'[x] = conn[x]
    BY <1>5, StoreFacts
  <2> QED
    BY <1>4, <2>1, <2>2 DEF Stores
<1>8. \A o \in tx' : o.flags = c.tcp_flags /\ o.seq = c.snd_nxt
  BY <1>1 DEF Outgoing
<1> QED
  BY <1>4, <1>6, <1>7, <1>8

\* A handler stores without sending.
LEMMA StoreStores ==
  ASSUME NEW id \in DOMAIN conn, NEW d \in Connection, conn' = Store(id, d), tx' = {}
  PROVE  Stores(id, d)
BY OverwriteFacts DEF Stores

LEMMA SameSlot ==
  ASSUME UNCHANGED <<table, rxPad>>
  PROVE  Slot' = Slot
BY DEF Slot, RxKey

LEMMA SlotDropped ==
  ASSUME NetInv, table' = DelKey(1, RxKey(1, Flow)), rxPad' = rxPad
  PROVE  Slot' = NoConn
BY Here, RxKeyFacts, DelKeyFacts DEF NetInv, IInv, Slot, RxKey

LEMMA DispatchFacts ==
  ASSUME NetInv, NEW st, InState(1, Flow, st)
  PROVE  /\ Found(1, Flow) = Slot /\ Hears(st) /\ Slot \in ConnIds /\ Slot \in DOMAIN conn
         /\ conn[Slot] \in Connection /\ ConnInv(conn[Slot])
         /\ conn[Slot].key = RxKey(1, Flow) /\ conn[Slot].tcpState = st
BY Here, InStateFacts DEF NetInv, IInv, Slot, Found, Hears

\* The sizes of what comes are those of windows, and the states a handler leaves.
LEMMA Lengths ==
  ASSUME NEW g \in Segment, Occupies(g)
  PROVE  /\ g.len \in Windows /\ 0 \in Windows
         /\ {"SYN_SENT", "SYN_RECV", "ESTABLISHED", "FIN_WAIT1", "FIN_WAIT2", "LAST_ACK"}
              \subseteq States
<1>1. g.len = 0 \/ g.len = 1
  BY DEF Occupies
<1>2. 0 \in Windows /\ 1 \in Windows
  BY SeqAssumption DEF Windows
<1> QED
  BY <1>1, <1>2 DEF States

LEMMA ListenOutcome ==
  ASSUME NetInv, NEW g \in Segment, Occupies(g), handle_tcp_listen(1, Flow, g)
  PROVE  HostMoves(g)
<1> DEFINE key == RxKey(1, Flow)
           c == [key |-> key, tcpState |-> "SYN_RECV", una |-> ISS, snd_nxt |-> ISS,
                 irs |-> g.seq, rcv_nxt |-> Plus(g.seq, 1), rcv_wnd |-> g.wnd,
                 tcp_flags |-> {"SYN", "ACK"}]
<1>1. PICK id \in ConnIds \ DOMAIN conn :
        Transmit(id, c, g.len, "SYN_RECV") /\ table' = AddKey(1, key, id)
  BY DEF handle_tcp_listen
<1>2. g.flags = {"SYN"} /\ table[1][key] = NoConn /\ printed' = {} /\ rxPad' = rxPad
  BY DEF handle_tcp_listen, Found
<1>3. key \in Keys
  BY Here, RxKeyFacts DEF NetInv, IInv
<1>4. /\ c \in Connection /\ g.len \in Windows /\ "SYN_RECV" \in States
      /\ c.rcv_nxt = Plus(g.seq, 1) /\ c.rcv_wnd = g.wnd /\ c.tcp_flags = {"SYN", "ACK"}
  BY <1>3, SegmentFacts, Lengths, WindowsFit DEF Connection, Flags, ISS
<1> HIDE DEF c
<1>5. PICK d \in Connection :
        /\ Stores(id, d) /\ d.tcpState = "SYN_RECV"
        /\ d.rcv_nxt = c.rcv_nxt /\ d.rcv_wnd = c.rcv_wnd
        /\ \A o \in tx' : o.flags = c.tcp_flags
  BY <1>1, <1>4, TransmitStores
<1>6. Slot = NoConn /\ Slot' \in {id, NoConn}
  BY <1>1, <1>2, <1>3, Here, AddKeyFacts DEF NetInv, IInv, Slot, RxKey
<1>7. \A o \in tx' : IsSyn(o)
  BY <1>4, <1>5 DEF IsSyn
<1> QED
  BY <1>2, <1>4, <1>5, <1>6, <1>7 DEF HostMoves, Listens, BareSyn

LEMMA SynRecvOutcome ==
  ASSUME NetInv, NEW g \in Segment, Occupies(g), handle_tcp_syn_recv(1, Flow, g)
  PROVE  HostMoves(g)
<1> DEFINE c == conn[Slot]
<1>1. /\ InState(1, Flow, "SYN_RECV") /\ printed' = {}
      /\ table' = table /\ rxPad' = rxPad
  BY DEF handle_tcp_syn_recv
<1>2. /\ Found(1, Flow) = Slot /\ Hears("SYN_RECV") /\ Slot \in ConnIds /\ Slot \in DOMAIN conn
      /\ c \in Connection /\ ConnInv(c) /\ c.tcpState = "SYN_RECV" /\ Slot' = Slot
  BY <1>1, DispatchFacts, SameSlot
<1>3. CASE /\ ~Acceptable(c, g) /\ "SYN" \in g.flags
           /\ Transmit(Slot, Rewound(c), g.len, "SYN_RECV")
  <2> DEFINE r == Rewound(c)
  <2>1. c.snd_nxt = 1 /\ "FIN" \notin c.tcp_flags
    BY <1>2, PositionISS DEF ConnInv
  <2>2. Minus(c.snd_nxt, 1) = 0 /\ 0 \in SeqNum /\ Plus(0, 1) = 1
    BY <2>1, PositionISS, WindowsFit DEF Minus, ISS
  <2>3. /\ r \in Connection /\ r.rcv_nxt = c.rcv_nxt /\ r.rcv_wnd = c.rcv_wnd
        /\ "SYN" \in r.tcp_flags /\ "FIN" \notin r.tcp_flags /\ r.snd_nxt = 0
    BY <1>2, <2>1, <2>2 DEF Rewound, Connection, Flags
  <2> HIDE DEF r
  <2>4. PICK d \in Connection :
          /\ Stores(Slot, d) /\ d.tcpState = "SYN_RECV" /\ d.rcv_nxt = c.rcv_nxt
          /\ d.rcv_wnd = c.rcv_wnd /\ d.snd_nxt = Plus(r.snd_nxt, Taken(r))
          /\ \A o \in tx' : o.flags = r.tcp_flags
    BY <1>2, <1>3, <2>3, Lengths, TransmitStores DEF r
  <2>5. d.snd_nxt = 1
    BY <2>2, <2>3, <2>4 DEF Taken
  <2> QED
    BY <1>1, <1>2, <1>3, <2>1, <2>3, <2>4, <2>5 DEF HostMoves, Handshakes, Updates, IsSyn
<1>4. CASE Silent /\ conn' = Store(Slot, Opened(c, g)) /\ Acceptable(c, g)
  <2> DEFINE d == Opened(c, g)
  <2>1. /\ d \in Connection /\ d.tcpState = "ESTABLISHED" /\ d.rcv_nxt = c.rcv_nxt
        /\ d.rcv_wnd = c.rcv_wnd /\ d.snd_nxt = c.snd_nxt
    BY <1>2 DEF Opened, Connection, States
  <2> HIDE DEF d
  <2>2. Stores(Slot, d) /\ tx' = {}
    BY <1>2, <1>4, <2>1, StoreStores DEF Silent, d
  <2> QED
    BY <1>1, <1>2, <1>4, <2>1, <2>2 DEF HostMoves, Handshakes, Updates
<1>5. CASE /\ Silent /\ UNCHANGED conn
           /\ \/ ~Acceptable(c, g) /\ "SYN" \notin g.flags
              \/ Acceptable(c, g) /\ ~AckInRange(c, g)
  BY <1>1, <1>2, <1>5 DEF HostMoves, Ignores, Quiet, Silent, IsSyn
<1> QED
  BY <1>2, <1>3, <1>4, <1>5 DEF handle_tcp_syn_recv

LEMMA SynSentOutcome ==
  ASSUME NetInv, NEW g \in Segment, Occupies(g), handle_tcp_syn_sent(1, Flow, g)
  PROVE  HostMoves(g)
<1> DEFINE c  == conn[Slot]
           c1 == [c EXCEPT !.tcp_flags = {"ACK"}, !.rcv_nxt = Plus(g.seq, 1)]
           c2 == [c1 EXCEPT !.una = Plus(g.ack, 1)]
<1>1. /\ InState(1, Flow, "SYN_SENT") /\ printed' = {}
      /\ table' = table /\ rxPad' = rxPad
  BY DEF handle_tcp_syn_sent
<1>2. /\ Found(1, Flow) = Slot /\ Hears("SYN_SENT") /\ Slot \in ConnIds /\ Slot \in DOMAIN conn
      /\ c \in Connection /\ ConnInv(c) /\ c.tcpState = "SYN_SENT" /\ Slot' = Slot
  BY <1>1, DispatchFacts, SameSlot
<1>3. Answer(g) => AckInRange(c, g)
  BY <1>2, AnswerInRange DEF ConnInv, Answer
<1>4. \A e \in {c1, c2} :
        /\ e \in Connection /\ e.rcv_nxt = Plus(g.seq, 1) /\ e.rcv_wnd = c.rcv_wnd
        /\ e.snd_nxt = c.snd_nxt /\ e.tcp_flags = {"ACK"}
  <2>1. /\ c1 \in Connection /\ c1.rcv_nxt = Plus(g.seq, 1) /\ c1.rcv_wnd = c.rcv_wnd
        /\ c1.snd_nxt = c.snd_nxt /\ c1.tcp_flags = {"ACK"}
    BY <1>2, SegmentFacts DEF Connection, Flags
  <2> HIDE DEF c1
  <2>2. /\ c2 \in Connection /\ c2.rcv_nxt = c1.rcv_nxt /\ c2.rcv_wnd = c1.rcv_wnd
        /\ c2.snd_nxt = c1.snd_nxt /\ c2.tcp_flags = c1.tcp_flags
    BY <2>1, SegmentFacts DEF Connection
  <2> QED
    BY <2>1, <2>2
<1>5. \E e \in {c1, c2}, final \in {"SYN_SENT", "ESTABLISHED"} :
        /\ Transmit(Slot, e, g.len, final)
        /\ AckInRange(c, g) => final = "ESTABLISHED"
  BY <1>2 DEF handle_tcp_syn_sent
<1> HIDE DEF c1, c2
<1>6. PICK e \in {c1, c2}, final \in {"SYN_SENT", "ESTABLISHED"} :
        /\ Transmit(Slot, e, g.len, final)
        /\ AckInRange(c, g) => final = "ESTABLISHED"
  BY <1>5
<1>7. PICK d \in Connection :
        /\ Stores(Slot, d) /\ d.tcpState = final /\ d.rcv_nxt = Plus(g.seq, 1)
        /\ d.rcv_wnd = c.rcv_wnd /\ d.snd_nxt = c.snd_nxt
        /\ \A o \in tx' : o.flags = {"ACK"}
  BY <1>2, <1>4, <1>6, Lengths, TransmitStores
<1> QED
  BY <1>1, <1>2, <1>3, <1>6, <1>7 DEF HostMoves, Connects, Updates

LEMMA EstablishOutcome ==
  ASSUME NetInv, NEW g \in Segment, Occupies(g), handle_tcp_establish(1, Flow, g)
  PROVE  HostMoves(g)
<1> DEFINE c    == conn[Slot]
           fin  == [c EXCEPT !.tcp_flags = {"FIN", "ACK"}, !.rcv_nxt = Plus(g.seq, 1)]
           bare == [c EXCEPT !.snd_nxt = g.ack]
           dat  == DataReceived(c, g)
<1>1. InState(1, Flow, "ESTABLISHED") /\ table' = table /\ rxPad' = rxPad
  BY DEF handle_tcp_establish
<1>2. /\ Found(1, Flow) = Slot /\ Hears("ESTABLISHED") /\ Slot \in ConnIds
      /\ Slot \in DOMAIN conn /\ c \in Connection /\ c.tcpState = "ESTABLISHED" /\ Slot' = Slot
  BY <1>1, DispatchFacts, SameSlot
<1>3. CASE ~Acceptable(c, g) /\ Silent /\ UNCHANGED conn /\ printed' = {}
  BY <1>1, <1>2, <1>3 DEF HostMoves, Ignores, Quiet, Silent
<1>4. CASE /\ Acceptable(c, g) /\ "FIN" \in g.flags
           /\ Transmit(Slot, fin, g.len, AfterPeerFin) /\ printed' = {}
  <2>1. /\ fin \in Connection /\ fin.rcv_nxt = Plus(g.seq, 1) /\ fin.rcv_wnd = c.rcv_wnd
        /\ fin.tcp_flags = {"FIN", "ACK"}
    BY <1>2, SegmentFacts DEF Connection, Flags
  <2> HIDE DEF fin
  <2>2. PICK d \in Connection :
          /\ Stores(Slot, d) /\ d.tcpState = "LAST_ACK" /\ d.rcv_nxt = Plus(g.seq, 1)
          /\ d.rcv_wnd = c.rcv_wnd /\ \A o \in tx' : o.flags = {"FIN", "ACK"}
    BY <1>2, <1>4, <2>1, Lengths, TransmitStores DEF AfterPeerFin
  <2> QED
    BY <1>1, <1>2, <1>4, <2>2 DEF HostMoves, PeerEnds, Updates, IsFin
<1>5. CASE /\ Acceptable(c, g) /\ "FIN" \notin g.flags /\ g.len = 0
           /\ Silent /\ conn' = Store(Slot, bare) /\ printed' = {}
  <2>1. /\ bare \in Connection /\ bare.tcpState = "ESTABLISHED" /\ bare.rcv_nxt = c.rcv_nxt
        /\ bare.rcv_wnd = c.rcv_wnd /\ bare.snd_nxt = g.ack
    BY <1>2, SegmentFacts DEF Connection
  <2> HIDE DEF bare
  <2>2. Stores(Slot, bare) /\ tx' = {}
    BY <1>2, <1>5, <2>1, StoreStores DEF Silent
  <2> QED
    BY <1>1, <1>2, <1>5, <2>1, <2>2 DEF HostMoves, Advances, Updates, IsFin
<1>6. CASE /\ Acceptable(c, g) /\ "FIN" \notin g.flags /\ g.len # 0
           /\ Transmit(Slot, dat, 0, "ESTABLISHED") /\ printed' = Shown(Slot, g)
  <2>1. /\ dat \in Connection /\ dat.rcv_nxt = DataEnd(g) /\ dat.rcv_wnd = c.rcv_wnd
        /\ dat.snd_nxt = g.ack /\ dat.tcp_flags = {"ACK"}
    BY <1>2, SegmentFacts DEF DataReceived, Connection, Flags
  <2> HIDE DEF dat
  <2>2. PICK d \in Connection :
          /\ Stores(Slot, d) /\ d.tcpState = "ESTABLISHED" /\ d.rcv_nxt = DataEnd(g)
          /\ d.rcv_wnd = c.rcv_wnd /\ d.snd_nxt = g.ack /\ \A o \in tx' : o.flags = {"ACK"}
    BY <1>2, <1>6, <2>1, Lengths, TransmitStores
  <2> QED
    BY <1>1, <1>2, <1>6, <2>2 DEF HostMoves, Advances, Updates, IsFin
<1> QED
  BY <1>2, <1>3, <1>4, <1>5, <1>6 DEF handle_tcp_establish

LEMMA FinWait1Outcome ==
  ASSUME NetInv, NEW g \in Segment, Occupies(g), handle_tcp_fin_wait1(1, Flow, g)
  PROVE  HostMoves(g)
<1> DEFINE c  == conn[Slot]
           c1 == [c EXCEPT !.tcp_flags = {"ACK"}, !.rcv_nxt = Plus(g.seq, 1)]
<1>1. InState(1, Flow, "FIN_WAIT1") /\ rxPad' = rxPad /\ printed' = {}
  BY DEF handle_tcp_fin_wait1
<1>2. /\ Found(1, Flow) = Slot /\ Hears("FIN_WAIT1") /\ Slot \in ConnIds
      /\ Slot \in DOMAIN conn /\ c \in Connection /\ c.key = RxKey(1, Flow)
  BY <1>1, DispatchFacts
<1>3. CASE /\ Acceptable(c, g) /\ Transmit(Slot, c1, 0, "FIN_WAIT2")
           /\ table' = DelKey(1, c.key)
  <2>1. c1 \in Connection
    BY <1>2, SegmentFacts DEF Connection, Flags
  <2> HIDE DEF c1
  <2>2. PICK d \in Connection : Stores(Slot, d) /\ d.tcpState = "FIN_WAIT2"
    BY <1>2, <1>3, <2>1, Lengths, TransmitStores
  <2> QED
    BY <1>1, <1>2, <1>3, <2>2, SlotDropped DEF HostMoves, CloseEnds
<1>4. CASE Silent /\ UNCHANGED <<conn, table>>
  BY <1>1, <1>2, <1>4, SameSlot DEF HostMoves, Ignores, Quiet, Silent
<1> QED
  BY <1>2, <1>3, <1>4 DEF handle_tcp_fin_wait1

LEMMA LastAckOutcome ==
  ASSUME NetInv, NEW g, handle_tcp_last_ack(1, Flow, g)
  PROVE  HostMoves(g)
<1>1. /\ InState(1, Flow, "LAST_ACK") /\ rxPad' = rxPad /\ printed' = {} /\ Silent
      /\ conn' = Without(Found(1, Flow)) /\ table' = DelKey(1, conn[Found(1, Flow)].key)
  BY DEF handle_tcp_last_ack, Unfile
<1>2. /\ Found(1, Flow) = Slot /\ Hears("LAST_ACK") /\ conn[Slot].key = RxKey(1, Flow)
  BY <1>1, DispatchFacts
<1>3. DOMAIN conn' = DOMAIN conn \ {Slot} /\ \A x \in DOMAIN conn' : conn'[x] = conn[x]
  BY <1>1, <1>2 DEF Without
<1> QED
  BY <1>1, <1>2, <1>3, SlotDropped DEF HostMoves, Ends, Silent

LEMMA ReceiveOutcome ==
  ASSUME NetInv, NEW g \in Segment, Occupies(g), Receive(1, Flow, g)
  PROVE  HostMoves(g)
<1>1. CASE IgnoreUnknown(1, Flow, g)
  BY <1>1, SameSlot
  DEF IgnoreUnknown, Silent, HostMoves, Ignores, Quiet, BareSyn, Slot, Found
<1> QED
  BY <1>1, ListenOutcome, SynRecvOutcome, SynSentOutcome, EstablishOutcome,
     FinWait1Outcome, LastAckOutcome DEF Receive

-----------------------------------------------------------------------------
(* What a step of the peer does: it takes a segment or not, and sends none, a *)
(* reset, a SYN, a bare acknowledgement, or bytes and FIN.                    *)

TakesOldest == toPeer # <<>> /\ toPeer' = Tail(toPeer)

\* The acknowledgement of the host's SYN, which nothing has followed yet.
Opener(g) == g.flags = {"ACK"} /\ g.len = 0 /\ g.ack = 1 /\ Position(g.seq) = 1

KeepsStream == peer'.nxt = peer.nxt /\ peer'.fin = peer.fin

SilentMove ==
  /\ TakesOldest /\ toHost' = toHost
  /\ KeepsStream /\ peer'.reset = peer.reset
  /\ \/ peer'.st = peer.st
     \/ peer.st = "SYN_RECV" /\ peer'.st = "OPEN" /\ ~IsSyn(Head(toPeer))
  /\ peer.st \in {"CLOSED", "SYN_SENT"} => ~BareSyn(Head(toPeer))

\* The segment cannot be placed.
ResetMove(g) ==
  /\ TakesOldest /\ peer' = [peer EXCEPT !.reset = TRUE]
  /\ ~IsSyn(g) /\ ~Starts(g)
  /\ \/ peer.st = "CLOSED" /\ (scenario.opens \/ "ACK" \in Head(toPeer).flags)
     \/ /\ peer.st \in {"SYN_SENT", "SYN_RECV"}
        /\ "ACK" \in Head(toPeer).flags /\ Head(toPeer).ack # peer.nxt

SynMove(g) ==
  /\ IsSyn(g) /\ ~Starts(g) /\ Answer(g) /\ peer'.reset = peer.reset
  /\ peer.st # "OPEN" /\ peer'.st \in {"SYN_SENT", "SYN_RECV"} /\ Limit(peer') = 1
  /\ BareSyn(g) <=> peer'.st = "SYN_SENT"
  /\ peer'.st = "SYN_SENT" => peer.st \in {"CLOSED", "SYN_SENT"} /\ toPeer' = toPeer
  /\ peer'.st = "SYN_RECV" => (peer.st = "SYN_RECV" /\ toPeer' = toPeer) \/ TakesOldest

AckMove(g) ==
  /\ TakesOldest /\ g.flags = {"ACK"} /\ g.len = 0
  /\ KeepsStream /\ peer'.reset = peer.reset
  /\ peer.st # "CLOSED" /\ peer'.st \in {"SYN_RECV", "OPEN"}
  /\ peer'.st = "SYN_RECV" => peer.st = "SYN_RECV" /\ Opener(g) /\ ~PeerAccepts(Head(toPeer))
  /\ peer.st # "OPEN" /\ IsSyn(Head(toPeer)) => Opener(g)
  /\ peer.st = "SYN_SENT" => ~BareSyn(Head(toPeer))

StreamMove(g) ==
  /\ toPeer' = toPeer /\ ~IsSyn(g) /\ Starts(g)
  /\ peer.st = "OPEN" /\ peer'.st = "OPEN" /\ peer'.reset = peer.reset
  /\ scenario.window = 1 => g.seq = peer.una
  /\ \/ Limit(peer') = Limit(peer)
     \/ /\ peer.fin = 0 /\ IsData(g)
        /\ Position(g.seq) = Limit(peer) /\ Limit(peer') = Limit(peer) + 1

PeerMoves ==
  /\ UNCHANGED <<vars, scenario, shown>>
  /\ peer' \in Peers /\ PeerOK(peer)'
  /\ Position(peer.nxt) <= Position(peer'.nxt) /\ Limit(peer) <= Limit(peer')
  /\ toPeer' = toPeer \/ TakesOldest
  /\ \/ peer'.una = peer.una
     \/ TakesOldest /\ "ACK" \in Head(toPeer).flags /\ peer'.una = Head(toPeer).ack
  /\ \/ SilentMove
     \/ \E g \in Segment : /\ toHost' = Append(toHost, g) /\ Occupies(g)'
                           /\ ResetMove(g) \/ SynMove(g) \/ AckMove(g) \/ StreamMove(g)

\* The segment of PeerSends.
FromPeer(p, flags, seq, len) ==
  [flags |-> flags, seq |-> seq, ack |-> IF "ACK" \in flags THEN p.rcv ELSE 0,
   wnd |-> MaxWindow, len |-> len]

LEMMA FromPeerType ==
  ASSUME NEW p \in Peers, NEW flags \in SUBSET Flags, NEW seq \in SeqNum, NEW len \in {0, 1}
  PROVE  FromPeer(p, flags, seq, len) \in Segment
<1>1. MaxWindow \in Windows /\ len \in Sizes
  BY SeqAssumption DEF Windows, Sizes
<1>2. p.rcv \in SeqNum /\ 0 \in SeqNum
  BY WindowsFit DEF Peers
<1> QED
  BY <1>1, <1>2 DEF Segment, FromPeer

LEMMA SentSegment ==
  ASSUME NEW p \in Peers, NEW flags \in SUBSET Flags, NEW seq \in SeqNum, NEW len \in {0, 1},
         PeerSends(p, flags, seq, len), NEW g, g = FromPeer(p, flags, seq, len)
  PROVE  /\ peer' = p /\ g \in Segment /\ toHost' = Append(toHost, g)
         /\ g.flags = flags /\ g.seq = seq /\ g.len = len /\ g.wnd = MaxWindow
         /\ "ACK" \in flags => g.ack = p.rcv
         /\ "ACK" \notin flags => g.ack = 0
<1>1. g \in Segment
  BY FromPeerType
<1> QED
  BY <1>1 DEF PeerSends, Sends, FromPeer

\* A SYN, or a SYN,ACK.
LEMMA SynSent ==
  ASSUME NetInv, UNCHANGED <<vars, scenario, shown>>, NEW p \in Peers, NEW flags,
         PeerSends(p, flags, PeerISS, 0), peer.st # "OPEN",
         \/ flags = {"SYN"} /\ p.st = "SYN_SENT" /\ p.rcv = 0
         \/ flags = {"SYN", "ACK"} /\ p.st = "SYN_RECV" /\ p.rcv = 1,
         p.nxt = Plus(PeerISS, 1), p.una = peer.una, p.fin = peer.fin, p.reset = peer.reset,
         \/ toPeer' = toPeer /\ (p.st = "SYN_SENT" => peer.st \in {"CLOSED", "SYN_SENT"})
                             /\ (p.st = "SYN_RECV" => peer.st = "SYN_RECV")
         \/ TakesOldest /\ p.st = "SYN_RECV"
  PROVE  PeerMoves
<1>1. /\ flags \in SUBSET Flags /\ "SYN" \in flags /\ "FIN" \notin flags
      /\ flags = {"SYN"} <=> p.st = "SYN_SENT"
      /\ p.st \in {"SYN_SENT", "SYN_RECV"}
      /\ IF "ACK" \in flags THEN p.rcv = 1 ELSE p.rcv = 0
  <2>1. CASE flags = {"SYN"} /\ p.st = "SYN_SENT" /\ p.rcv = 0
    BY <2>1 DEF Flags
  <2>2. CASE flags = {"SYN", "ACK"} /\ p.st = "SYN_RECV" /\ p.rcv = 1
    <3>1. {"SYN", "ACK"} # {"SYN"}
      OBVIOUS
    <3> QED
      BY <2>2, <3>1 DEF Flags
  <2> QED
    BY <2>1, <2>2
<1> DEFINE g == FromPeer(p, flags, PeerISS, 0)
<1>2. /\ peer' = p /\ g \in Segment /\ toHost' = Append(toHost, g)
      /\ g.flags = flags /\ g.seq = PeerISS /\ g.len = 0 /\ g.wnd = MaxWindow
      /\ g.ack \in {0, 1}
  BY <1>1, SentSegment, PositionISS
<1> HIDE DEF g
<1>4. /\ peer.una = PeerISS /\ peer.fin = 0 /\ Position(peer.nxt) \in {0, 1}
      /\ Position(p.nxt) = 1
  BY PeerFacts, PositionISS DEF PeerOK, Peers
<1>5. PeerOK(peer)' /\ Limit(peer') = 1 /\ Limit(peer) <= 1 /\ Limit(peer) \in Int
  BY <1>2, <1>4 DEF PeerOK, Limit
<1>6. Occupies(g)'
  BY <1>1, <1>2, <1>4, PositionISS DEF Occupies, IsSyn, IsFin, IsData, Starts
<1>7. SynMove(g)
  BY <1>1, <1>2, <1>5 DEF SynMove, IsSyn, IsFin, Starts, Answer, BareSyn
<1> QED
  BY <1>2, <1>4, <1>5, <1>6, <1>7 DEF PeerMoves

LEMMA PeerOpenMoves ==
  ASSUME NetInv, UNCHANGED <<vars, scenario, shown>>, toPeer' = toPeer, PeerOpen
  PROVE  PeerMoves
<1> DEFINE p == [peer EXCEPT !.st = "SYN_SENT", !.nxt = Plus(PeerISS, 1)]
<1>1. peer.st = "CLOSED" /\ PeerSends(p, {"SYN"}, PeerISS, 0)
  BY DEF PeerOpen
<1>2. peer \in Peers /\ peer.rcv = 0
  BY <1>1, PeerFacts DEF PeerOK
<1>3. /\ p \in Peers /\ p.st = "SYN_SENT" /\ p.nxt = Plus(PeerISS, 1) /\ p.rcv = 0
      /\ p.una = peer.una /\ p.fin = peer.fin /\ p.reset = peer.reset
  BY <1>2, PositionISS DEF Peers
<1> HIDE DEF p
<1> QED
  BY <1>1, <1>3, SynSent

\* Bytes, or the FIN.
LEMMA StreamSent ==
  ASSUME NetInv, UNCHANGED <<vars, scenario, shown>>, toPeer' = toPeer,
         NEW p \in Peers, NEW flags \in {{"ACK", "PSH"}, {"FIN", "ACK"}}, NEW seq \in SeqNum,
         NEW len \in {0, 1}, PeerSends(p, flags, seq, len),
         peer.st = "OPEN", p.st = "OPEN", p.una = peer.una, p.reset = peer.reset,
         PeerOK(p), Position(peer.nxt) <= Position(p.nxt), Position(seq) + 1 <= Position(p.nxt),
         len # 0 => Position(seq) \in 1 .. scenario.bytes,
         scenario.window = 1 => seq = peer.una,
         IF "FIN" \in flags
         THEN Limit(p) = Limit(peer) /\ Limit(p) <= Position(seq)
         ELSE /\ len = 1 /\ Position(seq) < Limit(p)
              /\ \/ Limit(p) = Limit(peer)
                 \/ /\ peer.fin = 0
                    /\ Position(seq) = Limit(peer) /\ Limit(p) = Limit(peer) + 1
  PROVE  PeerMoves
<1>1. flags \in SUBSET Flags /\ "SYN" \notin flags
  BY DEF Flags
<1> DEFINE g == FromPeer(p, flags, seq, len)
<1>2. g \in Segment
  BY <1>1, FromPeerType
<1>3. /\ peer' = p /\ g \in Segment /\ toHost' = Append(toHost, g)
      /\ g.flags = flags /\ g.seq = seq /\ g.len = len
  BY <1>2 DEF PeerSends, Sends, FromPeer
<1> HIDE DEF g
<1>4. PeerOK(peer)' /\ Limit(peer) <= Limit(peer')
  BY <1>3, PeerFacts DEF PeerOK, Limit
<1>5. Occupies(g)'
  BY <1>1, <1>3 DEF Occupies, IsSyn, IsFin, IsData, Starts
<1>6. StreamMove(g)
  BY <1>1, <1>3 DEF StreamMove, IsSyn, IsFin, IsData, Starts
<1> QED
  BY <1>3, <1>4, <1>5, <1>6 DEF PeerMoves

LEMMA MayStartFacts ==
  ASSUME NetInv, MayStart, peer.st = "OPEN"
  PROVE  scenario.window = 1 => peer.nxt = peer.una
<1> SUFFICES ASSUME scenario.window = 1 PROVE peer.nxt = peer.una
  OBVIOUS
<1>1. Position(peer.nxt) - Position(peer.una) < 1
  BY DEF MayStart, Unacked
<1>2. Position(peer.nxt) = Position(peer.una)
  BY <1>1, PeerFacts DEF PeerOK
<1> QED
  BY <1>2, PeerFacts, PositionInjective

LEMMA PeerSendMoves ==
  ASSUME NetInv, UNCHANGED <<vars, scenario, shown>>, toPeer' = toPeer, PeerSend
  PROVE  PeerMoves
<1> DEFINE p == [peer EXCEPT !.nxt = Plus(@, 1)]
<1>1. /\ peer.st = "OPEN" /\ peer.fin = 0 /\ Position(peer.nxt) <= scenario.bytes
      /\ MayStart /\ PeerSends(p, {"ACK", "PSH"}, peer.nxt, 1)
  BY DEF PeerSend, HasBytes
<1>2. Plus(peer.nxt, 1) \in SeqNum /\ Position(Plus(peer.nxt, 1)) = Position(peer.nxt) + 1
  BY <1>1, PeerFacts, PositionNext
<1>3. /\ p \in Peers /\ p.st = "OPEN" /\ p.nxt = Plus(peer.nxt, 1)
      /\ p.una = peer.una /\ p.fin = 0 /\ p.reset = peer.reset
  BY <1>1, <1>2, PeerFacts DEF Peers
<1> HIDE DEF p
<1>4. /\ 1 <= Position(peer.una) /\ Position(peer.una) <= Position(peer.nxt)
      /\ Limit(peer) = Position(peer.nxt) /\ Limit(p) = Position(peer.nxt) + 1
  BY <1>1, <1>2, <1>3, PeerFacts DEF PeerOK, Limit
<1>5. PeerOK(p)
  BY <1>1, <1>2, <1>3, <1>4, PeerFacts DEF PeerOK
<1>6. /\ Position(peer.nxt) <= Position(p.nxt) /\ Position(peer.nxt) + 1 <= Position(p.nxt)
      /\ Position(peer.nxt) \in 1 .. scenario.bytes /\ Position(peer.nxt) < Limit(p)
      /\ "FIN" \notin {"ACK", "PSH"} /\ peer.nxt \in SeqNum
  BY <1>1, <1>2, <1>3, <1>4, PeerFacts
<1> QED
  BY <1>1, <1>3, <1>4, <1>5, <1>6, MayStartFacts, StreamSent

LEMMA PeerCloseMoves ==
  ASSUME NetInv, UNCHANGED <<vars, scenario, shown>>, toPeer' = toPeer, PeerClose
  PROVE  PeerMoves
<1> DEFINE p(k) == [peer EXCEPT !.nxt = Plus(@, k), !.fin = k]
<1>1. PICK k \in {1, 2} :
        /\ peer.st = "OPEN" /\ peer.fin = 0 /\ MayStart
        /\ PeerSends(p(k), {"FIN", "ACK"}, peer.nxt, k - 1)
        /\ k = 2 => Position(peer.nxt) <= scenario.bytes
  <2>1. CASE PeerSends([peer EXCEPT !.nxt = Plus(@, 1), !.fin = 1], {"FIN", "ACK"}, peer.nxt, 0)
    BY <2>1 DEF PeerClose
  <2>2. CASE /\ Position(peer.nxt) <= scenario.bytes
             /\ PeerSends([peer EXCEPT !.nxt = Plus(@, 2), !.fin = 2], {"FIN", "ACK"}, peer.nxt, 1)
    BY <2>2 DEF PeerClose
  <2> QED
    BY <2>1, <2>2 DEF PeerClose, HasBytes
<1>2. /\ 1 <= Position(peer.una) /\ Position(peer.una) <= Position(peer.nxt)
      /\ Limit(peer) = Position(peer.nxt) /\ Position(peer.nxt) <= scenario.bytes + 1
  BY <1>1, PeerFacts DEF PeerOK, Limit
<1>3. Plus(peer.nxt, k) \in SeqNum /\ Position(Plus(peer.nxt, k)) = Position(peer.nxt) + k
  <2>1. Position(peer.nxt) + k < Modulus
    BY <1>1, <1>2, PeerFacts
  <2> QED
    BY <2>1, PeerFacts, PositionNext
<1>4. /\ p(k) \in Peers /\ p(k).st = "OPEN" /\ p(k).nxt = Plus(peer.nxt, k)
      /\ p(k).una = peer.una /\ p(k).fin = k /\ p(k).reset = peer.reset
  <2>1. k \in 0 .. 2
    OBVIOUS
  <2> QED
    BY <1>1, <1>3, <2>1, PeerFacts DEF Peers
<1> HIDE DEF p
<1>5. Limit(p(k)) = Position(peer.nxt)
  BY <1>3, <1>4, PeerFacts DEF Limit
<1>6. PeerOK(p(k))
  BY <1>1, <1>2, <1>3, <1>4, <1>5, PeerFacts DEF PeerOK
<1>7. /\ Position(peer.nxt) <= Position(p(k).nxt) /\ Position(peer.nxt) + 1 <= Position(p(k).nxt)
      /\ k - 1 # 0 => Position(peer.nxt) \in 1 .. scenario.bytes
      /\ "FIN" \in {"FIN", "ACK"} /\ peer.nxt \in SeqNum /\ k - 1 \in {0, 1}
      /\ Limit(p(k)) = Limit(peer) /\ Limit(p(k)) <= Position(peer.nxt)
  BY <1>1, <1>2, <1>3, <1>4, <1>5, PeerFacts
<1> QED
  BY <1>1, <1>4, <1>6, <1>7, MayStartFacts, StreamSent

LEMMA PeerTimeoutMoves ==
  ASSUME NetInv, UNCHANGED <<vars, scenario, shown>>, toPeer' = toPeer, PeerTimeout
  PROVE  PeerMoves
<1>1. CASE \/ peer.st = "SYN_SENT" /\ PeerSends(peer, {"SYN"}, PeerISS, 0)
           \/ peer.st = "SYN_RECV" /\ PeerSends(peer, {"SYN", "ACK"}, PeerISS, 0)
  <2>1. /\ peer \in Peers /\ peer.nxt = Plus(PeerISS, 1)
        /\ peer.st = "SYN_SENT" => peer.rcv = 0
        /\ peer.st = "SYN_RECV" => peer.rcv = 1
    BY <1>1, PeerFacts, PositionISS, PositionInjective DEF PeerOK
  <2> QED
    BY <1>1, <2>1, SynSent
<1>2. CASE peer.st = "OPEN"
  <2>1. /\ 1 <= Position(peer.una) /\ Position(peer.una) <= Position(peer.nxt)
        /\ Limit(peer) \in 1 .. scenario.bytes + 1
        /\ Limit(peer) = Position(peer.nxt) - peer.fin
        /\ Position(peer.nxt) <= scenario.bytes + (IF peer.fin = 0 THEN 1 ELSE 2)
    BY <1>2, PeerFacts DEF PeerOK, Limit
  <2>2. Position(peer.una) + 1 <= Position(peer.nxt)
    BY <2>1, PeerFacts, PositionInjective DEF PeerTimeout
  <2>3. /\ Position(peer.nxt) <= Position(peer.nxt) /\ Limit(peer) = Limit(peer)
        /\ peer \in Peers /\ PeerOK(peer) /\ peer.una \in SeqNum
        /\ "FIN" \in {"FIN", "ACK"} /\ "FIN" \notin {"ACK", "PSH"}
    BY PeerFacts
  <2>4. CASE Unacked <= peer.fin /\ PeerSends(peer, {"FIN", "ACK"}, peer.una, Unacked - 1)
    <3>1. /\ Unacked - 1 \in {0, 1} /\ Limit(peer) <= Position(peer.una)
          /\ Unacked - 1 # 0 => Position(peer.una) \in 1 .. scenario.bytes
      BY <2>1, <2>2, <2>4, PeerFacts DEF Unacked
    <3> QED
      BY <1>2, <2>2, <2>3, <2>4, <3>1, StreamSent
  <2>5. CASE Unacked > peer.fin /\ PeerSends(peer, {"ACK", "PSH"}, peer.una, 1)
    <3>1. Position(peer.una) < Limit(peer) /\ Position(peer.una) \in 1 .. scenario.bytes
      BY <2>1, <2>2, <2>5, PeerFacts DEF Unacked
    <3> QED
      BY <1>2, <2>2, <2>3, <2>5, <3>1, StreamSent
  <2>6. Unacked <= peer.fin \/ Unacked > peer.fin
    BY PeerFacts DEF Unacked
  <2> QED
    BY <1>2, <2>4, <2>5, <2>6 DEF PeerTimeout
<1> QED
  BY <1>1, <1>2 DEF PeerTimeout

\* The segment that the peer takes from its queue.
LEMMA TakenFacts ==
  ASSUME NetInv, TakesOldest, NEW g, g = Head(toPeer)
  PROVE  /\ toPeer' \in Seq(Output) /\ Elements(toPeer') \subseteq Elements(toPeer)
         /\ g \in Elements(toPeer) /\ g \in Output /\ g.seq \in SeqNum /\ g.ack \in SeqNum
         /\ Position(g.ack) \in Nat
         /\ g.len \in Windows /\ Content(g) \in 0 .. Modulus
         /\ Plus(g.seq, 1) \in SeqNum /\ Plus(g.seq, Content(g)) \in SeqNum
         /\ IsSyn(g) => Plus(g.seq, 1) = 1
<1>1. /\ toPeer' \in Seq(Output) /\ Elements(toPeer') \subseteq Elements(toPeer)
      /\ g \in Elements(toPeer) /\ g \in Output /\ g.seq \in SeqNum /\ g.ack \in SeqNum
      /\ g.len \in Windows /\ (IsSyn(g) => g.seq = ISS)
  <2>1. toPeer \in Seq(Output) /\ toPeer # <<>> /\ toPeer' = Tail(toPeer)
    BY DEF TakesOldest, NetInv, NetTypes
  <2>2. /\ toPeer' \in Seq(Output) /\ Elements(toPeer') \subseteq Elements(toPeer)
        /\ g \in Elements(toPeer) /\ g \in Output
    BY <2>1, TailFacts
  <2>3. g.seq \in SeqNum /\ g.ack \in SeqNum
    BY <2>2 DEF Output
  <2> QED
    BY <2>2, <2>3 DEF NetInv, ToPeerInv
<1>2. Content(g) \in 0 .. Modulus /\ 1 \in 0 .. Modulus
  BY <1>1, SeqAssumption DEF Content, Windows, Modulus
<1> QED
  BY <1>1, <1>2, PlusType, PositionType, PositionISS

LEMMA ResetSent ==
  ASSUME NetInv, UNCHANGED <<vars, scenario, shown>>, TakesOldest, Resets(Head(toPeer)),
         \/ peer.st = "CLOSED" /\ (scenario.opens \/ "ACK" \in Head(toPeer).flags)
         \/ /\ peer.st \in {"SYN_SENT", "SYN_RECV"}
            /\ "ACK" \in Head(toPeer).flags /\ Head(toPeer).ack # peer.nxt
  PROVE  PeerMoves
<1> DEFINE g == Head(toPeer)
<1>0. PICK r :
        r = IF "ACK" \in g.flags
            THEN [flags |-> {"RST"}, seq |-> g.ack, ack |-> 0, wnd |-> 0, len |-> 0]
            ELSE [flags |-> {"RST", "ACK"}, seq |-> 0, ack |-> Plus(g.seq, Content(g)),
                  wnd |-> 0, len |-> 0]
  OBVIOUS
<1>1. peer' = [peer EXCEPT !.reset = TRUE] /\ toHost' = Append(toHost, r)
  BY <1>0 DEF Resets, Sends
<1>2. 0 \in Windows /\ 0 \in Sizes /\ 0 \in SeqNum
  BY WindowSizes, WindowsFit, SeqAssumption DEF Windows
<1>3. r \in Segment /\ "SYN" \notin r.flags /\ "FIN" \notin r.flags /\ r.len = 0
  BY <1>0, <1>2, TakenFacts DEF Segment, Flags
<1>4. /\ peer' \in Peers /\ peer'.st = peer.st /\ peer'.una = peer.una /\ peer'.nxt = peer.nxt
      /\ peer'.rcv = peer.rcv /\ peer'.fin = peer.fin
  BY <1>1, PeerFacts DEF Peers
<1>5. PeerOK(peer)' /\ Limit(peer') = Limit(peer) /\ Limit(peer) \in Int
  BY <1>4, PeerFacts DEF PeerOK, Limit
<1>6. ~IsSyn(r) /\ ~IsFin(r) /\ ~Starts(r) /\ ~IsData(r)
  BY <1>3 DEF IsSyn, IsFin, IsData, Starts
<1>7. Occupies(r)'
  BY <1>3, <1>6 DEF Occupies, IsSyn, IsFin, IsData, Starts
<1>8. ResetMove(r)
  BY <1>1, <1>6 DEF ResetMove
<1>9. /\ Position(peer.nxt) <= Position(peer'.nxt) /\ Limit(peer) <= Limit(peer')
  BY <1>4, <1>5, PeerFacts
<1> QED
  BY <1>1, <1>3, <1>4, <1>5, <1>7, <1>8, <1>9 DEF PeerMoves, TakesOldest

\* A bare acknowledgement.
LEMMA AckSegment ==
  ASSUME NEW p \in Peers, NEW seq \in SeqNum, PeerSends(p, {"ACK"}, seq, 0),
         NEW g, g = FromPeer(p, {"ACK"}, seq, 0)
  PROVE  /\ peer' = p /\ g \in Segment /\ toHost' = Append(toHost, g)
         /\ g.flags = {"ACK"} /\ g.seq = seq /\ g.len = 0 /\ g.ack = p.rcv
<1>1. {"ACK"} \in SUBSET Flags
  BY DEF Flags
<1>2. g \in Segment
  BY <1>1, FromPeerType, 0 \in {0, 1}
<1> QED
  BY <1>2 DEF PeerSends, Sends, FromPeer

LEMMA AckSent ==
  ASSUME NetInv, UNCHANGED <<vars, scenario, shown>>, TakesOldest, NEW p \in Peers, PeerOK(p),
         PeerSends(p, {"ACK"}, peer.nxt, 0),
         p.nxt = peer.nxt, p.fin = peer.fin, p.reset = peer.reset,
         \/ p.una = peer.una
         \/ "ACK" \in Head(toPeer).flags /\ p.una = Head(toPeer).ack,
         peer.st # "CLOSED", p.st \in {"SYN_RECV", "OPEN"},
         p.st = "SYN_RECV" => peer.st = "SYN_RECV" /\ ~PeerAccepts(Head(toPeer)),
         peer.st # "OPEN" /\ IsSyn(Head(toPeer)) => p.rcv = 1,
         peer.st = "SYN_SENT" => ~BareSyn(Head(toPeer))
  PROVE  PeerMoves
<1>0. PICK g, seq : g = FromPeer(p, {"ACK"}, seq, 0) /\ seq = peer.nxt
  OBVIOUS
<1>1. "SYN" \notin {"ACK"} /\ "FIN" \notin {"ACK"} /\ seq \in SeqNum
  BY <1>0, PeerFacts
<1>2. /\ peer' = p /\ g \in Segment /\ toHost' = Append(toHost, g)
      /\ g.flags = {"ACK"} /\ g.seq = seq /\ g.len = 0 /\ g.ack = p.rcv
  BY <1>0, <1>1, AckSegment
<1>3. /\ p.st = "SYN_RECV" => p.rcv = 1
      /\ peer.st \in {"SYN_SENT", "SYN_RECV"} => Position(peer.nxt) = 1
      /\ peer.st \in {"SYN_SENT", "SYN_RECV", "OPEN"}
  BY PeerFacts DEF PeerOK, Peers
<1>4. PeerOK(peer)' /\ Limit(peer') = Limit(peer) /\ Limit(peer) \in Int
  BY <1>2, PeerFacts DEF PeerOK, Limit
<1>5. ~IsSyn(g) /\ ~IsFin(g) /\ ~Starts(g) /\ ~IsData(g)
  BY <1>1, <1>2 DEF IsSyn, IsFin, IsData, Starts
<1>6. Occupies(g)'
  BY <1>2, <1>5 DEF Occupies, IsSyn, IsFin, IsData, Starts
<1>7. AckMove(g)
  BY <1>0, <1>2, <1>3 DEF AckMove, KeepsStream, Opener
<1>8. /\ Position(peer.nxt) <= Position(peer'.nxt) /\ Limit(peer) <= Limit(peer')
      /\ \/ peer'.una = peer.una
         \/ "ACK" \in Head(toPeer).flags /\ peer'.una = Head(toPeer).ack
  BY <1>2, <1>4, PeerFacts
<1> QED
  BY <1>2, <1>4, <1>6, <1>7, <1>8 DEF PeerMoves

LEMMA DroppedMoves ==
  ASSUME NetInv, UNCHANGED <<vars, scenario, shown>>, TakesOldest, Drops,
         peer.st \in {"CLOSED", "SYN_SENT"} => ~BareSyn(Head(toPeer))
  PROVE  PeerMoves
<1>1. peer' = peer /\ toHost' = toHost
  BY DEF Drops
<1>2. PeerOK(peer)' /\ Limit(peer') = Limit(peer) /\ Limit(peer) \in Int
  BY <1>1, PeerFacts DEF PeerOK, Limit
<1>3. SilentMove
  BY <1>1 DEF SilentMove, KeepsStream
<1> QED
  BY <1>1, <1>2, <1>3, PeerFacts DEF PeerMoves

LEMMA GetsSynMoves ==
  ASSUME NetInv, UNCHANGED <<vars, scenario, shown>>, TakesOldest, GetsSyn(Head(toPeer)),
         IsSyn(Head(toPeer)), peer.st \in {"CLOSED", "SYN_SENT"}
  PROVE  PeerMoves
<1> DEFINE p == [peer EXCEPT !.st = "SYN_RECV", !.nxt = Plus(PeerISS, 1),
                             !.rcv = Plus(Head(toPeer).seq, 1)]
<1>1. PeerSends(p, {"SYN", "ACK"}, PeerISS, 0)
  BY DEF GetsSyn
<1>2. Plus(Head(toPeer).seq, 1) = 1 /\ 1 \in SeqNum
  BY TakenFacts, WindowsFit
<1>3. /\ p \in Peers /\ p.st = "SYN_RECV" /\ p.nxt = Plus(PeerISS, 1) /\ p.rcv = 1
      /\ p.una = peer.una /\ p.fin = peer.fin /\ p.reset = peer.reset
  BY <1>2, PeerFacts, PositionISS DEF Peers
<1> HIDE DEF p
<1> QED
  BY <1>1, <1>3, SynSent

LEMMA ClosedPeerMoves ==
  ASSUME NetInv, UNCHANGED <<vars, scenario, shown>>, TakesOldest,
         peer.st = "CLOSED", ClosedPeerGets(Head(toPeer))
  PROVE  PeerMoves
<1> DEFINE g == Head(toPeer)
<1>1. CASE (scenario.opens \/ "ACK" \in g.flags) /\ Resets(g)
  BY <1>1, ResetSent
<1>2. CASE "SYN" \in g.flags /\ GetsSyn(g)
  BY <1>2, GetsSynMoves DEF IsSyn
<1>3. CASE "SYN" \notin g.flags /\ Drops
  BY <1>3, DroppedMoves DEF BareSyn
<1> QED
  BY <1>1, <1>2, <1>3 DEF ClosedPeerGets

LEMMA SynSentPeerMoves ==
  ASSUME NetInv, UNCHANGED <<vars, scenario, shown>>, TakesOldest,
         peer.st = "SYN_SENT", SynSentPeerGets(Head(toPeer))
  PROVE  PeerMoves
<1> DEFINE g == Head(toPeer)
           p == [peer EXCEPT !.st = "OPEN", !.una = g.ack, !.rcv = Plus(g.seq, 1)]
<1>1. CASE "ACK" \in g.flags /\ g.ack # peer.nxt /\ Resets(g)
  BY <1>1, ResetSent
<1>2. CASE /\ "ACK" \in g.flags /\ g.ack = peer.nxt /\ "SYN" \in g.flags
           /\ PeerSends(p, {"ACK"}, peer.nxt, 0)
  <2>1. Plus(g.seq, 1) = 1 /\ 1 \in SeqNum
    BY <1>2, TakenFacts, WindowsFit DEF IsSyn
  <2>2. /\ p \in Peers /\ p.st = "OPEN" /\ p.una = g.ack /\ p.nxt = peer.nxt /\ p.rcv = 1
        /\ p.fin = peer.fin /\ p.reset = peer.reset
    BY <1>2, <2>1, PeerFacts DEF Peers
  <2> HIDE DEF p
  <2>3. Position(peer.nxt) = 1 /\ peer.fin = 0
    BY PeerFacts DEF PeerOK
  <2>4. PeerOK(p)
    BY <1>2, <2>2, <2>3, PeerFacts DEF PeerOK, Limit
  <2>5. ~BareSyn(g)
    BY <1>2 DEF BareSyn
  <2> QED
    BY <1>2, <2>2, <2>4, <2>5, AckSent
<1>3. CASE "SYN" \in g.flags /\ GetsSyn(g)
  BY <1>3, GetsSynMoves DEF IsSyn
<1>4. CASE "SYN" \notin g.flags /\ Drops
  BY <1>4, DroppedMoves DEF BareSyn
<1> QED
  BY <1>1, <1>2, <1>3, <1>4 DEF SynSentPeerGets

LEMMA SyncedPeerMoves ==
  ASSUME NetInv, UNCHANGED <<vars, scenario, shown>>, TakesOldest,
         peer.st \in {"SYN_RECV", "OPEN"}, SyncedPeerGets(Head(toPeer))
  PROVE  PeerMoves
<1> DEFINE g  == Head(toPeer)
           p  == PeerAcked(g)
           p1 == [p EXCEPT !.rcv = Plus(g.seq, Content(g)), !.finGot = @ \/ "FIN" \in g.flags]
<1>1. /\ peer \in Peers /\ PeerOK(peer) /\ peer.nxt \in SeqNum /\ peer.una \in SeqNum
      /\ Position(peer.nxt) \in Nat /\ Position(peer.una) \in Nat
      /\ peer.st = "SYN_RECV" => peer.rcv = 1 /\ Position(peer.nxt) = 1
      /\ g \in Output /\ g.ack \in SeqNum /\ Position(g.ack) \in Nat
  BY PeerFacts, TakenFacts DEF PeerOK
<1>2. CASE ~PeerAccepts(g) /\ PeerSends(peer, {"ACK"}, peer.nxt, 0)
  BY <1>1, <1>2, AckSent
<1>3. CASE PeerAccepts(g) /\ Drops
  BY <1>3, DroppedMoves
<1>4. CASE /\ "ACK" \in g.flags /\ peer.st = "SYN_RECV" /\ g.ack # peer.nxt /\ Resets(g)
  BY <1>4, ResetSent
<1>5. CASE /\ PeerAccepts(g) /\ Position(g.ack) > Position(peer.nxt)
           /\ ~(peer.st = "SYN_RECV" /\ g.ack # peer.nxt)
           /\ PeerSends(peer, {"ACK"}, peer.nxt, 0)
  <2>1. peer.st = "OPEN"
    BY <1>1, <1>5
  <2> QED
    BY <1>1, <1>5, <2>1, AckSent
<1>6. CASE /\ PeerAccepts(g) /\ "ACK" \in g.flags
           /\ ~(peer.st = "SYN_RECV" /\ g.ack # peer.nxt)
           /\ ~(Position(g.ack) > Position(peer.nxt))
           /\ IF Content(g) = 0 THEN peer' = p /\ UNCHANGED toHost
              ELSE PeerSends(p1, {"ACK"}, p.nxt, 0)
  <2> DEFINE una == IF Position(g.ack) > Position(peer.una) THEN g.ack ELSE peer.una
  <2>1. ~IsSyn(g)
    BY <1>6 DEF PeerAccepts, IsSyn
  <2>2. una \in SeqNum /\ 1 <= Position(una) /\ Position(una) <= Position(peer.nxt)
    <3>1. CASE peer.st = "OPEN"
      BY <1>1, <1>6, <3>1 DEF PeerOK
    <3>2. CASE peer.st = "SYN_RECV"
      <4>1. Position(peer.una) = 0 /\ Position(g.ack) = 1
        BY <1>1, <1>6, <3>2, PositionISS DEF PeerOK
      <4> QED
        BY <1>1, <3>2, <4>1
    <3> QED
      BY <3>1, <3>2
  <2> HIDE DEF una
  <2>3. /\ p \in Peers /\ p.st = "OPEN" /\ p.una = una /\ p.nxt = peer.nxt
        /\ p.fin = peer.fin /\ p.reset = peer.reset
    BY <1>1, <2>2 DEF PeerAcked, Peers, una
  <2> HIDE DEF p
  <2>4. PeerOK(p)
    BY <1>1, <2>2, <2>3, PeerFacts DEF PeerOK, Limit
  <2>5. p.una = peer.una \/ ("ACK" \in g.flags /\ p.una = g.ack)
    BY <1>6, <2>3 DEF una
  <2>6. CASE Content(g) = 0
    <3>1. peer' = p /\ toHost' = toHost
      BY <1>6, <2>6
    <3>2. SilentMove
      BY <2>1, <2>3, <3>1 DEF SilentMove, KeepsStream
    <3>3. PeerOK(peer)' /\ Limit(peer') = Limit(peer) /\ Limit(peer) \in Int
      BY <2>3, <2>4, <3>1, PeerFacts DEF PeerOK, Limit
    <3> QED
      BY <1>1, <2>3, <2>5, <3>1, <3>2, <3>3 DEF PeerMoves
  <2>7. CASE PeerSends(p1, {"ACK"}, p.nxt, 0)
    <3>1. Plus(g.seq, Content(g)) \in SeqNum /\ (p.finGot \/ "FIN" \in g.flags) \in BOOLEAN
      BY TakenFacts
    <3>2. /\ p1 \in Peers /\ p1.st = "OPEN" /\ p1.una = p.una /\ p1.nxt = p.nxt
          /\ p1.fin = p.fin /\ p1.reset = p.reset
      BY <2>3, <3>1 DEF Peers
    <3> HIDE DEF p1
    <3>3. PeerOK(p1)
      BY <2>3, <2>4, <3>2 DEF PeerOK, Limit
    <3> QED
      BY <1>1, <2>1, <2>3, <2>5, <2>7, <3>2, <3>3, AckSent
  <2> QED
    BY <1>6, <2>6, <2>7
<1> QED
  BY <1>2, <1>3, <1>4, <1>5, <1>6 DEF SyncedPeerGets

LEMMA PeerStepMoves ==
  ASSUME NetInv, PeerStep \/ PeerReceive
  PROVE  PeerMoves
<1>1. CASE PeerStep
  <2>1. UNCHANGED <<vars, scenario, shown>> /\ toPeer' = toPeer
    BY <1>1 DEF PeerStep
  <2> QED
    BY <1>1, <2>1, PeerOpenMoves, PeerSendMoves, PeerCloseMoves, PeerTimeoutMoves DEF PeerStep
<1>2. CASE PeerReceive
  <2>1. UNCHANGED <<vars, scenario, shown>> /\ TakesOldest
    BY <1>2 DEF PeerReceive, TakesOldest
  <2> QED
    BY <1>2, <2>1, ClosedPeerMoves, SynSentPeerMoves, SyncedPeerMoves DEF PeerReceive
<1> QED
  BY <1>1, <1>2


-----------------------------------------------------------------------------
(* The peer and the network keep the invariant. *)

\* A FIN is only on its way when it was sent.
LEMMA FinSent ==
  ASSUME NetInv, NEW g \in Elements(toHost), IsFin(g)
  PROVE  peer.fin # 0 /\ peer.st = "OPEN"
<1>1. /\ Position(g.seq) + 1 <= Position(peer.nxt)
      /\ Position(peer.nxt) - peer.fin <= Position(g.seq)
  BY DEF NetInv, ToHostInv, Occupies, Starts, Limit
<1>2. toHost \in Seq(Segment) /\ g \in Segment
  BY DEF NetInv, NetTypes, Elements
<1>3. Position(g.seq) \in Nat
  BY <1>2, PositionType DEF Segment
<1>4. peer.fin # 0
  BY <1>1, <1>3, PeerFacts
<1> QED
  BY <1>4, PeerFacts DEF PeerOK

LEMMA PeerMoveFacts ==
  ASSUME NetInv, PeerMoves
  PROVE  /\ Limit(peer') = Limit(peer) \/ peer.fin = 0
         /\ peer.reset => peer'.reset
         /\ toPeer' \in Seq(Output) /\ Elements(toPeer') \subseteq Elements(toPeer)
         /\ toHost \in Seq(Segment) /\ toHost' \in Seq(Segment)
         /\ \A g \in Elements(toHost') : g \in Elements(toHost) \/ Occupies(g)'
         /\ TakesOldest => /\ Head(toPeer) \in Elements(toPeer)
                           /\ Len(toPeer) <= 1 => toPeer' = <<>>
<1>1. /\ \/ SilentMove
         \/ \E g \in Segment : /\ toHost' = Append(toHost, g) /\ Occupies(g)'
                               /\ ResetMove(g) \/ SynMove(g) \/ AckMove(g) \/ StreamMove(g)
      /\ toPeer' = toPeer \/ TakesOldest
      /\ toHost \in Seq(Segment) /\ toPeer \in Seq(Output)
  BY DEF PeerMoves, NetInv, NetTypes
<1>2. peer.st # "OPEN" => peer.fin = 0
  BY PeerFacts DEF PeerOK
<1>3. /\ toPeer' \in Seq(Output) /\ Elements(toPeer') \subseteq Elements(toPeer)
      /\ TakesOldest => Head(toPeer) \in Elements(toPeer)
  <2>1. TakesOldest => /\ toPeer' \in Seq(Output) /\ Elements(toPeer') \subseteq Elements(toPeer)
                       /\ Head(toPeer) \in Elements(toPeer)
    BY <1>1, TailFacts DEF TakesOldest
  <2> QED
    BY <1>1, <2>1
<1>4. TakesOldest /\ Len(toPeer) <= 1 => toPeer' = <<>>
  BY <1>1 DEF TakesOldest
<1>5. CASE SilentMove
  BY <1>1, <1>2, <1>3, <1>4, <1>5 DEF SilentMove, KeepsStream, Limit
<1>6. ASSUME NEW g \in Segment, toHost' = Append(toHost, g), Occupies(g)',
             ResetMove(g) \/ SynMove(g) \/ AckMove(g) \/ StreamMove(g)
      PROVE  /\ Limit(peer') = Limit(peer) \/ peer.fin = 0
             /\ peer.reset => peer'.reset
             /\ toHost' \in Seq(Segment)
             /\ \A h \in Elements(toHost') : h \in Elements(toHost) \/ Occupies(h)'
  <2>1. toHost' \in Seq(Segment) /\ Elements(toHost') = Elements(toHost) \cup {g}
    BY <1>1, <1>6, AppendFacts
  <2>2. \A h \in Elements(toHost') : h \in Elements(toHost) \/ Occupies(h)'
    BY <1>6, <2>1
  <2>3. /\ Limit(peer') = Limit(peer) \/ peer.fin = 0
        /\ peer.reset => peer'.reset
    <3>1. CASE ResetMove(g)
      BY <3>1, PeerFacts DEF ResetMove, Limit, Peers
    <3>2. CASE SynMove(g)
      BY <3>2, <1>2 DEF SynMove
    <3>3. CASE AckMove(g)
      BY <3>3 DEF AckMove, KeepsStream, Limit
    <3>4. CASE StreamMove(g)
      BY <3>4 DEF StreamMove
    <3> QED
      BY <1>6, <3>1, <3>2, <3>3, <3>4
  <2> QED
    BY <2>1, <2>2, <2>3
<1> QED
  BY <1>1, <1>3, <1>4, <1>5, <1>6

LEMMA PeerMovesKeep ==
  ASSUME NetInv, PeerMoves
  PROVE  NetInv'
<1>1. /\ UNCHANGED <<vars, scenario, shown>> /\ UNCHANGED <<conn, table, rxPad>>
      /\ peer' \in Peers /\ PeerOK(peer)'
      /\ Position(peer.nxt) <= Position(peer'.nxt) /\ Limit(peer) <= Limit(peer')
  BY DEF PeerMoves, vars
<1>2. /\ Position(peer.nxt) \in Nat /\ Position(peer'.nxt) \in Nat
      /\ Limit(peer) \in Int /\ Limit(peer') \in Int
  <2>1. peer'.nxt \in SeqNum /\ peer'.fin \in 0 .. 2
    BY <1>1 DEF Peers
  <2> QED
    BY <2>1, PeerFacts, PositionType DEF Limit
<1>3. IInv' /\ NetTypes'
  <2>1. IInv'
    BY <1>1, NothingKeeps
    DEF NetInv, IInv, OutputInv, SynOnlyInHandshake, vars
  <2> QED
    BY <1>1, <2>1, PeerMoveFacts DEF NetInv, NetTypes
<1>4. ToHostInv'
  <2> SUFFICES ASSUME NEW g \in Elements(toHost') PROVE Occupies(g)'
    BY DEF ToHostInv
  <2> SUFFICES ASSUME g \in Elements(toHost) PROVE Occupies(g)'
    BY PeerMoveFacts
  <2>1. g \in Segment
    BY DEF NetInv, NetTypes, Elements
  <2>2. Position(g.seq) \in Nat
    BY <2>1, PositionType DEF Segment
  <2>3. Occupies(g)
    BY DEF NetInv, ToHostInv
  <2>4. IsFin(g) => Limit(peer') = Limit(peer)
    BY FinSent, PeerMoveFacts
  <2> QED
    BY <1>1, <1>2, <2>2, <2>3, <2>4 DEF Occupies, IsSyn, IsFin, IsData, Starts
<1>5. ToPeerInv'
  BY PeerMoveFacts DEF NetInv, ToPeerInv, IsSyn
<1>6. UsedInv'
  <2> SUFFICES ASSUME NoClose', NotReset'
               PROVE  /\ \A g \in Elements(toPeer') : Acknowledges(g)'
                      /\ \A id \in DOMAIN conn : Reached(conn[id])'
    BY <1>1 DEF UsedInv
  <2>1. NoClose /\ NotReset
    BY <1>1, PeerMoveFacts DEF NoClose, NotReset
  <2>2. ASSUME NEW g \in Elements(toPeer') PROVE Acknowledges(g)'
    <3>1. g \in Elements(toPeer) /\ toPeer \in Seq(Output)
      BY <2>2, PeerMoveFacts DEF NetInv, NetTypes
    <3>2. g \in Output
      BY <3>1 DEF Elements
    <3>3. Acknowledges(g)
      BY <2>1, <3>1 DEF NetInv, UsedInv
    <3>4. Position(g.ack) \in Nat
      BY <3>2, PositionType DEF Output
    <3> QED
      BY <1>1, <1>2, <3>3, <3>4 DEF Acknowledges
  <2>3. ASSUME NEW id \in DOMAIN conn PROVE Reached(conn[id])'
    <3>1. Reached(conn[id]) /\ conn[id] \in Connection
      BY <2>1, <2>3 DEF NetInv, UsedInv, IInv, MemoryInv
    <3>2. Position(conn[id].rcv_nxt) \in Nat
      BY <3>1, PositionType DEF Connection
    <3> QED
      BY <1>1, <1>2, <3>1, <3>2 DEF Reached
  <2> QED
    BY <2>2, <2>3
<1>7. ClosedInv' /\ OpeningInv'
  <2>1. NotReset' => NotReset
    BY PeerMoveFacts DEF NotReset
  <2>2. CASE SilentMove
    <3>1. /\ peer.st \in {"CLOSED", "SYN_SENT"} => ~BareSyn(Head(toPeer))
          /\ peer'.st = "CLOSED" => peer.st = "CLOSED" /\ peer.st \in {"CLOSED", "SYN_SENT"}
          /\ Head(toPeer) \in Elements(toPeer) /\ toPeer # <<>>
          /\ peer.st \in {"CLOSED", "SYN_SENT", "SYN_RECV", "OPEN"}
      BY <2>2, PeerMoveFacts, PeerFacts DEF SilentMove, TakesOldest, Peers
    <3>2. peer'.st = "CLOSED" => ~NotReset
      BY <3>1 DEF ClosedInv, NetInv
    <3>3. ~(NotReset /\ Hears("SYN_SENT"))
      BY <3>1 DEF OpeningInv, NetInv
    <3> QED
      BY <1>1, <2>1, <3>2, <3>3 DEF ClosedInv, OpeningInv, Hears, Slot, RxKey
  <2>3. ASSUME NEW g \in Segment, toHost' = Append(toHost, g),
               ResetMove(g) \/ SynMove(g) \/ AckMove(g) \/ StreamMove(g)
        PROVE  ClosedInv' /\ OpeningInv'
    <3>1. CASE ResetMove(g)
      <4>1. ~NotReset'
        BY <3>1, PeerFacts DEF ResetMove, NotReset, Peers
      <4> QED
        BY <4>1 DEF ClosedInv, OpeningInv
    <3>2. CASE SynMove(g)
      <4>1. peer'.st # "CLOSED"
        BY <3>2 DEF SynMove
      <4>2. ASSUME NotReset', Hears("SYN_SENT")'
            PROVE  /\ peer'.st # "OPEN"
                   /\ \A h \in Elements(toHost') : Answer(h)
                   /\ Len(toPeer') <= 1
                   /\ \A h \in Elements(toPeer') : BareSyn(h)
                   /\ peer'.st = "SYN_RECV" => toPeer' = <<>>
        <5>1. /\ \A h \in Elements(toHost) : Answer(h)
              /\ Len(toPeer) <= 1
              /\ \A h \in Elements(toPeer) : BareSyn(h)
              /\ peer.st = "SYN_RECV" => toPeer = <<>>
          BY <1>1, <2>1, <4>2 DEF NetInv, OpeningInv, Hears, Slot, RxKey
        <5>2. Elements(toHost') = Elements(toHost) \cup {g}
          BY <2>3, PeerMoveFacts, AppendFacts
        <5>3. /\ Answer(g) /\ peer'.st # "OPEN"
              /\ peer'.st = "SYN_SENT" => toPeer' = toPeer
              /\ peer'.st = "SYN_RECV" => (peer.st = "SYN_RECV" /\ toPeer' = toPeer) \/ TakesOldest
              /\ peer'.st \in {"SYN_SENT", "SYN_RECV"}
          BY <3>2 DEF SynMove
        <5>4. /\ peer'.st = "SYN_RECV" => toPeer' = <<>>
              /\ Len(<<>>) = 0
          BY <5>1, <5>3, PeerMoveFacts
        <5>5. Len(toPeer') <= 1
          BY <5>1, <5>3, <5>4
        <5> QED
          BY <5>1, <5>2, <5>3, <5>4, <5>5, PeerMoveFacts
      <4> QED
        BY <4>1, <4>2 DEF ClosedInv, OpeningInv, Answer, BareSyn, IsSyn
    <3>3. CASE AckMove(g)
      <4>1. /\ peer'.st # "CLOSED" /\ peer.st \in {"SYN_SENT", "SYN_RECV", "OPEN"}
            /\ peer.st = "SYN_SENT" => ~BareSyn(Head(toPeer))
            /\ Head(toPeer) \in Elements(toPeer) /\ toPeer # <<>>
        BY <3>3, PeerMoveFacts, PeerFacts DEF AckMove, TakesOldest, Peers
      <4>2. ~(NotReset /\ Hears("SYN_SENT"))
        BY <4>1 DEF OpeningInv, NetInv
      <4> QED
        BY <1>1, <2>1, <4>1, <4>2 DEF ClosedInv, OpeningInv, Hears, Slot, RxKey
    <3>4. CASE StreamMove(g)
      <4>1. peer'.st # "CLOSED" /\ peer.st = "OPEN"
        BY <3>4 DEF StreamMove
      <4>2. ~(NotReset /\ Hears("SYN_SENT"))
        BY <4>1 DEF OpeningInv, NetInv
      <4> QED
        BY <1>1, <2>1, <4>1, <4>2 DEF ClosedInv, OpeningInv, Hears, Slot, RxKey
    <3> QED
      BY <2>3, <3>1, <3>2, <3>3, <3>4
  <2> QED
    BY <2>2, <2>3 DEF PeerMoves
<1> QED
  BY <1>1, <1>3, <1>4, <1>5, <1>6, <1>7 DEF NetInv

LEMMA LoseKeeps ==
  ASSUME NetInv, Lose
  PROVE  NetInv'
<1>1. /\ UNCHANGED <<vars, scenario, peer, shown>> /\ UNCHANGED <<conn, table, rxPad>>
      /\ \/ toHost # <<>> /\ toHost' = Tail(toHost) /\ toPeer' = toPeer
         \/ toPeer # <<>> /\ toPeer' = Tail(toPeer) /\ toHost' = toHost
  BY DEF Lose, vars
<1>2. toHost \in Seq(Segment) /\ toPeer \in Seq(Output)
  BY DEF NetInv, NetTypes
<1>3. /\ toHost' \in Seq(Segment) /\ Elements(toHost') \subseteq Elements(toHost)
      /\ toPeer' \in Seq(Output) /\ Elements(toPeer') \subseteq Elements(toPeer)
  BY <1>1, <1>2, TailFacts
<1>4. /\ toHost = <<>> => toHost' = <<>>
      /\ toPeer = <<>> => toPeer' = <<>>
      /\ Len(toPeer) <= 1 => Len(toPeer') <= 1
  BY <1>1, <1>2
<1>5. IInv' /\ NetTypes'
  <2>1. IInv'
    BY <1>1, NothingKeeps
    DEF NetInv, IInv, OutputInv, SynOnlyInHandshake, vars
  <2> QED
    BY <1>1, <1>3, <2>1 DEF NetInv, NetTypes
<1>6. PeerOK(peer)' /\ ToHostInv' /\ ToPeerInv'
  BY <1>1, <1>3
  DEF NetInv, PeerOK, Limit, ToHostInv, ToPeerInv, Occupies, IsSyn, IsFin, IsData, Starts
<1>7. UsedInv'
  BY <1>1, <1>3 DEF NetInv, UsedInv, NoClose, NotReset, Acknowledges, Reached
<1>8. ClosedInv' /\ OpeningInv'
  BY <1>1, <1>3, <1>4
  DEF NetInv, ClosedInv, OpeningInv, NotReset, Hears, Slot, RxKey, Answer, BareSyn, IsSyn
<1> QED
  BY <1>5, <1>6, <1>7, <1>8 DEF NetInv

-----------------------------------------------------------------------------
(* The host keeps the invariant. *)

\* What is on its way to the peer after the host's step.
LEMMA OutputFacts ==
  ASSUME NetInv, HostOutput, tx' \subseteq Output
  PROVE  /\ toPeer' \in Seq(Output)
         /\ \A g \in Elements(toPeer') : g \in Elements(toPeer) \/ g \in tx'
         /\ tx' = {} => toPeer' = toPeer
         /\ Len(toPeer') <= Len(toPeer) + 1
         /\ printed' = {} => shown' = shown
<1>1. toPeer \in Seq(Output)
  BY DEF NetInv, NetTypes
<1>2. printed' = {} => shown' = shown
  BY DEF HostOutput
<1>3. CASE tx' = {}
  BY <1>1, <1>2, <1>3 DEF HostOutput
<1>4. CASE tx' # {}
  <2>1. PICK o \in tx' : toPeer' = Append(toPeer, o)
    BY <1>4 DEF HostOutput
  <2>2. /\ toPeer' \in Seq(Output) /\ Elements(toPeer') = Elements(toPeer) \cup {o}
        /\ Len(toPeer') = Len(toPeer) + 1
    BY <1>1, <2>1, AppendFacts
  <2> QED
    BY <1>2, <1>4, <2>1, <2>2
<1> QED
  BY <1>3, <1>4

\* Everything but what holds before the peer opens and while the host waits for the
\* answer to its SYN.
LEMMA HostKeepsMost ==
  ASSUME NetInv, IInv', HostOutput, UNCHANGED <<scenario, peer>>,
         toHost' \in Seq(Segment), Elements(toHost') \subseteq Elements(toHost),
         \A o \in tx' : o.len \in Windows,
         \A p \in printed' : Position(p.seq) \in 1 .. scenario.bytes,
         NoClose /\ NotReset => /\ \A o \in tx' : Acknowledges(o)
                                /\ \A id \in DOMAIN conn' : Reached(conn'[id])
  PROVE  /\ NetTypes' /\ PeerOK(peer)' /\ ToHostInv' /\ ToPeerInv' /\ UsedInv'
<1>1. tx' \subseteq Output /\ \A o \in tx' : IsSyn(o) => o.seq = ISS
  BY DEF IInv, OutputInv, SynOnlyInHandshake, IsSyn
<1>2. toPeer' \in Seq(Output) /\ \A g \in Elements(toPeer') : g \in Elements(toPeer) \/ g \in tx'
  BY <1>1, OutputFacts
<1>3. NetTypes'
  <2>1. shown' \subseteq 1 .. scenario.bytes
    BY DEF HostOutput, NetInv, NetTypes
  <2> QED
    BY <1>2, <2>1 DEF NetInv, NetTypes
<1>4. PeerOK(peer)' /\ ToHostInv'
  BY DEF NetInv, PeerOK, Limit, ToHostInv, Occupies, IsSyn, IsFin, IsData, Starts
<1>5. ToPeerInv'
  BY <1>1, <1>2 DEF NetInv, ToPeerInv, IsSyn
<1>6. UsedInv'
  <2> SUFFICES ASSUME NoClose, NotReset
               PROVE  /\ \A g \in Elements(toPeer') : Acknowledges(g)
                      /\ \A id \in DOMAIN conn' : Reached(conn'[id])
    BY DEF UsedInv, NoClose, NotReset, Acknowledges, Reached
  <2> QED
    BY <1>2 DEF NetInv, UsedInv
<1> QED
  BY <1>3, <1>4, <1>5, <1>6

\* The usual case: the peer is there already, and no SYN waits for its answer.
LEMMA HostKeeps ==
  ASSUME NetInv, IInv', HostOutput, UNCHANGED <<scenario, peer>>,
         toHost' \in Seq(Segment), Elements(toHost') \subseteq Elements(toHost),
         \A o \in tx' : o.len \in Windows,
         \A p \in printed' : Position(p.seq) \in 1 .. scenario.bytes,
         NoClose /\ NotReset => /\ \A o \in tx' : Acknowledges(o)
                                /\ \A id \in DOMAIN conn' : Reached(conn'[id]),
         NotReset => peer.st # "CLOSED" /\ ~Hears("SYN_SENT")'
  PROVE  NetInv'
<1>1. ClosedInv' /\ OpeningInv'
  BY DEF ClosedInv, OpeningInv, NotReset
<1> QED
  BY <1>1, HostKeepsMost DEF NetInv

\* What the host stores and sends from a connection whose edge the peer has used.
LEMMA StoresReaches ==
  ASSUME NetInv, NEW id, NEW d, Stores(id, d), NoClose, NotReset,
         d.tcpState \in {"SYN_RECV", "ESTABLISHED", "LAST_ACK"},
         Position(d.rcv_nxt) <= Position(peer.nxt)
  PROVE  /\ \A o \in tx' : Acknowledges(o)
         /\ \A x \in DOMAIN conn' : Reached(conn'[x])
<1>1. /\ DOMAIN conn' = DOMAIN conn \cup {id} /\ conn'[id] = d
      /\ \A x \in DOMAIN conn : x # id => conn'[x] = conn[x]
      /\ \A o \in tx' : o.ack = d.rcv_nxt
  BY DEF Stores
<1>2. \A x \in DOMAIN conn : Reached(conn[x])
  BY DEF NetInv, UsedInv
<1>3. Reached(d) /\ \A o \in tx' : Acknowledges(o)
  BY <1>1 DEF Reached, Acknowledges
<1> QED
  BY <1>1, <1>2, <1>3

\* The number behind what takes one is used when that one is.
LEMMA NextReached ==
  ASSUME NetInv, NEW g \in Segment, Occupies(g), IsSyn(g) \/ Starts(g)
  PROVE  Position(Plus(g.seq, 1)) <= Position(peer.nxt)
<1>1. Position(g.seq) + 1 <= Position(peer.nxt) /\ g.seq \in SeqNum
  BY DEF Occupies, Segment
<1>2. Position(g.seq) + 1 < Modulus
  BY <1>1, PeerFacts, PositionType
<1>3. Position(Plus(g.seq, 1)) = Position(g.seq) + 1
  BY <1>1, <1>2, PositionNext
<1> QED
  BY <1>1, <1>3

\* What is printed are bytes the peer may send, and a SYN that waited is answered.
LEMMA HostMovesFacts ==
  ASSUME NetInv, NEW g \in Segment, Occupies(g), HostMoves(g),
         NotReset /\ Hears("SYN_SENT") => Answer(g)
  PROVE  /\ \A o \in tx' : o.len \in Windows
         /\ \A p \in printed' : Position(p.seq) \in 1 .. scenario.bytes
         /\ NotReset => ~Hears("SYN_SENT")'
<1>1. CASE Ignores(g)
  BY <1>1 DEF Ignores, Quiet, Hears
<1>2. CASE Listens(g)
  BY <1>2 DEF Listens, Stores, Hears
<1>3. CASE Handshakes(g)
  BY <1>3 DEF Handshakes, Updates, Stores, Hears
<1>4. CASE Connects(g)
  BY <1>4 DEF Connects, Updates, Stores, Hears
<1>5. CASE Advances(g)
  <2>1. PICK d \in Connection :
          /\ Updates(d) /\ d.tcpState = "ESTABLISHED"
          /\ printed' = {} \/ (g.len # 0 /\ printed' = Shown(Slot, g))
    BY <1>5 DEF Advances
  <2>2. (\A o \in tx' : o.len \in Windows) /\ ~Hears("SYN_SENT")'
    BY <2>1 DEF Updates, Stores, Hears
  <2>3. \A p \in printed' : Position(p.seq) \in 1 .. scenario.bytes
    BY <2>1 DEF Shown, Occupies
  <2> QED
    BY <2>2, <2>3
<1>6. CASE PeerEnds(g)
  BY <1>6 DEF PeerEnds, Updates, Stores, Hears
<1>7. CASE CloseEnds(g)
  BY <1>7 DEF CloseEnds, Stores, Hears
<1>8. CASE Ends
  BY <1>8 DEF Ends, Hears
<1> QED
  BY <1>1, <1>2, <1>3, <1>4, <1>5, <1>6, <1>7, <1>8 DEF HostMoves

LEMMA HostMovesReach ==
  ASSUME NetInv, NEW g \in Segment, Occupies(g), HostMoves(g),
         NotReset /\ Hears("SYN_SENT") => Answer(g), NoClose, NotReset
  PROVE  /\ \A o \in tx' : Acknowledges(o)
         /\ \A id \in DOMAIN conn' : Reached(conn'[id])
<1>1. /\ \A x \in DOMAIN conn : Reached(conn[x])
      /\ Slot # NoConn => Slot \in DOMAIN conn
  <2>1. RxKey(1, Flow) \in Keys
    BY Here, RxKeyFacts DEF NetInv, IInv
  <2> QED
    BY <2>1, Here, EntryFacts DEF NetInv, IInv, UsedInv, Slot
<1>2. CASE Ignores(g) \/ Ends
  BY <1>1, <1>2 DEF Ignores, Quiet, Ends
<1>3. CASE Listens(g)
  <2>1. IsSyn(g)
    BY <1>3 DEF Listens, BareSyn, IsSyn
  <2> QED
    BY <1>3, <2>1, NextReached, StoresReaches DEF Listens
<1>4. CASE Handshakes(g)
  BY <1>1, <1>4, StoresReaches DEF Handshakes, Updates, Hears, Reached
<1>5. CASE Connects(g)
  <2>1. IsSyn(g) /\ Answer(g)
    BY <1>5 DEF Connects, Answer
  <2> QED
    BY <1>5, <2>1, NextReached, StoresReaches DEF Connects, Updates
<1>6. CASE Advances(g)
  <2>1. PICK d \in Connection :
          /\ Updates(d) /\ d.tcpState = "ESTABLISHED"
          /\ \/ d.rcv_nxt = conn[Slot].rcv_nxt
             \/ g.len # 0 /\ d.rcv_nxt = DataEnd(g)
    BY <1>6 DEF Advances
  <2>2. CASE d.rcv_nxt = conn[Slot].rcv_nxt
    BY <1>1, <1>6, <2>1, <2>2, StoresReaches DEF Advances, Updates, Hears, Reached
  <2>3. CASE g.len # 0 /\ d.rcv_nxt = DataEnd(g)
    <3>1. g.len = 1 /\ DataEnd(g) = Plus(g.seq, 1) /\ Starts(g)
      BY <2>3 DEF Occupies, DataEnd, Starts
    <3> QED
      BY <2>1, <2>3, <3>1, NextReached, StoresReaches DEF Updates
  <2> QED
    BY <2>1, <2>2, <2>3
<1>7. CASE PeerEnds(g)
  BY <1>7, NextReached, StoresReaches DEF PeerEnds, Updates, Starts
\* Only "close" leads to FIN_WAIT1.
<1>8. CASE CloseEnds(g)
  BY <1>1, <1>8 DEF CloseEnds, Hears, Reached
<1> QED
  BY <1>2, <1>3, <1>4, <1>5, <1>6, <1>7, <1>8 DEF HostMoves

LEMMA HostReceiveKeeps ==
  ASSUME NetInv, HostReceive
  PROVE  NetInv'
<1> DEFINE g == Head(toHost)
<1>1. /\ toHost # <<>> /\ toHost' = Tail(toHost) /\ Receive(1, Flow, g)
      /\ HostOutput /\ UNCHANGED <<scenario, peer>>
  BY DEF HostReceive
<1>2. /\ toHost' \in Seq(Segment) /\ Elements(toHost') \subseteq Elements(toHost)
      /\ g \in Elements(toHost) /\ g \in Segment
  BY <1>1, TailFacts DEF NetInv, NetTypes
<1>3. /\ Occupies(g) /\ (NotReset => peer.st # "CLOSED")
      /\ NotReset /\ Hears("SYN_SENT") => Answer(g)
  BY <1>1, <1>2 DEF NetInv, ToHostInv, OpeningInv, ClosedInv
<1>4. IInv'
  BY <1>1, <1>2, Here, ReceiveKeeps DEF NetInv
<1> HIDE DEF g
<1>5. HostMoves(g)
  BY <1>1, <1>2, <1>3, ReceiveOutcome
<1> QED
  BY <1>1, <1>2, <1>3, <1>4, <1>5, HostMovesFacts, HostMovesReach, HostKeeps

-----------------------------------------------------------------------------
(* The user's commands *)

\* "connect" makes a connection; the receive loop finds it, or not.
UserOpens ==
  /\ peer.st = "CLOSED" /\ "connect" \in scenario.user /\ printed' = {}
  /\ \E id \in ConnIds \ DOMAIN conn, d \in Connection :
       /\ Stores(id, d) /\ d.tcpState = "SYN_SENT" /\ d.rcv_wnd = LocalWindow
       /\ table' = AddKey(1, CliKey(Flow, Pad), id) /\ table[1][CliKey(Flow, Pad)] = NoConn
       /\ Slot' = Slot \/ (Slot = NoConn /\ Slot' \in {id, NoConn})
       /\ tx' # {} /\ \A o \in tx' : BareSyn(o)

UserSends ==
  /\ Hears("ESTABLISHED") /\ printed' = {}
  /\ \E d \in Connection :
       /\ Updates(d) /\ d.tcpState = "ESTABLISHED" /\ d.rcv_nxt = conn[Slot].rcv_nxt
       /\ d.snd_nxt = conn[Slot].snd_nxt
       /\ \A o \in tx' : o.flags = {"ACK", "PSH"}

UserCloses ==
  /\ Hears("ESTABLISHED") /\ printed' = {} /\ ~NoClose /\ InFlight = 0
  /\ \E d \in Connection :
       /\ Updates(d) /\ d.tcpState = "FIN_WAIT1" /\ d.rcv_nxt = conn[Slot].rcv_nxt
       /\ \A o \in tx' : o.flags = {"FIN", "ACK"} /\ o.seq = conn[Slot].snd_nxt

UserMoves == UserOpens \/ UserSends \/ UserCloses

LEMMA OpensOutcome ==
  ASSUME NetInv, "connect" \in scenario.user, peer.st = "CLOSED", active_connect(Flow, Pad)
  PROVE  UserOpens
<1> DEFINE key == CliKey(Flow, Pad)
           c == [key |-> key, tcpState |-> "SYN_SENT", una |-> ISS,
                 snd_nxt |-> ISS, irs |-> ISS, rcv_nxt |-> ISS, rcv_wnd |-> LocalWindow,
                 tcp_flags |-> {"SYN"}]
<1>1. PICK id \in ConnIds \ DOMAIN conn :
        /\ Transmit(id, c, 0, "SYN_SENT") /\ table' = AddKey(1, key, id)
        /\ table[1][key] = NoConn /\ rxPad' = rxPad /\ printed' = {}
  BY DEF active_connect
<1>2. key \in Keys /\ RxKey(1, Flow) \in Keys
  BY Here, RxKeyFacts DEF CliKey, Keys, NetInv, IInv
<1>3. /\ c \in Connection /\ "SYN_SENT" \in States /\ 0 \in Windows
      /\ c.tcp_flags = {"SYN"} /\ c.rcv_wnd = LocalWindow
  BY <1>2, WindowsFit, TcpAssumption, SeqAssumption DEF Connection, States, Flags, ISS, Windows
<1> HIDE DEF c
<1>4. PICK d \in Connection :
        /\ Stores(id, d) /\ d.tcpState = "SYN_SENT" /\ d.rcv_wnd = c.rcv_wnd
        /\ \A o \in tx' : o.flags = c.tcp_flags
  BY <1>1, <1>3, TransmitStores
<1>5. Slot' = Slot \/ (Slot = NoConn /\ Slot' \in {id, NoConn})
  <2>1. Slot' = table'[1][RxKey(1, Flow)]
    BY <1>1 DEF Slot, RxKey
  <2> HIDE DEF key
  <2>2. CASE RxKey(1, Flow) = key
    BY <1>1, <1>2, <2>1, <2>2, Here, AddKeyFacts DEF NetInv, IInv, Slot
  <2>3. CASE RxKey(1, Flow) # key
    BY <1>1, <1>2, <2>1, <2>3, Here, AddKeyFacts DEF NetInv, IInv, Slot
  <2> QED
    BY <2>2, <2>3
<1>6. tx' # {} /\ \A o \in tx' : BareSyn(o)
  BY <1>1, <1>3, <1>4 DEF BareSyn, Transmit
<1> QED
  BY <1>1, <1>3, <1>4, <1>5, <1>6 DEF UserOpens

\* The connection that the user works on is the receive loop's.
LEMMA SenderFacts ==
  ASSUME NetInv, UserSees("ESTABLISHED")
  PROVE  /\ table[1][CliKey(Flow, Pad)] = Slot /\ Slot \in ConnIds
         /\ Slot \in DOMAIN conn /\ conn[Slot] \in Connection /\ ConnInv(conn[Slot])
         /\ Hears("ESTABLISHED")
<1> DEFINE key == CliKey(Flow, Pad)
<1>1. key \in Keys /\ table[1][key] # NoConn /\ conn[table[1][key]].tcpState = "ESTABLISHED"
  BY Here DEF UserSees, Sender, CliKey, Keys
<1>2. /\ table[1][key] \in DOMAIN conn /\ table[1][key] \in ConnIds
      /\ conn[table[1][key]] \in Connection /\ ConnInv(conn[table[1][key]]) /\ Heard(1, key)
  BY <1>1, Here, EntryFacts DEF NetInv, IInv
<1>3. key = RxKey(1, Flow)
  BY <1>2 DEF Heard, CliKey, RxKey
<1> QED
  BY <1>1, <1>2, <1>3 DEF Slot, Hears

LEMMA SendsOutcome ==
  ASSUME NetInv, UserSees("ESTABLISHED"), NEW size \in SendLens,
         active_send_data(1, Flow, Pad, size)
  PROVE  UserSends
<1> DEFINE c1 == [conn[Slot] EXCEPT !.tcp_flags = {"ACK", "PSH"}]
<1>1. /\ Transmit(Slot, c1, size, "ESTABLISHED")
      /\ table' = table /\ rxPad' = rxPad /\ printed' = {}
  BY SenderFacts DEF active_send_data, Hears
<1>2. /\ c1 \in Connection /\ c1.rcv_nxt = conn[Slot].rcv_nxt
      /\ c1.rcv_wnd = conn[Slot].rcv_wnd /\ c1.tcp_flags = {"ACK", "PSH"}
      /\ c1.snd_nxt = conn[Slot].snd_nxt /\ c1.tcp_flags \cap {"SYN", "FIN"} = {}
      /\ size \in Windows /\ "ESTABLISHED" \in States
  BY SenderFacts, TcpAssumption DEF Connection, Flags, States
<1> HIDE DEF c1
<1>3. Slot' = Slot
  BY <1>1, SameSlot
<1> QED
  BY <1>1, <1>2, <1>3, SenderFacts, TransmitStores DEF UserSends, Updates

LEMMA ClosesOutcome ==
  ASSUME NetInv, UserSees("ESTABLISHED"), "close" \in scenario.user, InFlight = 0,
         active_close(1, Flow, Pad)
  PROVE  UserCloses
<1> DEFINE c1 == Closing(conn[Slot])
<1>1. /\ Transmit(Slot, c1, 0, "FIN_WAIT1")
      /\ table' = table /\ rxPad' = rxPad /\ printed' = {}
  BY SenderFacts DEF active_close
<1>2. /\ c1 \in Connection /\ c1.rcv_nxt = conn[Slot].rcv_nxt
      /\ c1.rcv_wnd = conn[Slot].rcv_wnd /\ c1.tcp_flags = {"FIN", "ACK"}
      /\ c1.snd_nxt = conn[Slot].snd_nxt
      /\ 0 \in Windows /\ "FIN_WAIT1" \in States
  BY SenderFacts, SeqAssumption DEF Closing, Connection, Flags, States, Windows
<1> HIDE DEF c1
<1>3. Slot' = Slot
  BY <1>1, SameSlot
<1> QED
  BY <1>1, <1>2, <1>3, SenderFacts, TransmitStores DEF UserCloses, Updates, NoClose

LEMMA CommandOutcome ==
  ASSUME NetInv, HostCommand
  PROVE  UserMoves /\ IInv' /\ HostOutput /\ UNCHANGED <<scenario, peer, toHost>>
<1>1. HostOutput /\ UNCHANGED <<scenario, peer, toHost>>
  BY DEF HostCommand
<1>2. CASE "connect" \in scenario.user /\ peer.st = "CLOSED" /\ active_connect(Flow, Pad)
  BY <1>1, <1>2, Here, OpensOutcome, ConnectKeeps DEF NetInv, UserMoves
<1>3. CASE /\ UserSees("ESTABLISHED")
           /\ \E size \in SendLens : active_send_data(1, Flow, Pad, size)
  BY <1>1, <1>3, Here, SendsOutcome, SendKeeps DEF NetInv, UserMoves
<1>4. CASE /\ "close" \in scenario.user /\ UserSees("ESTABLISHED") /\ InFlight = 0
           /\ active_close(1, Flow, Pad)
  BY <1>1, <1>4, Here, ClosesOutcome, CloseKeeps DEF NetInv, UserMoves
<1> QED
  BY <1>2, <1>3, <1>4 DEF HostCommand

\* "connect" makes its entry when the table is empty.
LEMMA FirstEntry ==
  ASSUME NetInv, NotReset, peer.st = "CLOSED", table[1][CliKey(Flow, Pad)] = NoConn,
         NEW id, table' = AddKey(1, CliKey(Flow, Pad), id)
  PROVE  /\ table'[1][CliKey(Flow, Pad)] = id
         /\ \A key \in Keys : key # CliKey(Flow, Pad) => table'[1][key] = NoConn
<1> DEFINE key == CliKey(Flow, Pad)
<1>1. key \in Keys /\ \A k \in Keys : table[1][k] = NoConn
  BY Here DEF CliKey, Keys, NetInv, ClosedInv
<1>2. {k \in Keys : table[1][k] # NoConn} = {}
  BY <1>1
<1>3. Load(1) < HashEntries
  <2>1. Load(1) = Cardinality({})
    BY <1>2, Zenon DEF Load
  <2>2. Cardinality({}) = 0
    BY FS_EmptySet
  <2> QED
    BY <2>1, <2>2, TcpAssumption, NetAssumption
<1>4. table' = [table EXCEPT ![1][key] = id]
  BY <1>3 DEF AddKey
<1>5. table \in [Cores -> [Keys -> ConnIds \cup {NoConn}]]
  BY DEF NetInv, IInv, MemoryInv
<1> HIDE DEF key
<1> QED
  BY <1>1, <1>4, <1>5, Here DEF key

LEMMA OpensKeeps ==
  ASSUME NetInv, UserOpens, IInv', HostOutput, UNCHANGED <<scenario, peer, toHost>>
  PROVE  NetInv'
<1>1. PICK id \in ConnIds \ DOMAIN conn, d \in Connection :
        /\ Stores(id, d) /\ d.tcpState = "SYN_SENT"
        /\ table' = AddKey(1, CliKey(Flow, Pad), id) /\ table[1][CliKey(Flow, Pad)] = NoConn
        /\ \A o \in tx' : BareSyn(o)
  BY DEF UserOpens
<1>2. /\ DOMAIN conn' = DOMAIN conn \cup {id} /\ conn'[id] = d
      /\ \A x \in DOMAIN conn : x # id => conn'[x] = conn[x]
      /\ \A o \in tx' : o.len \in Windows
      /\ peer.st = "CLOSED" /\ printed' = {} /\ id # NoConn
  BY <1>1, TcpAssumption DEF Stores, UserOpens
<1>3. NoClose /\ NotReset => /\ \A o \in tx' : Acknowledges(o)
                             /\ \A x \in DOMAIN conn' : Reached(conn'[x])
  <2>1. Reached(d) /\ \A o \in tx' : Acknowledges(o)
    BY <1>1 DEF Reached, Acknowledges, BareSyn
  <2>2. NoClose /\ NotReset => \A x \in DOMAIN conn : Reached(conn[x])
    BY DEF NetInv, UsedInv
  <2> QED
    BY <1>2, <2>1, <2>2
<1>4. toHost' \in Seq(Segment) /\ Elements(toHost') \subseteq Elements(toHost)
  BY DEF NetInv, NetTypes
<1>5. NotReset => toPeer = <<>> /\ toHost = <<>>
  BY <1>1, <1>2 DEF NetInv, ClosedInv
<1>6. /\ \A g \in Elements(toPeer') : g \in Elements(toPeer) \/ g \in tx'
      /\ Len(toPeer') <= Len(toPeer) + 1
  BY OutputFacts DEF IInv, OutputInv
<1>7. Elements(<<>>) = {} /\ Len(<<>>) = 0
  BY EmptyFacts
<1>8. NotReset => Len(toPeer') <= 1 /\ \A g \in Elements(toPeer') : BareSyn(g)
  BY <1>1, <1>5, <1>6, <1>7
<1>9. ClosedInv'
  <2> SUFFICES ASSUME NotReset
               PROVE  /\ toHost' = <<>>
                      /\ Len(toPeer') <= 1
                      /\ \A g \in Elements(toPeer') : BareSyn(g)
                      /\ \A x \in DOMAIN conn' : conn'[x].tcpState = "SYN_SENT"
                      /\ \A key \in Keys : table'[1][key] # NoConn => key = CliKey(Flow, Pad)
                      /\ table'[1][CliKey(Flow, Pad)] # NoConn
    BY DEF ClosedInv, NotReset, BareSyn
  <2>1. \A x \in DOMAIN conn : conn[x].tcpState = "SYN_SENT"
    BY <1>2 DEF NetInv, ClosedInv
  <2>2. \A x \in DOMAIN conn' : conn'[x].tcpState = "SYN_SENT"
    BY <1>1, <1>2, <2>1
  <2> QED
    BY <1>1, <1>2, <1>5, <1>8, <2>2, FirstEntry
<1>10. OpeningInv'
  BY <1>2, <1>5, <1>7, <1>8 DEF OpeningInv, NotReset, BareSyn
<1> QED
  BY <1>2, <1>3, <1>4, <1>9, <1>10, HostKeepsMost DEF NetInv

LEMMA HostCommandKeeps ==
  ASSUME NetInv, HostCommand
  PROVE  NetInv'
<1>1. UserMoves /\ IInv' /\ HostOutput /\ UNCHANGED <<scenario, peer, toHost>>
  BY CommandOutcome
<1>2. toHost' \in Seq(Segment) /\ Elements(toHost') \subseteq Elements(toHost)
  BY <1>1 DEF NetInv, NetTypes
<1>3. CASE UserOpens
  BY <1>1, <1>3, OpensKeeps
<1>4. CASE UserSends \/ UserCloses
  <2>1. PICK d \in Connection :
          /\ Updates(d) /\ d.rcv_nxt = conn[Slot].rcv_nxt
          /\ \/ d.tcpState = "ESTABLISHED"
             \/ d.tcpState = "FIN_WAIT1" /\ ~NoClose
    BY <1>4 DEF UserSends, UserCloses
  <2>2. Hears("ESTABLISHED") /\ printed' = {}
    BY <1>4 DEF UserSends, UserCloses
  <2>3. (\A o \in tx' : o.len \in Windows) /\ ~Hears("SYN_SENT")' /\ Slot \in DOMAIN conn
    BY <2>1 DEF Updates, Stores, Hears
  <2>4. NotReset => peer.st # "CLOSED"
    BY <2>2, <2>3 DEF Hears, NetInv, ClosedInv
  <2>5. NoClose /\ NotReset => /\ \A o \in tx' : Acknowledges(o)
                               /\ \A x \in DOMAIN conn' : Reached(conn'[x])
    <3>1. NoClose /\ NotReset => Position(d.rcv_nxt) <= Position(peer.nxt)
      BY <2>1, <2>2, <2>3 DEF Hears, NetInv, UsedInv, Reached
    <3> QED
      BY <2>1, <3>1, StoresReaches DEF Updates
  <2> QED
    BY <1>1, <1>2, <2>2, <2>3, <2>4, <2>5, HostKeeps
<1> QED
  BY <1>1, <1>3, <1>4 DEF UserMoves

-----------------------------------------------------------------------------
(* The theorems *)

LEMMA NetInitial ==
  ASSUME NetInit
  PROVE  NetInv
<1>1. IInv
  <2>1. DOMAIN conn = {} /\ \A k \in Cores, key \in Keys : table[k][key] = NoConn
    BY DEF NetInit, Init
  <2> QED
    BY <2>1 DEF NetInit, Init, IInv, MemoryInv, OutputInv, TableSound, DispatchedStates,
       OnlyDeadOrphans, DeafNeverEstablished, SynOnlyInHandshake
<1>2. /\ Elements(toHost) = {} /\ Elements(toPeer) = {} /\ DOMAIN conn = {}
      /\ toHost = <<>> /\ toPeer = <<>> /\ Len(<<>>) = 0
  BY EmptyFacts DEF NetInit, Init
<1>3. PeerISS \in SeqNum /\ 0 \in SeqNum
  BY PositionISS, WindowsFit
<1>4. NetTypes
  BY <1>3, EmptyFacts DEF NetInit, NetTypes, Peers
<1>5. PeerOK(peer)
  BY DEF NetInit, PeerOK
<1>6. \A key \in Keys : table[1][key] = NoConn
  BY Here DEF NetInit, Init
<1>7. ~Hears("SYN_SENT")
  BY <1>1, <1>6, Here, RxKeyFacts DEF IInv, Hears, Slot
<1> QED
  BY <1>1, <1>2, <1>4, <1>5, <1>6, <1>7
  DEF NetInv, ToHostInv, ToPeerInv, UsedInv, ClosedInv, OpeningInv

LEMMA NetStutters ==
  ASSUME NetInv, UNCHANGED netVars
  PROVE  NetInv'
<1>1. UNCHANGED <<vars, scenario, peer, toHost, toPeer, shown>> /\ UNCHANGED <<conn, table, rxPad>>
  BY DEF netVars, vars
<1>2. IInv'
  BY <1>1, NothingKeeps DEF NetInv, IInv, OutputInv, SynOnlyInHandshake, vars
<1>3. NetTypes' /\ PeerOK(peer)' /\ ToHostInv' /\ ToPeerInv'
  BY <1>1 DEF NetInv, NetTypes, PeerOK, Limit, ToHostInv, ToPeerInv, Occupies, IsSyn, IsFin,
              IsData, Starts
<1>4. UsedInv' /\ ClosedInv' /\ OpeningInv'
  BY <1>1 DEF NetInv, UsedInv, ClosedInv, OpeningInv, NotReset, NoClose, Acknowledges,
              Reached, Hears, Slot, RxKey, Answer, BareSyn, IsSyn
<1> QED
  BY <1>2, <1>3, <1>4 DEF NetInv

LEMMA NetInvariance == NetSpec => []NetInv
<1>1. NetInv /\ [NetNext]_netVars => NetInv'
  BY HostReceiveKeeps, HostCommandKeeps, PeerStepMoves, PeerMovesKeep, LoseKeeps, NetStutters
  DEF NetNext
<1> QED
  BY <1>1, NetInitial, PTL DEF NetSpec

\* The endpoint and its peer stay within their types whatever the scenario, and
\* what is printed are bytes the peer may send.
THEOREM NetTypeCorrect == NetSpec => []NetTypeOK
<1>1. NetInv => NetTypeOK
  BY DEF NetInv, NetTypes, IInv, MemoryInv, OutputInv, TypeOK, NetTypeOK
<1> QED
  BY <1>1, NetInvariance, PTL

\* However many segments are lost, repeated or on their way, the host never
\* acknowledges what the peer has not used, a FIN and the byte on it among it, as
\* long as no user closes and no peer answers with a reset: AcksOnlySent names both
\* exceptions.
THEOREM AcksCorrect == NetSpec => []AcksOnlySent
<1>1. NetInv => AcksOnlySent
  BY DEF NetInv, UsedInv, Acknowledges, Elements, AcksOnlySent
<1> QED
  BY <1>1, NetInvariance, PTL


-----------------------------------------------------------------------------
(* No handshake that was begun is reset.  Up to the moment the peer is open, *)
(* every number that is exchanged is one behind a SYN, so the peer finds its  *)
(* own in every acknowledgement.                                             *)

\* What comes to a peer that has not begun was sent by "connect".
Refuses == peer.st = "CLOSED" /\ toPeer # <<>> => "connect" \in scenario.user

\* A FIN of the user, which comes in front of any acknowledgement: the peer takes it.
EarlyFin(g) == g.seq = 1 /\ IsFin(g) /\ ~IsSyn(g)

AtStart ==
  /\ \A g \in Elements(toHost) : Answer(g) \/ Opener(g)
  /\ \A g \in Elements(toPeer) : "ACK" \in g.flags => Position(g.ack) = 1
  /\ \A id \in DOMAIN conn : conn[id].tcpState # "SYN_SENT" => Position(conn[id].rcv_nxt) = 1
  /\ Hears("ESTABLISHED") => conn[Slot].snd_nxt = 1
  /\ Hears("FIN_WAIT1") => /\ \A g \in Elements(toHost) : Answer(g)
                           /\ \A g \in Elements(toPeer) : EarlyFin(g)

RefusalInv ==
  /\ OnlyRefusals
  /\ NotReset => Refuses /\ (peer.st \in {"SYN_SENT", "SYN_RECV"} => AtStart)

LEMMA SlotFacts ==
  ASSUME NetInv, Slot # NoConn
  PROVE  Slot \in DOMAIN conn /\ conn[Slot] \in Connection /\ ConnInv(conn[Slot])
<1>1. RxKey(1, Flow) \in Keys
  BY Here, RxKeyFacts DEF NetInv, IInv
<1> QED
  BY <1>1, Here, EntryFacts DEF NetInv, IInv, Slot

\* A repeated SYN lies in front of the window.
LEMMA SynRefused ==
  ASSUME NEW c \in Connection, Position(c.rcv_nxt) = 1, NEW g, IsSyn(g), Occupies(g)
  PROVE  ~Acceptable(c, g)
<1>1. g.len = 0 /\ g.seq = PeerISS
  BY DEF Occupies
<1>2. c.rcv_nxt = Plus(PeerISS, 1) /\ c.rcv_wnd \in Windows
  BY PositionISS, PositionInjective DEF Connection
<1> QED
  BY <1>1, <1>2, PositionISS, SeqAssumption
  DEF Acceptable, segment_check, is_between_wrapped, wrapping_lt, Plus, Minus, SeqNum,
      Windows, Modulus

LEMMA PeerMovesRefuse ==
  ASSUME NetInv, PeerMoves, RefusalInv
  PROVE  RefusalInv'
<1>1. /\ UNCHANGED <<conn, table, rxPad, scenario>> /\ (NotReset' => NotReset)
      /\ \A st : Hears(st)' <=> Hears(st)
  BY PeerMoveFacts DEF PeerMoves, NotReset, vars, Hears, Slot, RxKey
<1>2. /\ Elements(toPeer') \subseteq Elements(toPeer)
      /\ TakesOldest => Head(toPeer) \in Elements(toPeer)
      /\ toPeer' = toPeer \/ TakesOldest
  BY PeerMoveFacts DEF PeerMoves
<1>3. \/ SilentMove
      \/ \E g \in Segment : /\ toHost' = Append(toHost, g)
                            /\ ResetMove(g) \/ SynMove(g) \/ AckMove(g) \/ StreamMove(g)
  BY DEF PeerMoves
<1>4. ASSUME peer'.st \in {"SYN_SENT", "SYN_RECV"} PROVE peer.st # "OPEN"
  BY <1>3, <1>4 DEF SilentMove, ResetMove, SynMove, AckMove, StreamMove
<1>5. ASSUME peer'.st = "CLOSED" PROVE peer.st = "CLOSED"
  BY <1>3, <1>5, PeerFacts DEF SilentMove, ResetMove, SynMove, AckMove, StreamMove, Peers
<1>6. OnlyRefusals'
  <2> SUFFICES ASSUME peer'.reset PROVE scenario.opens /\ "connect" \in scenario.user
    BY <1>1 DEF OnlyRefusals
  <2>1. CASE peer.reset
    BY <2>1 DEF RefusalInv, OnlyRefusals
  <2>2. CASE NotReset
    <3>1. PICK g \in Segment : ResetMove(g)
      BY <1>3, <2>2 DEF NotReset, SilentMove, SynMove, AckMove, StreamMove
    <3>2. PICK h \in Elements(toPeer) : h = Head(toPeer)
      BY <1>2, <3>1 DEF ResetMove
    <3>3. CASE peer.st = "CLOSED"
      <4>1. "ACK" \notin h.flags
        BY <2>2, <3>3 DEF NetInv, ClosedInv, BareSyn
      <4> QED
        BY <2>2, <3>1, <3>2, <3>3, <4>1 DEF ResetMove, RefusalInv, Refuses, TakesOldest
    <3>4. CASE peer.st \in {"SYN_SENT", "SYN_RECV"} /\ "ACK" \in h.flags /\ h.ack # peer.nxt
      <4>1. Position(h.ack) = 1 /\ Position(peer.nxt) = 1
        BY <2>2, <3>4, PeerFacts DEF RefusalInv, AtStart, PeerOK
      <4>2. h.ack \in SeqNum /\ peer.nxt \in SeqNum
        BY <3>1, <3>2, PeerFacts, TakenFacts DEF ResetMove
      <4> QED
        BY <3>4, <4>1, <4>2, PositionInjective
    <3> QED
      BY <3>1, <3>2, <3>3, <3>4 DEF ResetMove
  <2> QED
    BY <2>1, <2>2 DEF NotReset
<1>7. ASSUME NotReset' PROVE Refuses'
  BY <1>1, <1>2, <1>5, <1>7 DEF RefusalInv, Refuses, TakesOldest
<1>8. ASSUME NotReset', peer'.st \in {"SYN_SENT", "SYN_RECV"} PROVE AtStart'
  <2>1. peer.st \in {"CLOSED", "SYN_SENT", "SYN_RECV"} /\ NotReset
    BY <1>1, <1>4, <1>8, PeerFacts DEF Peers
  <2>2. AtStart
    <3>1. CASE peer.st = "CLOSED"
      <4>1. Elements(toHost) = {}
        BY <2>1, <3>1, EmptyFacts DEF NetInv, ClosedInv
      <4>2. \A g \in Elements(toPeer) : "ACK" \notin g.flags
        BY <2>1, <3>1 DEF NetInv, ClosedInv, BareSyn
      <4>3. \A id \in DOMAIN conn : conn[id].tcpState = "SYN_SENT"
        BY <2>1, <3>1 DEF NetInv, ClosedInv
      <4>4. ~Hears("ESTABLISHED") /\ ~Hears("FIN_WAIT1")
        <5>1. Slot # NoConn => Slot \in DOMAIN conn
          BY Here, RxKeyFacts, EntryFacts DEF NetInv, IInv, Slot
        <5> QED
          BY <4>3, <5>1 DEF Hears
      <4> QED
        BY <4>1, <4>2, <4>3, <4>4 DEF AtStart
    <3> QED
      BY <2>1, <3>1 DEF RefusalInv
  <2>3. ASSUME NEW g \in Elements(toHost'), g \notin Elements(toHost)
        PROVE  Answer(g) \/ (Opener(g) /\ ~Hears("FIN_WAIT1"))
    <3>1. PICK h \in Segment : /\ toHost' = Append(toHost, h)
                               /\ ResetMove(h) \/ SynMove(h) \/ AckMove(h) \/ StreamMove(h)
      BY <1>3, <2>3 DEF SilentMove
    <3>2. g = h
      BY <2>3, <3>1, AppendFacts DEF NetInv, NetTypes
    <3>3. ~ResetMove(h) /\ ~StreamMove(h)
      BY <1>8, PeerFacts DEF ResetMove, StreamMove, NotReset, Peers
    <3>4. CASE SynMove(h)
      BY <3>2, <3>4 DEF SynMove
    <3>5. CASE AckMove(h)
      <4>1. /\ TakesOldest /\ peer.st = "SYN_RECV" /\ Opener(h)
            /\ ~PeerAccepts(Head(toPeer))
        BY <1>8, <3>5 DEF AckMove
      <4>2. ASSUME Hears("FIN_WAIT1") PROVE FALSE
        <5>1. PICK o \in Elements(toPeer) : o = Head(toPeer)
          BY <1>2, <4>1
        <5>2. EarlyFin(o)
          BY <2>2, <4>2, <5>1 DEF AtStart
        <5>3. peer.rcv = 1 /\ o.len \in Nat
          BY <4>1, PeerFacts, SeqAssumption DEF PeerOK, NetInv, ToPeerInv, Windows
        <5>4. Content(o) = o.len + 1 /\ "SYN" \notin o.flags
          BY <5>2 DEF EarlyFin, Content, IsFin, IsSyn
        <5>5. Minus(peer.rcv, o.seq) = 0
          BY <5>2, <5>3, HalfSpacePositive DEF EarlyFin, Minus, Modulus
        <5> QED
          BY <4>1, <5>1, <5>3, <5>4, <5>5 DEF PeerAccepts
      <4> QED
        BY <3>2, <4>1, <4>2
    <3> QED
      BY <3>1, <3>3, <3>4, <3>5
  <2>4. \A g \in Elements(toHost') : Answer(g) \/ Opener(g)
    BY <2>2, <2>3 DEF AtStart
  <2>5. Hears("FIN_WAIT1") => \A g \in Elements(toHost') : Answer(g)
    BY <2>2, <2>3 DEF AtStart
  <2>6. Slot' = Slot
    BY <1>1 DEF Slot, RxKey
  <2> QED
    BY <1>1, <1>2, <2>2, <2>4, <2>5, <2>6
    DEF AtStart, Elements, Answer, Opener, IsSyn, EarlyFin, IsFin
<1> QED
  BY <1>6, <1>7, <1>8 DEF RefusalInv

\* What is exchanged stays at the start when a connection becomes d, and what it
\* sends acknowledges the number behind the peer's SYN.
LEMMA StoresAtStart ==
  ASSUME NetInv, AtStart, HostOutput, tx' \subseteq Output, UNCHANGED <<scenario, peer>>,
         Elements(toHost') \subseteq Elements(toHost), NEW id, NEW d, Stores(id, d),
         Slot' # NoConn => Slot' = id, Position(d.rcv_nxt) = 1,
         d.tcpState = "ESTABLISHED" => d.snd_nxt = 1, d.tcpState # "FIN_WAIT1"
  PROVE  AtStart'
<1>1. \A g \in Elements(toPeer') : "ACK" \in g.flags => Position(g.ack) = 1
  BY OutputFacts DEF AtStart, Stores
<1>2. \A x \in DOMAIN conn' : conn'[x].tcpState # "SYN_SENT" => Position(conn'[x].rcv_nxt) = 1
  BY DEF AtStart, Stores
<1>3. Slot' # NoConn => conn'[Slot'] = d
  BY DEF Stores
<1>4. (Hears("ESTABLISHED")' => conn'[Slot'].snd_nxt = 1) /\ ~Hears("FIN_WAIT1")'
  BY <1>3 DEF Hears
<1>5. \A g \in Elements(toHost') : Answer(g) \/ Opener(g)
  BY DEF AtStart
<1> QED
  BY <1>1, <1>2, <1>4, <1>5 DEF AtStart, Elements, Answer, Opener, IsSyn

LEMMA TakingAtStart ==
  ASSUME NetInv, AtStart, NEW g \in Elements(toHost), g \in Segment, Occupies(g), HostMoves(g),
         HostOutput, tx' \subseteq Output, UNCHANGED <<scenario, peer>>,
         Elements(toHost') \subseteq Elements(toHost), peer.st # "OPEN",
         Hears("SYN_SENT") => Answer(g)
  PROVE  AtStart'
<1> DEFINE c == conn[Slot]
<1>1. Answer(g) \/ Opener(g)
  BY DEF AtStart
<1>2. ~IsFin(g) /\ (IsSyn(g) => g.seq = PeerISS)
  BY FinSent DEF Occupies
<1>3. ASSUME Slot # NoConn, c.tcpState # "SYN_SENT"
      PROVE  Position(c.rcv_nxt) = 1 /\ (Acceptable(c, g) => Opener(g))
  <2>1. Position(c.rcv_nxt) = 1 /\ c \in Connection
    BY <1>3, SlotFacts DEF AtStart
  <2> QED
    BY <1>1, <2>1, SynRefused DEF Answer
<1>4. CASE Ignores(g) \/ Ends
  <2>1. /\ DOMAIN conn' \subseteq DOMAIN conn /\ \A x \in DOMAIN conn' : conn'[x] = conn[x]
        /\ tx' = {} /\ (Slot' = Slot \/ Slot' = NoConn)
        /\ Slot' # NoConn => conn'[Slot'] = conn[Slot]
    BY <1>4 DEF Ignores, Quiet, Ends
  <2>2. toPeer' = toPeer
    BY <2>1, OutputFacts
  <2>3. /\ Hears("ESTABLISHED")' => Hears("ESTABLISHED") /\ Slot' = Slot /\ Slot # NoConn
        /\ Hears("FIN_WAIT1")' => Hears("FIN_WAIT1")
    BY <2>1 DEF Hears
  <2>4. Hears("ESTABLISHED")' => conn'[Slot'].snd_nxt = 1
    BY <2>1, <2>3 DEF AtStart
  <2>5. /\ \A h \in Elements(toHost') : Answer(h) \/ Opener(h)
        /\ Hears("FIN_WAIT1")' => \A h \in Elements(toHost') : Answer(h)
        /\ Hears("FIN_WAIT1")' => \A h \in Elements(toPeer') : EarlyFin(h)
    BY <2>2, <2>3 DEF AtStart
  <2>6. /\ \A h \in Elements(toPeer') : "ACK" \in h.flags => Position(h.ack) = 1
        /\ \A x \in DOMAIN conn' : conn'[x].tcpState # "SYN_SENT"
                                     => Position(conn'[x].rcv_nxt) = 1
    BY <2>1, <2>2 DEF AtStart
  <2> QED
    BY <2>4, <2>5, <2>6
    DEF AtStart, Elements, Answer, Opener, IsSyn, IsFin, EarlyFin
<1>5. CASE Listens(g)
  <2>1. PICK id, d : /\ Stores(id, d) /\ Slot' \in {id, NoConn} /\ d.tcpState = "SYN_RECV"
                     /\ d.rcv_nxt = Plus(g.seq, 1)
    BY <1>5 DEF Listens
  <2>2. Position(d.rcv_nxt) = 1
    BY <1>2, <1>5, <2>1, PositionISS DEF Listens, BareSyn, IsSyn
  <2> QED
    BY <2>1, <2>2, StoresAtStart
<1>6. CASE Handshakes(g)
  <2>1. PICK d \in Connection :
          /\ Updates(d) /\ d.rcv_nxt = c.rcv_nxt /\ d.snd_nxt = c.snd_nxt
          /\ d.tcpState \in {"SYN_RECV", "ESTABLISHED"}
    BY <1>6 DEF Handshakes
  <2>2. Slot # NoConn /\ c.tcpState = "SYN_RECV"
    BY <1>6 DEF Handshakes, Hears
  <2>3. c.snd_nxt = 1 /\ Position(c.rcv_nxt) = 1
    BY <1>3, <2>2, SlotFacts, PositionISS DEF ConnInv
  <2> QED
    BY <2>1, <2>3, StoresAtStart DEF Updates
<1>7. CASE Connects(g)
  <2>1. Slot # NoConn /\ c.tcpState = "SYN_SENT" /\ Answer(g)
    BY <1>7 DEF Connects, Hears
  <2>2. PICK d \in Connection :
          /\ Updates(d) /\ d.rcv_nxt = Plus(g.seq, 1) /\ d.snd_nxt = c.snd_nxt
          /\ d.tcpState \in {"SYN_SENT", "ESTABLISHED"}
    BY <1>7 DEF Connects
  <2>3. c.snd_nxt = 1 /\ Position(d.rcv_nxt) = 1
    BY <1>2, <2>1, <2>2, SlotFacts, PositionISS DEF ConnInv, Answer
  <2> QED
    BY <2>2, <2>3, StoresAtStart DEF Updates
<1>8. CASE Advances(g)
  <2>1. Slot # NoConn /\ c.tcpState = "ESTABLISHED" /\ Acceptable(c, g)
    BY <1>8 DEF Advances, Hears
  <2>2. Position(c.rcv_nxt) = 1 /\ g.len = 0 /\ g.ack = 1
    BY <1>3, <2>1 DEF Opener
  <2>3. PICK d \in Connection :
          /\ Updates(d) /\ d.tcpState = "ESTABLISHED" /\ d.snd_nxt = g.ack
          /\ d.rcv_nxt = c.rcv_nxt
    BY <1>8, <2>2 DEF Advances
  <2> QED
    BY <2>2, <2>3, StoresAtStart DEF Updates
<1>9. ~PeerEnds(g)
  BY <1>2 DEF PeerEnds
<1>10. ~CloseEnds(g)
  <2> SUFFICES ASSUME Hears("FIN_WAIT1"), Acceptable(c, g) PROVE FALSE
    BY DEF CloseEnds
  <2>1. IsSyn(g)
    BY DEF AtStart, Answer
  <2> QED
    BY <1>3, <2>1 DEF Hears, Opener, IsSyn
<1> QED
  BY <1>4, <1>5, <1>6, <1>7, <1>8, <1>9, <1>10 DEF HostMoves

LEMMA CommandAtStart ==
  ASSUME NetInv, AtStart, UserSends \/ UserCloses, HostOutput, tx' \subseteq Output,
         UNCHANGED <<scenario, peer, toHost>>
  PROVE  AtStart'
<1>1. Slot # NoConn /\ conn[Slot].tcpState = "ESTABLISHED"
  BY DEF UserSends, UserCloses, Hears
<1>2. conn[Slot].snd_nxt = 1 /\ Position(conn[Slot].rcv_nxt) = 1
  BY <1>1, SlotFacts DEF AtStart, Hears
<1>3. CASE UserSends
  <2>1. PICK d \in Connection :
          /\ Updates(d) /\ d.tcpState = "ESTABLISHED" /\ d.rcv_nxt = conn[Slot].rcv_nxt
          /\ d.snd_nxt = conn[Slot].snd_nxt
    BY <1>3 DEF UserSends
  <2> QED
    BY <1>2, <2>1, StoresAtStart DEF Updates
<1>4. CASE UserCloses
  <2>1. PICK d \in Connection :
          /\ Updates(d) /\ d.tcpState = "FIN_WAIT1" /\ d.rcv_nxt = conn[Slot].rcv_nxt
          /\ \A o \in tx' : o.flags = {"FIN", "ACK"} /\ o.seq = conn[Slot].snd_nxt
    BY <1>4 DEF UserCloses
  <2>2. Elements(toHost) = {} /\ Elements(toPeer) = {}
    <3>1. Len(toHost) \in Nat /\ Len(toPeer) \in Nat
      BY DEF NetInv, NetTypes
    <3>2. Len(toHost) = 0 /\ Len(toPeer) = 0
      BY <1>4, <3>1 DEF UserCloses, InFlight
    <3> QED
      BY <3>2 DEF Elements
  <2>3. /\ \A h \in Elements(toPeer') : h \in tx'
        /\ \A h \in Elements(toHost') : FALSE
    BY <2>2, OutputFacts
  <2>4. \A h \in Elements(toPeer') : EarlyFin(h) /\ Position(h.ack) = 1
    BY <1>2, <2>1, <2>3 DEF EarlyFin, IsFin, IsSyn, Updates, Stores
  <2>5. conn'[Slot'].tcpState = "FIN_WAIT1" /\ ~Hears("ESTABLISHED")'
    BY <2>1 DEF Updates, Stores, Hears
  <2>6. \A x \in DOMAIN conn' : conn'[x].tcpState # "SYN_SENT" => Position(conn'[x].rcv_nxt) = 1
    BY <1>2, <2>1 DEF AtStart, Updates, Stores
  <2> QED
    BY <2>3, <2>4, <2>5, <2>6
    DEF AtStart, Elements, Answer, Opener, IsSyn, IsFin, EarlyFin
<1> QED
  BY <1>3, <1>4

LEMMA HostRefuses ==
  ASSUME NetInv, NetInv', RefusalInv, HostReceive \/ HostCommand
  PROVE  RefusalInv'
<1>1. UNCHANGED <<scenario, peer>> /\ HostOutput /\ tx' \subseteq Output
  BY DEF HostReceive, HostCommand, NetInv, IInv, OutputInv
<1>2. OnlyRefusals'
  BY <1>1 DEF RefusalInv, OnlyRefusals
<1> SUFFICES ASSUME NotReset PROVE Refuses' /\ (peer.st \in {"SYN_SENT", "SYN_RECV"} => AtStart')
  BY <1>1, <1>2 DEF RefusalInv, NotReset
<1>3. CASE HostReceive
  <2>1. PICK g : g = Head(toHost)
    OBVIOUS
  <2>2. toHost # <<>> /\ toHost' = Tail(toHost) /\ Receive(1, Flow, g)
    BY <1>3, <2>1 DEF HostReceive
  <2>3. /\ g \in Elements(toHost) /\ g \in Segment /\ Occupies(g)
        /\ Elements(toHost') \subseteq Elements(toHost)
    BY <2>1, <2>2, TailFacts DEF NetInv, NetTypes, ToHostInv
  <2>4. HostMoves(g) /\ peer.st # "CLOSED" /\ (Hears("SYN_SENT") => Answer(g))
    BY <2>2, <2>3, ReceiveOutcome DEF NetInv, ClosedInv, OpeningInv
  <2>5. peer.st \in {"SYN_SENT", "SYN_RECV"} => AtStart'
    BY <1>1, <2>3, <2>4, TakingAtStart DEF RefusalInv
  <2> QED
    BY <1>1, <2>4, <2>5 DEF Refuses
<1>4. CASE HostCommand
  <2>1. UserMoves /\ UNCHANGED <<scenario, peer, toHost>>
    BY <1>4, CommandOutcome
  <2>2. peer.st \in {"SYN_SENT", "SYN_RECV"} => AtStart'
    BY <1>1, <2>1, CommandAtStart DEF RefusalInv, UserMoves, UserOpens
  <2>3. ASSUME peer.st = "CLOSED" PROVE "connect" \in scenario.user
    <3>1. ~Hears("ESTABLISHED")
      BY <2>3, SlotFacts DEF NetInv, ClosedInv, Hears
    <3> QED
      BY <2>1, <3>1 DEF UserMoves, UserOpens, UserSends, UserCloses
  <2> QED
    BY <1>1, <2>2, <2>3 DEF Refuses
<1> QED
  BY <1>3, <1>4

LEMMA LoseRefuses ==
  ASSUME NetInv, RefusalInv, Lose
  PROVE  RefusalInv'
<1>1. /\ UNCHANGED <<scenario, peer, conn>> /\ Slot' = Slot
      /\ \A st : Hears(st)' <=> Hears(st)
  BY DEF Lose, vars, Slot, RxKey, Hears
<1>2. /\ Elements(toHost') \subseteq Elements(toHost) /\ Elements(toPeer') \subseteq Elements(toPeer)
      /\ toPeer' # <<>> => toPeer # <<>>
  BY TailFacts DEF Lose, NetInv, NetTypes
<1>3. AtStart => AtStart'
  BY <1>1, <1>2 DEF AtStart, Elements, Answer, Opener, IsSyn, IsFin, EarlyFin
<1> QED
  BY <1>1, <1>2, <1>3 DEF RefusalInv, OnlyRefusals, NotReset, Refuses

LEMMA RefusalStutters ==
  ASSUME RefusalInv, UNCHANGED netVars
  PROVE  RefusalInv'
<1>1. UNCHANGED <<scenario, peer, toHost, toPeer>> /\ UNCHANGED <<conn, table, rxPad>>
  BY DEF netVars, vars
<1>2. Slot' = Slot /\ \A st : Hears(st)' <=> Hears(st)
  BY <1>1 DEF Slot, RxKey, Hears
<1>3. AtStart => AtStart'
  BY <1>1, <1>2 DEF AtStart, Elements, Answer, Opener, IsSyn, IsFin, EarlyFin
<1> QED
  BY <1>1, <1>3 DEF RefusalInv, OnlyRefusals, NotReset, Refuses

\* However SYNs cross, are repeated or lost, no handshake that was begun is reset:
\* the peer finds its own number in every acknowledgement.  The one exception, which
\* OnlyRefusals names, is the "connect" to a peer that does not listen.
THEOREM ResetsCorrect == NetSpec => []OnlyRefusals
<1>1. NetInit => RefusalInv
  BY DEF NetInit, RefusalInv, OnlyRefusals, Refuses
<1>2. NetInv /\ NetInv' /\ RefusalInv /\ [NetNext]_netVars => RefusalInv'
  BY PeerStepMoves, PeerMovesRefuse, HostRefuses, LoseRefuses, RefusalStutters DEF NetNext
<1>3. RefusalInv => OnlyRefusals
  BY DEF RefusalInv
<1> QED
  BY <1>1, <1>2, <1>3, NetInvariance, PTL DEF NetSpec

=============================================================================
