-------------------------- MODULE TcpStreamProofs --------------------------
(***************************************************************************)
(* Proofs about the peer's stream in TcpNet: the user is shown it from its *)
(* start, and what the peer may forget because it was acknowledged has     *)
(* been shown, for every scenario, every padding of the keys and every     *)
(* size of the tables.                                                     *)
(***************************************************************************)
EXTENDS TcpNetProofs, WellFoundedInduction

(***************************************************************************)
(* When nothing is lost, every byte the peer has sent is printed or on its *)
(* way, and on its way in front of whatever follows it in the stream.      *)
(***************************************************************************)

\* Byte n is in one of the k oldest segments.
Carried(n, k) == \E j \in 1 .. k : IsData(toHost[j]) /\ Position(toHost[j].seq) = n

\* The bytes the peer has sent before its FIN.
SentBytes == {n \in 1 .. scenario.bytes : n < Limit(peer)}

Covered ==
  /\ \A i \in 1 .. Len(toHost), n \in SentBytes :
       Starts(toHost[i]) /\ n < Position(toHost[i].seq) => n \in shown \/ Carried(n, i - 1)
  /\ \A n \in SentBytes : n \in shown \/ Carried(n, Len(toHost))

Prefix == \A n \in shown : 1 .. n \subseteq shown

(***************************************************************************)
(* So that the receive loop does not miss a byte, its connection has to be *)
(* open before the first one comes.  Up to then what comes are SYNs and    *)
(* the acknowledgement of the host's own.  A connection that a FIN has     *)
(* ended, or that found no place in the table, prints nothing any more.    *)
(***************************************************************************)

Early   == peer.st \in {"CLOSED", "SYN_SENT"}
Waiting == Early \/ \E g \in Elements(toHost) : BareSyn(g)
Dead    == ~Waiting /\ (Slot # NoConn => Hears("FIN_WAIT1") \/ Hears("LAST_ACK"))

SynsFirst == \A i, j \in 1 .. Len(toHost) : j < i /\ BareSyn(toHost[i]) => BareSyn(toHost[j])

AllSyns(queue) == \A i \in 1 .. Len(queue) : IsSyn(queue[i])

OpenerFirst == \E i \in 1 .. Len(toHost) :
                 Opener(toHost[i]) /\ \A j \in 1 .. (i - 1) : IsSyn(toHost[j])
OpenerReady == OpenerFirst \/ (peer.st # "OPEN" /\ AllSyns(toHost))

\* A connection that still takes the peer's bytes.
Takes == \/ Hears("SYN_SENT") \/ Hears("ESTABLISHED")
         \/ Hears("SYN_RECV") /\ Position(conn[Slot].rcv_nxt) = 1

SlotOK ==
  /\ Slot = NoConn => Waiting
  /\ Slot # NoConn => Takes /\ conn[Slot].rcv_wnd # 0
  /\ Slot = NoConn \/ Hears("SYN_RECV") => AllSyns(toPeer) /\ OpenerReady
  /\ Early /\ (Hears("SYN_SENT") \/ Hears("ESTABLISHED"))
       => \E g \in Elements(toPeer) : BareSyn(g)

OrderInv == /\ Prefix /\ SynsFirst
            /\ Early => \A g \in Elements(toHost) : BareSyn(g)
            /\ Dead \/ (Covered /\ SlotOK)

StreamInv == NotReset /\ ~scenario.lossy => OrderInv

(***************************************************************************)
(* What is acknowledged has been printed: all bytes in front of the number *)
(* a are.                                                                  *)
(***************************************************************************)

Safe(a) == \A n \in SentBytes : n < Position(a) => n \in shown

\* A connection that has heard of the peer acknowledges only what is printed.
EdgesSafe ==
  \A id \in DOMAIN conn : conn[id].tcpState # "SYN_SENT" => Safe(conn[id].rcv_nxt)

AckedInv ==
  NotReset /\ NoClose /\ NoGaps =>
    /\ Prefix
    /\ Safe(peer.una)
    /\ \A g \in Elements(toPeer) : "ACK" \in g.flags => Safe(g.ack)
    /\ EdgesSafe
    /\ scenario.lossy => \A g \in Elements(toHost) : Starts(g) => Safe(g.seq)

-----------------------------------------------------------------------------
(* Queues *)

LEMMA TailIndex ==
  ASSUME NEW S, NEW queue \in Seq(S), queue # <<>>
  PROVE  /\ Len(queue) \in Nat \ {0} /\ Len(Tail(queue)) = Len(queue) - 1
         /\ \A i \in 1 .. Len(Tail(queue)) : Tail(queue)[i] = queue[i + 1]
         /\ Head(queue) = queue[1]
PROOF OBVIOUS

LEMMA AppendIndex ==
  ASSUME NEW S, NEW queue \in Seq(S), NEW e
  PROVE  /\ Len(queue) \in Nat /\ Len(Append(queue, e)) = Len(queue) + 1
         /\ \A i \in 1 .. Len(queue) : Append(queue, e)[i] = queue[i]
         /\ Append(queue, e)[Len(queue) + 1] = e
PROOF OBVIOUS

\* What is not the oldest stays.
LEMMA TailKeeps ==
  ASSUME NEW S, NEW queue \in Seq(S), queue # <<>>,
         NEW e \in Elements(queue), e # Head(queue)
  PROVE  e \in Elements(Tail(queue))
<1>1. PICK i \in 1 .. Len(queue) : e = queue[i]
  BY DEF Elements
<1>2. /\ Len(queue) \in Nat \ {0} /\ Len(Tail(queue)) = Len(queue) - 1
      /\ \A j \in 1 .. Len(Tail(queue)) : Tail(queue)[j] = queue[j + 1]
      /\ Head(queue) = queue[1]
  BY TailIndex
<1>3. i # 1
  BY <1>1, <1>2
<1>4. i - 1 \in 1 .. Len(Tail(queue)) /\ e = Tail(queue)[i - 1]
  BY <1>1, <1>2, <1>3
<1> QED
  BY <1>4 DEF Elements

\* The positions of what is on its way to the host.
LEMMA ToHostFacts ==
  ASSUME NetInv, NEW i \in 1 .. Len(toHost)
  PROVE  /\ toHost[i] \in Elements(toHost) /\ toHost[i] \in Segment /\ Occupies(toHost[i])
         /\ Position(toHost[i].seq) \in Nat
<1>1. toHost[i] \in Elements(toHost)
  BY DEF Elements
<1>2. toHost[i] \in Segment /\ Occupies(toHost[i])
  BY <1>1 DEF NetInv, NetTypes, ToHostInv
<1> QED
  BY <1>1, <1>2, PositionType DEF Segment

-----------------------------------------------------------------------------
(* The stream as the host takes the oldest segment, and as the peer adds one. *)

LEMMA TailCovered ==
  ASSUME NetInv, Covered, toHost # <<>>, toHost' = Tail(toHost), UNCHANGED <<scenario, peer>>,
         shown \subseteq shown', IsData(Head(toHost)) => Position(Head(toHost).seq) \in shown'
  PROVE  Covered'
<1>1. /\ Len(toHost) \in Nat \ {0} /\ Len(toHost') = Len(toHost) - 1
      /\ \A i \in 1 .. Len(toHost') : toHost'[i] = toHost[i + 1]
      /\ Head(toHost) = toHost[1]
  BY TailIndex DEF NetInv, NetTypes
<1>2. SentBytes' = SentBytes
  BY DEF SentBytes, Limit
<1>3. ASSUME NEW n, NEW k \in 0 .. Len(toHost'), n \in shown \/ Carried(n, k + 1)
      PROVE  n \in shown' \/ Carried(n, k)'
  <2>1. CASE n \in shown
    BY <2>1
  <2>2. CASE Carried(n, k + 1)
    <3>1. PICK j \in 1 .. (k + 1) : IsData(toHost[j]) /\ Position(toHost[j].seq) = n
      BY <2>2 DEF Carried
    <3>2. CASE j = 1
      BY <1>1, <3>1, <3>2
    <3>3. CASE j # 1
      <4>1. j - 1 \in 1 .. k /\ j - 1 \in 1 .. Len(toHost') /\ toHost'[j - 1] = toHost[j]
        BY <1>1, <1>3, <3>1, <3>3
      <4>2. IsData(toHost'[j - 1]) /\ Position(toHost'[j - 1].seq) = n
        BY <3>1, <4>1
      <4> QED
        BY <4>1, <4>2 DEF Carried, IsData, IsFin
    <3> QED
      BY <3>2, <3>3
  <2> QED
    BY <1>3, <2>1, <2>2
<1>4. ASSUME NEW i \in 1 .. Len(toHost'), NEW n \in SentBytes,
             Starts(toHost'[i]), n < Position(toHost'[i].seq)
      PROVE  n \in shown' \/ Carried(n, i - 1)'
  <2>1. i + 1 \in 1 .. Len(toHost) /\ toHost'[i] = toHost[i + 1] /\ i \in Nat
    BY <1>1
  <2>2. n \in shown \/ Carried(n, (i + 1) - 1)
    BY <1>4, <2>1 DEF Covered
  <2>3. i - 1 \in 0 .. Len(toHost') /\ (i + 1) - 1 = (i - 1) + 1
    BY <1>1, <2>1
  <2> QED
    BY <1>3, <2>2, <2>3
<1>5. ASSUME NEW n \in SentBytes PROVE n \in shown' \/ Carried(n, Len(toHost))'
  <2>0. Len(toHost') \in 0 .. Len(toHost') /\ Len(toHost') + 1 = Len(toHost)
    BY <1>1
  <2>1. PICK k \in 0 .. Len(toHost') : k = Len(toHost') /\ k + 1 = Len(toHost)
    BY <2>0
  <2>2. n \in shown \/ Carried(n, k + 1)
    BY <1>5, <2>1 DEF Covered
  <2>3. n \in shown' \/ Carried(n, k)'
    BY <1>3, <2>2
  <2> QED
    BY <2>1, <2>3 DEF Carried
<1> QED
  BY <1>2, <1>4, <1>5 DEF Covered, Starts, IsFin

\* n bytes are covered when the one that follows them in the queue goes on its way.
LEMMA AppendCovered ==
  ASSUME NetInv, Covered, NEW g \in Segment, toHost' = Append(toHost, g),
         UNCHANGED <<scenario, shown>>, peer' \in Peers,
         \/ Limit(peer') = Limit(peer)
         \/ Limit(peer') = 1 /\ ~Starts(g) /\ \A h \in Elements(toHost) : ~Starts(h)
         \/ /\ peer.fin = 0 /\ IsData(g)
            /\ Position(g.seq) = Limit(peer) /\ Limit(peer') = Limit(peer) + 1
  PROVE  Covered'
<1>1. /\ Len(toHost) \in Nat /\ Len(toHost') = Len(toHost) + 1
      /\ \A i \in 1 .. Len(toHost) : toHost'[i] = toHost[i]
      /\ toHost'[Len(toHost) + 1] = g
  BY AppendIndex DEF NetInv, NetTypes
<1>2. /\ Limit(peer) \in Int /\ Limit(peer') \in Int /\ scenario.bytes \in Nat
      /\ peer.fin = 0 => Limit(peer) = Position(peer.nxt)
  BY PeerFacts, PositionType DEF Limit, Peers
<1>3. ASSUME NEW n, NEW k \in 0 .. Len(toHost), n \in shown \/ Carried(n, k)
      PROVE  n \in shown' \/ Carried(n, k)'
  <2>1. \A j \in 1 .. k : toHost'[j] = toHost[j]
    BY <1>1
  <2> QED
    BY <1>3, <2>1 DEF Carried, IsData, IsFin
<1>4. ASSUME NEW i \in 1 .. Len(toHost'), NEW n \in SentBytes',
             Starts(toHost'[i]), n < Position(toHost'[i].seq)
      PROVE  n \in shown' \/ Carried(n, i - 1)'
  <2>1. n \in 1 .. scenario.bytes /\ n < Limit(peer')
    BY <1>4 DEF SentBytes
  <2>2. CASE i = Len(toHost) + 1
    <3>1. n \in SentBytes
      BY <1>1, <1>2, <1>4, <2>1, <2>2 DEF SentBytes
    <3>2. n \in shown \/ Carried(n, Len(toHost))
      BY <3>1 DEF Covered
    <3>3. Len(toHost) \in 0 .. Len(toHost) /\ i - 1 = Len(toHost)
      BY <1>1, <2>2
    <3> QED
      BY <1>3, <3>2, <3>3
  <2>3. CASE i # Len(toHost) + 1
    <3>1. i \in 1 .. Len(toHost) /\ toHost'[i] = toHost[i] /\ i - 1 \in 0 .. Len(toHost)
      BY <1>1, <2>3
    <3>2. /\ Position(toHost[i].seq) + 1 <= Position(peer.nxt)
          /\ Position(toHost[i].seq) \in Nat /\ toHost[i] \in Elements(toHost)
      BY <1>4, <3>1, ToHostFacts DEF Occupies
    <3>3. n \in SentBytes
      BY <1>2, <1>4, <2>1, <3>1, <3>2 DEF SentBytes
    <3>4. n \in shown \/ Carried(n, i - 1)
      BY <1>4, <3>1, <3>3 DEF Covered
    <3> QED
      BY <1>3, <3>1, <3>4
  <2> QED
    BY <2>2, <2>3
<1>5. ASSUME NEW n \in SentBytes' PROVE n \in shown' \/ Carried(n, Len(toHost))'
  <2>1. n \in 1 .. scenario.bytes /\ n < Limit(peer')
    BY <1>5 DEF SentBytes
  <2>2. CASE n \in SentBytes
    <3>1. n \in shown \/ Carried(n, Len(toHost))
      BY <2>2 DEF Covered
    <3>2. PICK k \in 0 .. Len(toHost) : k = Len(toHost)
      BY <1>1
    <3>3. n \in shown' \/ Carried(n, k)'
      BY <1>3, <3>1, <3>2
    <3> QED
      BY <1>1, <3>2, <3>3 DEF Carried
  <2>3. CASE n \notin SentBytes
    <3>1. IsData(g) /\ Position(g.seq) = n
      BY <1>2, <2>1, <2>3 DEF SentBytes
    <3>2. Len(toHost') \in 1 .. Len(toHost') /\ toHost'[Len(toHost')] = g
      BY <1>1
    <3>3. IsData(toHost'[Len(toHost')]) /\ Position(toHost'[Len(toHost')].seq) = n
      BY <3>1, <3>2
    <3> QED
      BY <3>2, <3>3 DEF Carried, IsData, IsFin
  <2> QED
    BY <2>2, <2>3
<1> QED
  BY <1>4, <1>5 DEF Covered, Starts, IsFin

-----------------------------------------------------------------------------
(* The peer keeps the order. *)

\* A peer that is not asked for its stream yet was not before, and sends only SYNs.
LEMMA EarlyMoves ==
  ASSUME NetInv, PeerMoves, NotReset', Early'
  PROVE  /\ Early
         /\ toPeer' = toPeer \/ (TakesOldest /\ ~BareSyn(Head(toPeer)))
         /\ \A g \in Segment : toHost' = Append(toHost, g) => BareSyn(g)
<1>1. \/ SilentMove
      \/ \E g \in Segment : /\ toHost' = Append(toHost, g)
                            /\ ResetMove(g) \/ SynMove(g) \/ AckMove(g) \/ StreamMove(g)
  BY DEF PeerMoves
<1>2. \A g \in Segment : toHost' = Append(toHost, g) =>
        /\ Len(toHost') = Len(toHost) + 1 /\ Len(toHost) \in Nat /\ toHost'[Len(toHost) + 1] = g
  BY AppendIndex DEF NetInv, NetTypes
<1>3. CASE SilentMove
  <2>1. toHost' = toHost /\ peer'.st \in {"CLOSED", "SYN_SENT"} /\ peer'.st = peer.st
    BY <1>3 DEF SilentMove, Early
  <2> QED
    BY <1>2, <1>3, <2>1 DEF SilentMove, Early
<1>4. ASSUME NEW g \in Segment, toHost' = Append(toHost, g),
             ResetMove(g) \/ SynMove(g) \/ AckMove(g) \/ StreamMove(g)
      PROVE  /\ Early /\ toPeer' = toPeer /\ BareSyn(g)
  <2>1. ~ResetMove(g)
    BY PeerFacts DEF ResetMove, NotReset, Peers
  <2>2. SynMove(g)
    BY <1>4, <2>1 DEF AckMove, StreamMove, Early
  <2> QED
    BY <2>2 DEF SynMove, Early
<1> QED
  BY <1>1, <1>2, <1>3, <1>4

LEMMA WaitingMoves ==
  ASSUME NetInv, PeerMoves, NotReset', Waiting'
  PROVE  Waiting
<1>1. CASE Early'
  BY <1>1, EarlyMoves DEF Waiting
<1>2. ASSUME NEW h \in Elements(toHost'), BareSyn(h)
      PROVE  Waiting
  <2>1. CASE SilentMove
    BY <1>2, <2>1 DEF SilentMove, Waiting
  <2>2. ASSUME NEW g \in Segment, toHost' = Append(toHost, g),
               ResetMove(g) \/ SynMove(g) \/ AckMove(g) \/ StreamMove(g)
        PROVE  Waiting
    <3>1. Elements(toHost') = Elements(toHost) \cup {g}
      BY <2>2, AppendFacts DEF NetInv, NetTypes
    <3>2. BareSyn(g) => Early
      <4>1. BareSyn(g) => IsSyn(g) /\ g.flags # {"ACK"}
        BY DEF BareSyn, IsSyn
      <4> QED
        BY <2>2, <4>1 DEF ResetMove, SynMove, AckMove, StreamMove, Early
    <3> QED
      BY <1>2, <3>1, <3>2 DEF Waiting
  <2> QED
    BY <2>1, <2>2 DEF PeerMoves
<1> QED
  BY <1>1, <1>2 DEF Waiting, BareSyn

\* The acknowledgement of the host's SYN comes in front of the stream.
LEMMA OpenerMoves ==
  ASSUME NetInv, PeerMoves, NotReset', AllSyns(toPeer), OpenerReady
  PROVE  OpenerReady'
<1>1. \/ SilentMove
      \/ \E g \in Segment : /\ toHost' = Append(toHost, g)
                            /\ ResetMove(g) \/ SynMove(g) \/ AckMove(g) \/ StreamMove(g)
  BY DEF PeerMoves
<1>2. TakesOldest => IsSyn(Head(toPeer))
  <2>1. TakesOldest => Len(toPeer) \in Nat \ {0} /\ Head(toPeer) = toPeer[1]
    BY TailIndex DEF TakesOldest, NetInv, NetTypes
  <2> QED
    BY <2>1 DEF AllSyns
<1>3. CASE SilentMove
  <2>1. toHost' = toHost /\ peer'.st = peer.st
    BY <1>2, <1>3 DEF SilentMove
  <2> QED
    BY <2>1 DEF OpenerReady, OpenerFirst, AllSyns, Opener, IsSyn
<1>4. ASSUME NEW g \in Segment, toHost' = Append(toHost, g),
             ResetMove(g) \/ SynMove(g) \/ AckMove(g) \/ StreamMove(g)
      PROVE  OpenerReady'
  <2>1. /\ Len(toHost) \in Nat /\ Len(toHost') = Len(toHost) + 1
        /\ \A i \in 1 .. Len(toHost) : toHost'[i] = toHost[i]
        /\ toHost'[Len(toHost) + 1] = g
    BY <1>4, AppendIndex DEF NetInv, NetTypes
  <2>2. CASE OpenerFirst
    <3>1. PICK i \in 1 .. Len(toHost) :
            Opener(toHost[i]) /\ \A j \in 1 .. (i - 1) : IsSyn(toHost[j])
      BY <2>2 DEF OpenerFirst
    <3>2. /\ i \in 1 .. Len(toHost') /\ toHost'[i] = toHost[i]
          /\ \A j \in 1 .. (i - 1) : toHost'[j] = toHost[j]
      BY <2>1
    <3>3. OpenerFirst'
      BY <3>1, <3>2 DEF OpenerFirst, Opener, IsSyn
    <3> QED
      BY <3>3 DEF OpenerReady
  <2>3. CASE peer.st # "OPEN" /\ AllSyns(toHost)
    <3>1. ~ResetMove(g) /\ ~StreamMove(g)
      BY <2>3, PeerFacts DEF ResetMove, StreamMove, NotReset, Peers
    <3>2. CASE SynMove(g)
      <4>1. IsSyn(g) /\ peer'.st # "OPEN"
        BY <3>2 DEF SynMove
      <4>2. \A i \in 1 .. Len(toHost') : IsSyn(toHost'[i])
        BY <2>1, <2>3, <4>1 DEF AllSyns
      <4> QED
        BY <4>1, <4>2 DEF OpenerReady, AllSyns, IsSyn
    <3>3. CASE AckMove(g)
      <4>1. Opener(g)
        BY <1>2, <2>3, <3>3 DEF AckMove
      <4>2. /\ Len(toHost') \in 1 .. Len(toHost') /\ toHost'[Len(toHost')] = g
            /\ \A j \in 1 .. (Len(toHost') - 1) : IsSyn(toHost'[j])
        BY <2>1, <2>3 DEF AllSyns
      <4>3. OpenerFirst'
        BY <4>1, <4>2 DEF OpenerFirst, Opener, IsSyn
      <4> QED
        BY <4>3 DEF OpenerReady
    <3> QED
      BY <1>4, <3>1, <3>2, <3>3
  <2> QED
    BY <2>2, <2>3 DEF OpenerReady
<1> QED
  BY <1>1, <1>3, <1>4

LEMMA CoveredMoves ==
  ASSUME NetInv, PeerMoves, NotReset', Covered
  PROVE  Covered'
<1>1. UNCHANGED <<scenario, shown>> /\ peer' \in Peers
  BY DEF PeerMoves
<1>2. CASE SilentMove
  <2>1. toHost' = toHost /\ Limit(peer') = Limit(peer)
    BY <1>2 DEF SilentMove, KeepsStream, Limit
  <2> QED
    BY <1>1, <2>1 DEF Covered, Carried, SentBytes, Starts, IsData, IsFin
<1>3. ASSUME NEW g \in Segment, toHost' = Append(toHost, g),
             ResetMove(g) \/ SynMove(g) \/ AckMove(g) \/ StreamMove(g)
      PROVE  Covered'
  <2>1. ~ResetMove(g)
    BY PeerFacts DEF ResetMove, NotReset, Peers
  <2>2. CASE SynMove(g)
    <3>1. peer.st # "OPEN" /\ Limit(peer') = 1 /\ ~Starts(g)
      BY <2>2 DEF SynMove
    <3>2. Limit(peer) <= 1 /\ Limit(peer) \in Int
      BY <3>1, PeerFacts, PositionISS DEF Limit, PeerOK, Peers
    <3>3. CASE Limit(peer) = 1
      BY <1>1, <1>3, <3>1, <3>3, AppendCovered
    <3>4. CASE Limit(peer) # 1
      <4>1. Position(peer.nxt) = 0
        BY <3>1, <3>2, <3>4, PeerFacts, PositionISS DEF Limit, PeerOK, Peers
      <4>2. ASSUME NEW h \in Elements(toHost), Starts(h) PROVE FALSE
        <5>1. h \in Segment /\ Occupies(h)
          BY <4>2 DEF NetInv, NetTypes, ToHostInv, Elements
        <5>2. Position(h.seq) + 1 <= 0 /\ Position(h.seq) \in Nat
          BY <4>1, <4>2, <5>1, PositionType DEF Occupies, Segment
        <5> QED
          BY <5>2
      <4> QED
        BY <1>1, <1>3, <3>1, <4>2, AppendCovered
    <3> QED
      BY <3>3, <3>4
  <2>3. CASE AckMove(g)
    BY <1>1, <1>3, <2>3, AppendCovered DEF AckMove, KeepsStream, Limit
  <2>4. CASE StreamMove(g)
    BY <1>1, <1>3, <2>4, AppendCovered DEF StreamMove
  <2> QED
    BY <1>3, <2>1, <2>2, <2>3, <2>4
<1> QED
  BY <1>2, <1>3 DEF PeerMoves

LEMMA PeerMovesOrder ==
  ASSUME NetInv, PeerMoves, NotReset', OrderInv
  PROVE  OrderInv'
<1>1. UNCHANGED <<scenario, shown>> /\ UNCHANGED <<conn, table, rxPad>>
  BY DEF PeerMoves, vars
<1>2. /\ Slot' = Slot /\ \A st : Hears(st)' <=> Hears(st)
      /\ Takes' <=> Takes
  BY <1>1 DEF Slot, RxKey, Hears, Takes
<1>3. toPeer' = toPeer \/ TakesOldest
  BY DEF PeerMoves
<1>4. toHost' = toHost \/ \E g \in Segment : toHost' = Append(toHost, g)
  BY DEF PeerMoves, SilentMove
<1>5. Prefix'
  BY <1>1 DEF OrderInv, Prefix
<1>6. Early' => \A g \in Elements(toHost') : BareSyn(g)
  <2> SUFFICES ASSUME Early' PROVE \A g \in Elements(toHost') : BareSyn(g)
    OBVIOUS
  <2>1. \A g \in Elements(toHost) : BareSyn(g)
    BY EarlyMoves DEF OrderInv
  <2>2. ASSUME NEW g \in Segment, toHost' = Append(toHost, g)
        PROVE  \A h \in Elements(toHost') : BareSyn(h)
    <3>1. BareSyn(g) /\ Elements(toHost') = Elements(toHost) \cup {g}
      BY <2>2, EarlyMoves, AppendFacts DEF NetInv, NetTypes
    <3> QED
      BY <2>1, <3>1
  <2> QED
    BY <1>4, <2>1, <2>2
<1>7. SynsFirst'
  <2>1. CASE toHost' = toHost
    BY <2>1 DEF OrderInv, SynsFirst, BareSyn
  <2>2. ASSUME NEW g \in Segment, toHost' = Append(toHost, g) PROVE SynsFirst'
    <3>1. /\ Len(toHost) \in Nat /\ Len(toHost') = Len(toHost) + 1
          /\ \A i \in 1 .. Len(toHost) : toHost'[i] = toHost[i]
          /\ toHost'[Len(toHost) + 1] = g
      BY <2>2, AppendIndex DEF NetInv, NetTypes
    <3>2. BareSyn(g) => \A i \in 1 .. Len(toHost) : BareSyn(toHost[i])
      <4>1. BareSyn(g) => Early
        <5>1. BareSyn(g) => IsSyn(g) /\ g.flags # {"ACK"}
          BY DEF BareSyn, IsSyn
        <5>2. toHost' # toHost
          BY <3>1
        <5>3. \E h \in Segment : /\ toHost' = Append(toHost, h)
                                 /\ ResetMove(h) \/ SynMove(h) \/ AckMove(h) \/ StreamMove(h)
          BY <5>2 DEF PeerMoves, SilentMove
        <5>4. PICK h \in Segment : /\ toHost' = Append(toHost, h)
                                   /\ ResetMove(h) \/ SynMove(h) \/ AckMove(h) \/ StreamMove(h)
          BY <5>3
        <5>5. h = g
          BY <3>1, <5>4, AppendIndex DEF NetInv, NetTypes
        <5> QED
          BY <5>1, <5>4, <5>5 DEF ResetMove, SynMove, AckMove, StreamMove, Early
      <4> QED
        BY <4>1 DEF OrderInv, Elements
    <3>3. \A i, j \in 1 .. Len(toHost') :
            j < i /\ BareSyn(toHost'[i]) => BareSyn(toHost'[j])
      BY <3>1, <3>2 DEF OrderInv, SynsFirst
    <3> QED
      BY <3>3 DEF SynsFirst, BareSyn
  <2> QED
    BY <1>4, <2>1, <2>2
<1>8. CASE Dead
  BY <1>2, <1>5, <1>6, <1>7, <1>8, WaitingMoves DEF OrderInv, Dead, BareSyn
<1>9. CASE Covered /\ SlotOK
  <2>1. Covered'
    BY <1>9, CoveredMoves
  <2>2. Slot = NoConn => Waiting' \/ Dead'
    BY <1>2 DEF Dead
  <2>3. Slot = NoConn \/ Hears("SYN_RECV") => AllSyns(toPeer') /\ OpenerReady'
    <3> SUFFICES ASSUME AllSyns(toPeer), OpenerReady PROVE AllSyns(toPeer') /\ OpenerReady'
      BY <1>9 DEF SlotOK
    <3>1. AllSyns(toPeer')
      <4>1. TakesOldest => /\ Len(toPeer) \in Nat \ {0} /\ Len(toPeer') = Len(toPeer) - 1
                           /\ \A i \in 1 .. Len(toPeer') : toPeer'[i] = toPeer[i + 1]
        BY TailIndex DEF TakesOldest, NetInv, NetTypes
      <4>2. CASE TakesOldest
        BY <4>1, <4>2 DEF AllSyns
      <4> QED
        BY <1>3, <4>2
    <3> QED
      BY <3>1, OpenerMoves
  <2>4. ASSUME Early', Hears("SYN_SENT") \/ Hears("ESTABLISHED")
        PROVE  \E g \in Elements(toPeer') : BareSyn(g)
    <3>1. Early /\ (toPeer' = toPeer \/ (TakesOldest /\ ~BareSyn(Head(toPeer))))
      BY <2>4, EarlyMoves
    <3>2. PICK g \in Elements(toPeer) : BareSyn(g)
      BY <1>9, <2>4, <3>1 DEF SlotOK
    <3>3. CASE TakesOldest /\ ~BareSyn(Head(toPeer))
      <4>1. toPeer \in Seq(Output) /\ toPeer # <<>> /\ toPeer' = Tail(toPeer) /\ g # Head(toPeer)
        BY <3>2, <3>3 DEF TakesOldest, NetInv, NetTypes
      <4> QED
        BY <3>2, <4>1, TailKeeps
    <3> QED
      BY <3>1, <3>2, <3>3
  <2>5. Slot # NoConn => Takes' /\ conn'[Slot'].rcv_wnd # 0
    BY <1>1, <1>2, <1>9 DEF SlotOK
  <2>6. Dead' \/ SlotOK'
    <3> SUFFICES ASSUME ~Dead' PROVE SlotOK'
      OBVIOUS
    <3>1. Slot' = NoConn => Waiting'
      BY <1>2, <2>2
    <3>2. Slot' = NoConn \/ Hears("SYN_RECV")' => AllSyns(toPeer)' /\ OpenerReady'
      BY <1>2, <2>3 DEF AllSyns, IsSyn
    <3>3. Early' /\ (Hears("SYN_SENT")' \/ Hears("ESTABLISHED")')
            => (\E g \in Elements(toPeer) : BareSyn(g))'
      BY <1>2, <2>4 DEF BareSyn, Elements
    <3> QED
      BY <1>2, <2>5, <3>1, <3>2, <3>3 DEF SlotOK
  <2> QED
    BY <1>5, <1>6, <1>7, <2>1, <2>6 DEF OrderInv, BareSyn
<1> QED
  BY <1>8, <1>9 DEF OrderInv

-----------------------------------------------------------------------------
(* The host keeps the order. *)

LEMMA NextAccepted ==
  ASSUME NEW c \in Connection, c.rcv_wnd # 0, NEW g \in Segment, g.len # 0 \/ g.seq = c.rcv_nxt
  PROVE  Acceptable(c, g)
<1>1. c.rcv_nxt \in SeqNum /\ c.rcv_wnd \in Windows
  BY DEF Connection
<1>2. CASE g.len # 0
  BY <1>2 DEF Acceptable, segment_check
<1>3. CASE g.len = 0 /\ g.seq = c.rcv_nxt
  <2>1. is_between_wrapped(Minus(c.rcv_nxt, 1), c.rcv_nxt, Plus(c.rcv_nxt, c.rcv_wnd))
    BY <1>1, SeqAssumption
    DEF is_between_wrapped, wrapping_lt, Plus, Minus, SeqNum, Windows, Modulus
  <2> QED
    BY <1>3, <2>1 DEF Acceptable, segment_check
<1> QED
  BY <1>2, <1>3

\* A step of the host that takes segment g.
Taking(g) ==
  /\ NetInv /\ NotReset /\ OrderInv /\ g \in Segment /\ Occupies(g)
  /\ toHost # <<>> /\ g = Head(toHost) /\ toHost' = Tail(toHost)
  /\ HostMoves(g) /\ HostOutput /\ tx' \subseteq Output /\ UNCHANGED <<scenario, peer>>
  /\ Hears("SYN_SENT") => Answer(g)

LEMMA TakingFacts ==
  ASSUME NEW g, Taking(g)
  PROVE  /\ Waiting <=> BareSyn(g)
         /\ Waiting' => Waiting
         /\ SynsFirst' /\ (Early' => \A h \in Elements(toHost') : BareSyn(h))
         /\ OpenerReady => IsSyn(g) \/ Opener(g)
         /\ OpenerReady /\ IsSyn(g) => OpenerReady'
<1>1. /\ Len(toHost) \in Nat \ {0} /\ Len(toHost') = Len(toHost) - 1
      /\ \A i \in 1 .. Len(toHost') : toHost'[i] = toHost[i + 1]
      /\ g = toHost[1]
  BY TailIndex DEF Taking, NetInv, NetTypes
<1>2. /\ Elements(toHost') \subseteq Elements(toHost) /\ g \in Elements(toHost)
      /\ peer' = peer /\ SynsFirst /\ (Early => \A h \in Elements(toHost) : BareSyn(h))
  BY TailFacts DEF Taking, NetInv, NetTypes, OrderInv
<1>3. Waiting <=> BareSyn(g)
  <2>1. ASSUME NEW h \in Elements(toHost), BareSyn(h) PROVE BareSyn(g)
    <3>1. PICK i \in 1 .. Len(toHost) : h = toHost[i]
      BY DEF Elements
    <3>2. i = 1 \/ (1 < i /\ 1 \in 1 .. Len(toHost))
      BY <1>1
    <3> QED
      BY <1>1, <1>2, <2>1, <3>1, <3>2 DEF SynsFirst
  <2> QED
    BY <1>2, <2>1 DEF Waiting
<1>4. Waiting' => Waiting
  BY <1>2 DEF Waiting, Early, BareSyn
<1>5. SynsFirst'
  <2>1. ASSUME NEW i \in 1 .. Len(toHost'), NEW j \in 1 .. Len(toHost'), j < i,
               BareSyn(toHost'[i])
        PROVE  BareSyn(toHost'[j])
    <3>1. /\ i + 1 \in 1 .. Len(toHost) /\ j + 1 \in 1 .. Len(toHost) /\ j + 1 < i + 1
          /\ toHost'[i] = toHost[i + 1] /\ toHost'[j] = toHost[j + 1]
      BY <1>1, <2>1
    <3> QED
      BY <1>2, <2>1, <3>1 DEF SynsFirst
  <2> QED
    BY <2>1 DEF SynsFirst, BareSyn
<1>6. OpenerReady => IsSyn(g) \/ Opener(g)
  <2>1. CASE OpenerFirst
    <3>1. PICK i \in 1 .. Len(toHost) :
            Opener(toHost[i]) /\ \A j \in 1 .. (i - 1) : IsSyn(toHost[j])
      BY <2>1 DEF OpenerFirst
    <3>2. i = 1 \/ 1 \in 1 .. (i - 1)
      OBVIOUS
    <3> QED
      BY <1>1, <3>1, <3>2
  <2>2. CASE AllSyns(toHost)
    BY <1>1, <2>2 DEF AllSyns
  <2> QED
    BY <2>1, <2>2 DEF OpenerReady
<1>7. ASSUME OpenerReady, IsSyn(g) PROVE OpenerReady'
  <2>1. CASE OpenerFirst
    <3>1. PICK i \in 1 .. Len(toHost) :
            Opener(toHost[i]) /\ \A j \in 1 .. (i - 1) : IsSyn(toHost[j])
      BY <2>1 DEF OpenerFirst
    <3>2. i # 1
      BY <1>1, <1>7, <3>1 DEF Opener, IsSyn
    <3>3. /\ i - 1 \in 1 .. Len(toHost') /\ toHost'[i - 1] = toHost[i]
          /\ \A j \in 1 .. ((i - 1) - 1) : toHost'[j] = toHost[j + 1] /\ j + 1 \in 1 .. (i - 1)
      BY <1>1, <3>2
    <3>4. Opener(toHost'[i - 1]) /\ \A j \in 1 .. ((i - 1) - 1) : IsSyn(toHost'[j])
      BY <3>1, <3>3
    <3>5. OpenerFirst'
      BY <3>3, <3>4 DEF OpenerFirst, Opener, IsSyn
    <3> QED
      BY <3>5 DEF OpenerReady
  <2>2. CASE peer.st # "OPEN" /\ AllSyns(toHost)
    <3>1. \A i \in 1 .. Len(toHost') : IsSyn(toHost'[i])
      BY <1>1, <2>2 DEF AllSyns
    <3> QED
      BY <1>2, <2>2, <3>1 DEF OpenerReady, AllSyns, IsSyn
  <2> QED
    BY <1>7, <2>1, <2>2 DEF OpenerReady
<1> QED
  BY <1>2, <1>3, <1>4, <1>5, <1>6, <1>7 DEF Early, BareSyn

\* What is on its way to the peer after a step of the host.
LEMMA OutputKeeps ==
  ASSUME NetInv, HostOutput, tx' \subseteq Output
  PROVE  /\ Elements(toPeer) \subseteq Elements(toPeer')
         /\ tx' # {} => \E o \in tx' : o \in Elements(toPeer')
         /\ AllSyns(toPeer) /\ (\A o \in tx' : IsSyn(o)) => AllSyns(toPeer)'
<1>1. toPeer \in Seq(Output)
  BY DEF NetInv, NetTypes
<1>2. CASE tx' = {}
  BY <1>2 DEF HostOutput, AllSyns, IsSyn
<1>3. CASE tx' # {}
  <2>1. PICK o \in tx' : toPeer' = Append(toPeer, o)
    BY <1>3 DEF HostOutput
  <2>2. Elements(toPeer') = Elements(toPeer) \cup {o}
    BY <1>1, <2>1, AppendFacts
  <2>3. AllSyns(toPeer) /\ (\A x \in tx' : IsSyn(x)) => AllSyns(toPeer)'
    <3>1. /\ Len(toPeer) \in Nat /\ Len(toPeer') = Len(toPeer) + 1
          /\ \A i \in 1 .. Len(toPeer) : toPeer'[i] = toPeer[i]
          /\ toPeer'[Len(toPeer) + 1] = o
      BY <1>1, <2>1, AppendIndex
    <3> QED
      BY <2>1, <3>1 DEF AllSyns, IsSyn
  <2> QED
    BY <2>1, <2>2, <2>3
<1> QED
  BY <1>2, <1>3

\* What the user is shown by a step of the host.
LEMMA ShownFacts ==
  ASSUME NetInv, NEW g, Occupies(g), HostMoves(g), HostOutput
  PROVE  /\ shown \subseteq shown'
         /\ \/ shown' = shown
            \/ /\ Hears("ESTABLISHED") /\ IsData(g)
               /\ shown' = shown \cup {Position(g.seq)}
<1>1. shown' = shown \cup {Position(p.seq) : p \in printed'}
  BY DEF HostOutput
<1>2. \/ printed' = {}
      \/ Hears("ESTABLISHED") /\ ~IsFin(g) /\ g.len # 0 /\ printed' = Shown(Slot, g)
  BY DEF HostMoves, Ignores, Quiet, Listens, Handshakes, Connects, Advances, PeerEnds,
         CloseEnds, Ends
<1>3. CASE printed' = {}
  BY <1>1, <1>3
<1>4. CASE /\ Hears("ESTABLISHED") /\ ~IsFin(g) /\ g.len # 0 /\ printed' = Shown(Slot, g)
  <2>1. g.len = 1 /\ IsData(g)
    BY <1>4 DEF Occupies, IsData
  <2>2. printed' = {[by |-> Slot, seq |-> g.seq, len |-> g.len]}
    BY <1>4, <2>1 DEF Shown
  <2> QED
    BY <1>1, <1>4, <2>1, <2>2
<1> QED
  BY <1>2, <1>3, <1>4

\* A connection that has ended stays so.
LEMMA DeadStays ==
  ASSUME NEW g, Taking(g), Dead
  PROVE  OrderInv'
<1>1. ~Waiting' /\ ~BareSyn(g) /\ SynsFirst' /\ (Early' => \A h \in Elements(toHost') : BareSyn(h))
  BY TakingFacts DEF Dead
<1>2. HostMoves(g) /\ Prefix
  BY DEF Taking, OrderInv
<1>3. Slot' # NoConn => Hears("FIN_WAIT1")' \/ Hears("LAST_ACK")'
  <2>1. Slot = NoConn \/ Hears("FIN_WAIT1") \/ Hears("LAST_ACK")
    BY DEF Dead
  <2>2. ~Listens(g)
    BY <1>1 DEF Listens
  <2>3. ~Handshakes(g) /\ ~Connects(g) /\ ~Advances(g) /\ ~PeerEnds(g)
    BY <2>1 DEF Hears, Handshakes, Connects, Advances, PeerEnds
  <2>4. Ignores(g) \/ CloseEnds(g) \/ Ends
    BY <1>2, <2>2, <2>3 DEF HostMoves
  <2> QED
    BY <2>1, <2>4 DEF Ignores, Quiet, CloseEnds, Ends, Hears
<1>4. shown' = shown
  <2>1. ~Hears("ESTABLISHED")
    BY DEF Dead, Hears
  <2> QED
    BY <2>1, ShownFacts DEF Taking
<1>5. Dead'
  BY <1>1, <1>3 DEF Dead
<1> QED
  BY <1>1, <1>2, <1>4, <1>5 DEF OrderInv, Prefix, BareSyn

\* What the host does with segment g when it still takes the peer's bytes.
Goes(g) == Taking(g) /\ Covered /\ SlotOK

\* The SYN of the peer makes a connection, if the table has a place for it.
LEMMA ListensOrder ==
  ASSUME NEW g, Goes(g), Slot = NoConn
  PROVE  (Dead' \/ SlotOK') /\ ~IsData(g)
<1>1. Waiting /\ BareSyn(g) /\ AllSyns(toPeer) /\ OpenerReady
  BY TakingFacts DEF Goes, SlotOK
<1>2. IsSyn(g) /\ g.seq = PeerISS /\ g.wnd = MaxWindow /\ g.len = 0
  BY <1>1 DEF BareSyn, IsSyn, Goes, Taking, Occupies
<1>3. Listens(g)
  BY <1>1 DEF Goes, Taking, HostMoves, Ignores, Handshakes, Connects, Advances, PeerEnds,
              CloseEnds, Ends, Hears
<1>4. PICK id \in ConnIds \ DOMAIN conn, d \in Connection :
        /\ Stores(id, d) /\ Slot' \in {id, NoConn}
        /\ d.tcpState = "SYN_RECV" /\ d.rcv_nxt = Plus(g.seq, 1) /\ d.rcv_wnd = g.wnd
        /\ \A o \in tx' : IsSyn(o)
  BY <1>3 DEF Listens
<1>5. AllSyns(toPeer)' /\ OpenerReady'
  BY <1>1, <1>2, <1>4, TakingFacts, OutputKeeps DEF Goes, Taking
<1>6. ASSUME Slot' = NoConn PROVE Dead' \/ SlotOK'
  <2>1. ~Hears("SYN_SENT")' /\ ~Hears("ESTABLISHED")'
    BY <1>6 DEF Hears
  <2>2. CASE Waiting'
    BY <1>5, <1>6, <2>1, <2>2 DEF SlotOK
  <2>3. CASE ~Waiting'
    BY <1>6, <2>3 DEF Dead
  <2> QED
    BY <2>2, <2>3
<1>7. ASSUME Slot' # NoConn PROVE SlotOK'
  <2>1. conn'[Slot'] = d /\ d.rcv_wnd # 0 /\ Position(d.rcv_nxt) = 1
    BY <1>2, <1>4, <1>7, PositionISS, SeqAssumption DEF Stores
  <2>2. Hears("SYN_RECV")' /\ ~Hears("SYN_SENT")' /\ ~Hears("ESTABLISHED")'
    BY <1>4, <1>7, <2>1 DEF Hears
  <2>3. Takes' /\ conn'[Slot'].rcv_wnd # 0
    <3>1. Position(conn'[Slot'].rcv_nxt) = 1
      BY <2>1
    <3> QED
      BY <2>1, <2>2, <3>1 DEF Takes
  <2> QED
    BY <1>5, <1>7, <2>2, <2>3 DEF SlotOK
<1> QED
  BY <1>2, <1>6, <1>7 DEF IsData

LEMMA HandshakesOrder ==
  ASSUME NEW g, Goes(g), Hears("SYN_RECV")
  PROVE  (Dead' \/ SlotOK') /\ ~IsData(g)
<1> DEFINE c == conn[Slot]
<1>1. /\ Slot # NoConn /\ c.tcpState = "SYN_RECV" /\ Position(c.rcv_nxt) = 1 /\ c.rcv_wnd # 0
      /\ AllSyns(toPeer) /\ OpenerReady /\ g \in Segment /\ HostMoves(g) /\ Occupies(g)
      /\ NetInv /\ HostOutput /\ tx' \subseteq Output /\ UNCHANGED <<scenario, peer>>
  BY DEF Hears, Goes, SlotOK, Takes, Taking
<1>2. c \in Connection /\ ConnInv(c) /\ Slot \in DOMAIN conn
  BY <1>1, SlotFacts
<1>3. Ignores(g) \/ Handshakes(g)
  BY <1>1 DEF HostMoves, Listens, Connects, Advances, PeerEnds, CloseEnds, Ends, Hears
<1>4. CASE IsSyn(g)
  <2>1. ~Acceptable(c, g)
    BY <1>1, <1>2, <1>4, SynRefused
  <2>2. PICK d \in Connection :
          /\ Updates(d) /\ d.rcv_nxt = c.rcv_nxt /\ d.tcpState = "SYN_RECV"
          /\ \A o \in tx' : IsSyn(o)
    BY <1>1, <1>3, <1>4, <2>1 DEF Ignores, Handshakes, Hears
  <2>3. AllSyns(toPeer)' /\ OpenerReady'
    BY <1>1, <1>4, <2>2, TakingFacts, OutputKeeps DEF Goes
  <2>4. /\ Slot' # NoConn /\ conn'[Slot'].tcpState = "SYN_RECV" /\ conn'[Slot'].rcv_wnd # 0
        /\ conn'[Slot'].rcv_nxt = c.rcv_nxt
    BY <1>1, <2>2 DEF Updates, Stores
  <2>5. SlotOK'
    BY <1>1, <2>3, <2>4 DEF SlotOK, Takes, Hears
  <2> QED
    BY <1>1, <1>4, <2>5 DEF IsData, Occupies
<1>5. CASE Opener(g)
  <2>1. g.ack = 1 /\ Position(g.seq) = 1 /\ ~IsSyn(g) /\ g.seq = c.rcv_nxt /\ g.len = 0
    <3>1. g.seq = c.rcv_nxt
      BY <1>1, <1>2, <1>5, PositionInjective DEF Opener, Segment, Connection
    <3> QED
      BY <1>5, <3>1 DEF Opener, IsSyn
  <2>2. Acceptable(c, g)
    BY <1>1, <1>2, <2>1, NextAccepted
  <2>3. AckInRange(c, g)
    BY <1>1, <1>2, <2>1, AnswerInRange DEF ConnInv
  <2>4. PICK d \in Connection : Updates(d) /\ d.tcpState = "ESTABLISHED"
    BY <1>1, <1>3, <2>2, <2>3 DEF Ignores, Handshakes, Hears
  <2>5. /\ Slot' # NoConn /\ conn'[Slot'].tcpState = "ESTABLISHED" /\ conn'[Slot'].rcv_wnd # 0
    BY <1>1, <2>4 DEF Updates, Stores
  <2>6. ~Early'
    <3>1. ~BareSyn(g)
      BY <2>1 DEF IsSyn, BareSyn
    <3> QED
      BY <3>1, TakingFacts DEF Goes, Waiting
  <2> QED
    BY <2>1, <2>5, <2>6 DEF SlotOK, Takes, Hears, IsData
<1> QED
  BY <1>1, <1>4, <1>5, TakingFacts DEF Goes

LEMMA ConnectsOrder ==
  ASSUME NEW g, Goes(g), Hears("SYN_SENT")
  PROVE  (Dead' \/ SlotOK') /\ ~IsData(g)
<1>1. /\ Slot # NoConn /\ conn[Slot].tcpState = "SYN_SENT" /\ conn[Slot].rcv_wnd # 0
      /\ HostMoves(g) /\ Occupies(g) /\ Answer(g) /\ NetInv /\ peer' = peer
      /\ Early => \E h \in Elements(toPeer) : BareSyn(h)
  BY DEF Hears, Goes, SlotOK, Taking
<1>2. Connects(g)
  BY <1>1 DEF HostMoves, Ignores, Listens, Handshakes, Advances, PeerEnds, CloseEnds, Ends,
              Hears
<1>3. PICK d \in Connection : Updates(d) /\ d.tcpState = "ESTABLISHED"
  BY <1>1, <1>2 DEF Connects
<1>4. /\ Slot' # NoConn /\ conn'[Slot'].tcpState = "ESTABLISHED" /\ conn'[Slot'].rcv_wnd # 0
  BY <1>1, <1>3 DEF Updates, Stores
<1>5. Elements(toPeer) \subseteq Elements(toPeer')
  BY OutputKeeps DEF Goes, Taking
<1>6. SlotOK'
  BY <1>1, <1>4, <1>5 DEF SlotOK, Takes, Hears, Early, BareSyn
<1> QED
  BY <1>1, <1>6 DEF Answer, Occupies, IsData

LEMMA EstablishedOrder ==
  ASSUME NEW g, Goes(g), Hears("ESTABLISHED")
  PROVE  /\ Dead' \/ SlotOK'
         /\ IsData(g) => Position(g.seq) \in shown'
<1>1. /\ Slot # NoConn /\ conn[Slot].tcpState = "ESTABLISHED" /\ conn[Slot].rcv_wnd # 0
      /\ HostMoves(g) /\ Occupies(g) /\ NetInv /\ peer' = peer /\ HostOutput /\ g \in Segment
      /\ Early => \E h \in Elements(toPeer) : BareSyn(h)
  BY DEF Hears, Goes, SlotOK, Taking
<1>2. Ignores(g) \/ Advances(g) \/ PeerEnds(g)
  BY <1>1 DEF HostMoves, Listens, Handshakes, Connects, CloseEnds, Ends, Hears
<1>3. Elements(toPeer) \subseteq Elements(toPeer')
  BY OutputKeeps DEF Goes, Taking
<1>4. ASSUME Hears("ESTABLISHED")', conn'[Slot'].rcv_wnd # 0 PROVE SlotOK'
  BY <1>1, <1>3, <1>4 DEF SlotOK, Takes, Hears, Early, BareSyn
<1>5. CASE Ignores(g)
  <2>1. SlotOK'
    BY <1>1, <1>4, <1>5 DEF Ignores, Quiet, Hears
  <2>2. ~Acceptable(conn[Slot], g)
    BY <1>1, <1>5 DEF Ignores, Hears
  <2>3. g.len = 0
    BY <1>1, <2>2, SlotFacts, NextAccepted
  <2> QED
    BY <2>1, <2>3 DEF IsData
<1>6. CASE Advances(g)
  <2>1. PICK d \in Connection :
          /\ Updates(d) /\ d.tcpState = "ESTABLISHED"
          /\ g.len # 0 => printed' = Shown(Slot, g)
    BY <1>6 DEF Advances
  <2>2. Hears("ESTABLISHED")' /\ conn'[Slot'].rcv_wnd # 0
    BY <1>1, <2>1 DEF Updates, Stores, Hears
  <2>3. ASSUME IsData(g) PROVE Position(g.seq) \in shown'
    <3>1. g.len = 1 /\ g.len # 0
      BY <1>1, <2>3 DEF IsData, Occupies
    <3>2. printed' = {[by |-> Slot, seq |-> g.seq, len |-> g.len]}
      BY <2>1, <3>1 DEF Shown
    <3> QED
      BY <1>1, <3>2 DEF HostOutput
  <2> QED
    BY <1>4, <2>2, <2>3
<1>7. CASE PeerEnds(g)
  <2>1. PICK d \in Connection : Updates(d) /\ d.tcpState = "LAST_ACK" /\ IsFin(g)
    BY <1>7 DEF PeerEnds
  <2>2. Hears("LAST_ACK")'
    BY <1>1, <2>1 DEF Updates, Stores, Hears
  <2>3. ~BareSyn(g)
    BY <2>1 DEF BareSyn, IsFin
  <2>4. Dead'
    BY <2>2, <2>3, TakingFacts DEF Goes, Dead
  <2> QED
    BY <2>1, <2>4 DEF IsData
<1> QED
  BY <1>2, <1>5, <1>6, <1>7

LEMMA TakingOrder ==
  ASSUME NEW g, Taking(g)
  PROVE  OrderInv'
<1>1. CASE Dead
  BY <1>1, DeadStays
<1>2. CASE Covered /\ SlotOK
  <2>1. Slot = NoConn \/ Hears("SYN_RECV") \/ Hears("SYN_SENT") \/ Hears("ESTABLISHED")
    BY <1>2 DEF SlotOK, Takes
  <2>2. /\ Dead' \/ SlotOK'
        /\ IsData(g) => Position(g.seq) \in shown'
    BY <1>2, <2>1, ListensOrder, HandshakesOrder, ConnectsOrder, EstablishedOrder DEF Goes
  <2>3. /\ shown \subseteq shown'
        /\ shown' = shown \/ (IsData(g) /\ shown' = shown \cup {Position(g.seq)})
    BY ShownFacts DEF Taking
  <2>4. Covered'
    BY <1>2, <2>2, <2>3, TailCovered DEF Taking
  <2>5. Prefix'
    <3>1. Prefix
      BY DEF Taking, OrderInv
    <3>2. ASSUME IsData(g), NEW n \in 1 .. Position(g.seq) PROVE n \in shown'
      <4>1. /\ Position(g.seq) \in 1 .. scenario.bytes /\ Position(g.seq) < Limit(peer)
            /\ scenario.bytes \in Nat /\ Starts(g) /\ Limit(peer) \in Int
        BY <3>2, PeerFacts, ScenarioFacts DEF Taking, Occupies, IsData, Starts, NetInv, Limit
      <4>2. CASE n = Position(g.seq)
        BY <2>2, <3>2, <4>2
      <4>3. CASE n # Position(g.seq)
        <5>1. n \in SentBytes /\ n < Position(g.seq)
          BY <4>1, <4>3 DEF SentBytes
        <5>2. 1 \in 1 .. Len(toHost) /\ toHost[1] = g
          BY TailIndex DEF Taking, NetInv, NetTypes
        <5>3. n \in shown \/ Carried(n, 0)
          BY <1>2, <4>1, <5>1, <5>2 DEF Covered
        <5> QED
          BY <2>3, <5>3 DEF Carried
      <4> QED
        BY <4>2, <4>3
    <3> QED
      BY <2>3, <3>1, <3>2 DEF Prefix
  <2> QED
    BY <2>2, <2>4, <2>5, TakingFacts DEF OrderInv, BareSyn
<1> QED
  BY <1>1, <1>2 DEF Taking, OrderInv

LEMMA CommandOrder ==
  ASSUME NetInv, NotReset, OrderInv, UserMoves, HostOutput, tx' \subseteq Output,
         UNCHANGED <<scenario, peer, toHost>>
  PROVE  OrderInv'
<1>1. printed' = {} /\ shown' = shown
  BY OutputFacts DEF UserMoves, UserOpens, UserSends, UserCloses
<1>2. /\ Prefix' /\ SynsFirst' /\ (Early' => \A g \in Elements(toHost') : BareSyn(g))
      /\ Covered => Covered'
      /\ (Early' <=> Early) /\ (Waiting' <=> Waiting)
  <2>1. Prefix'
    BY <1>1 DEF OrderInv, Prefix
  <2>2. SynsFirst'
    BY DEF OrderInv, SynsFirst, BareSyn
  <2>3. (Early' <=> Early) /\ (Waiting' <=> Waiting)
    BY DEF Early, Waiting, BareSyn
  <2>4. Covered => Covered'
    BY <1>1 DEF Covered, Carried, SentBytes, Limit, Starts, IsData, IsFin
  <2> QED
    BY <2>1, <2>2, <2>3, <2>4 DEF OrderInv
<1>3. Elements(toPeer) \subseteq Elements(toPeer')
  BY OutputKeeps
<1>4. CASE UserOpens
  <2>1. PICK id \in ConnIds \ DOMAIN conn, d \in Connection :
          /\ Stores(id, d) /\ d.tcpState = "SYN_SENT" /\ d.rcv_wnd = LocalWindow
          /\ table[1][CliKey(Flow, Pad)] = NoConn
          /\ Slot' = Slot \/ (Slot = NoConn /\ Slot' \in {id, NoConn})
          /\ tx' # {} /\ \A o \in tx' : BareSyn(o)
    BY <1>4 DEF UserOpens
  <2>2. peer.st = "CLOSED" /\ Early /\ Waiting /\ toHost = <<>>
    BY <1>4 DEF UserOpens, Early, Waiting, NetInv, ClosedInv
  <2>3. Slot = NoConn
    <3>1. RxKey(1, Flow) \in Keys
      BY Here, RxKeyFacts DEF NetInv, IInv
    <3> QED
      BY <2>1, <2>2, <3>1 DEF NetInv, ClosedInv, Slot
  <2>4. Covered /\ SlotOK /\ AllSyns(toPeer)
    BY <2>2, <2>3 DEF OrderInv, Dead, SlotOK
  <2>5. AllSyns(toPeer)'
    <3>1. \A o \in tx' : IsSyn(o)
      BY <2>1 DEF BareSyn, IsSyn
    <3> QED
      BY <2>4, <3>1, OutputKeeps
  <2>6. OpenerReady'
    BY <2>2 DEF OpenerReady, AllSyns
  <2>7. \E g \in Elements(toPeer') : BareSyn(g)
    BY <2>1, OutputKeeps
  <2>8. Slot' = NoConn => SlotOK'
    BY <1>2, <2>2, <2>5, <2>6 DEF SlotOK, Hears
  <2>9. Slot' # NoConn => SlotOK'
    <3> SUFFICES ASSUME Slot' # NoConn PROVE SlotOK'
      OBVIOUS
    <3>1. conn'[Slot'] = d /\ d.rcv_wnd # 0
      BY <2>1, <2>3, TcpAssumption DEF Stores
    <3> QED
      BY <2>1, <2>7, <3>1 DEF SlotOK, Takes, Hears, BareSyn
  <2> QED
    BY <1>2, <2>4, <2>8, <2>9 DEF OrderInv, BareSyn
<1>5. CASE UserSends \/ UserCloses
  <2>1. PICK d \in Connection :
          /\ Updates(d)
          /\ d.tcpState = "ESTABLISHED" \/ (d.tcpState = "FIN_WAIT1" /\ InFlight = 0)
    BY <1>5 DEF UserSends, UserCloses
  <2>2. Hears("ESTABLISHED") /\ Slot # NoConn /\ ~Dead
    BY <1>5 DEF UserSends, UserCloses, Hears, Dead
  <2>3. /\ Covered /\ SlotOK /\ conn[Slot].rcv_wnd # 0
        /\ Early => \E g \in Elements(toPeer) : BareSyn(g)
    BY <2>2 DEF OrderInv, SlotOK
  <2>4. Slot' # NoConn /\ conn'[Slot'] = d /\ d.rcv_wnd # 0
    BY <2>1, <2>2, <2>3 DEF Updates, Stores
  <2>5. CASE d.tcpState = "ESTABLISHED"
    <3>1. SlotOK'
      BY <1>2, <1>3, <2>3, <2>4, <2>5 DEF SlotOK, Takes, Hears, BareSyn
    <3> QED
      BY <1>2, <2>3, <3>1 DEF OrderInv, BareSyn
  <2>6. CASE d.tcpState = "FIN_WAIT1" /\ InFlight = 0
    <3>1. Elements(toHost) = {} /\ Elements(toPeer) = {}
      <4>1. Len(toHost) \in Nat /\ Len(toPeer) \in Nat
        BY DEF NetInv, NetTypes
      <4>2. Len(toHost) = 0 /\ Len(toPeer) = 0
        BY <2>6, <4>1 DEF InFlight
      <4> QED
        BY <4>2 DEF Elements
    <3>2. ~Waiting
      BY <2>3, <3>1 DEF Waiting
    <3>3. Dead'
      BY <1>2, <2>4, <2>6, <3>2 DEF Dead, Hears
    <3> QED
      BY <1>2, <3>3 DEF OrderInv, BareSyn
  <2> QED
    BY <2>1, <2>5, <2>6
<1> QED
  BY <1>4, <1>5 DEF UserMoves

-----------------------------------------------------------------------------
(* The order is kept by every step. *)

LEMMA OrderInitial ==
  ASSUME NetInit, NetInv
  PROVE  StreamInv
<1>1. /\ peer.st = "CLOSED" /\ peer.fin = 0 /\ Position(peer.nxt) = 0 /\ shown = {}
      /\ Len(toHost) = 0 /\ Len(toPeer) = 0
  BY PositionISS DEF NetInit
<1>2. Slot = NoConn
  BY Here, RxKeyFacts DEF NetInit, Init, NetInv, IInv, Slot
<1>3. Early /\ Waiting /\ Elements(toHost) = {}
  BY <1>1 DEF Early, Waiting, Elements
<1>4. SentBytes = {}
  BY <1>1, ScenarioFacts DEF SentBytes, Limit, NetInv
<1>5. Covered
  BY <1>4 DEF Covered
<1>6. SlotOK
  BY <1>1, <1>2, <1>3 DEF SlotOK, Hears, AllSyns, OpenerReady
<1>7. Prefix /\ SynsFirst
  BY <1>1 DEF Prefix, SynsFirst
<1> QED
  BY <1>3, <1>5, <1>6, <1>7 DEF StreamInv, OrderInv

LEMMA OrderStutters ==
  ASSUME StreamInv, UNCHANGED netVars
  PROVE  StreamInv'
<1>1. UNCHANGED <<scenario, peer, toHost, toPeer, shown>> /\ UNCHANGED <<conn, table, rxPad>>
  BY DEF netVars, vars
<1>2. Slot' = Slot /\ \A st : Hears(st)' <=> Hears(st)
  BY <1>1 DEF Slot, RxKey, Hears
<1>3. (Early' <=> Early) /\ (Waiting' <=> Waiting) /\ (Dead' <=> Dead)
  BY <1>1, <1>2 DEF Early, Waiting, Dead, BareSyn
<1>4. (Covered' <=> Covered) /\ (Prefix' <=> Prefix) /\ (SynsFirst' <=> SynsFirst)
  BY <1>1 DEF Covered, Carried, SentBytes, Limit, Prefix, SynsFirst, Starts, IsData, IsFin,
              BareSyn
<1>5. (OpenerReady' <=> OpenerReady) /\ (AllSyns(toPeer)' <=> AllSyns(toPeer))
  BY <1>1 DEF OpenerReady, OpenerFirst, Opener, AllSyns, IsSyn
<1>6. SlotOK' <=> SlotOK
  BY <1>1, <1>2, <1>3, <1>5 DEF SlotOK, Takes, BareSyn, Elements
<1> QED
  BY <1>1, <1>3, <1>4, <1>6 DEF StreamInv, OrderInv, NotReset, BareSyn

LEMMA StreamStep ==
  ASSUME NetInv, NetInv', StreamInv, [NetNext]_netVars
  PROVE  StreamInv'
<1>1. CASE PeerStep \/ PeerReceive
  <2>1. PeerMoves
    BY <1>1, PeerStepMoves
  <2>2. scenario' = scenario /\ (NotReset' => NotReset)
    BY <2>1, PeerMoveFacts DEF PeerMoves, NotReset
  <2> QED
    BY <2>1, <2>2, PeerMovesOrder DEF StreamInv
<1>2. CASE HostReceive
  <2>1. PICK g : g = Head(toHost)
    OBVIOUS
  <2>2. /\ toHost # <<>> /\ toHost' = Tail(toHost) /\ Receive(1, Flow, g)
        /\ HostOutput /\ UNCHANGED <<scenario, peer>>
    BY <1>2, <2>1 DEF HostReceive
  <2>3. g \in Elements(toHost) /\ g \in Segment
    BY <2>1, <2>2, TailFacts DEF NetInv, NetTypes
  <2>4. Occupies(g) /\ tx' \subseteq Output
    BY <2>3 DEF NetInv, ToHostInv, IInv, OutputInv
  <2>5. HostMoves(g)
    BY <2>2, <2>3, <2>4, ReceiveOutcome
  <2>6. ASSUME NotReset, OrderInv PROVE OrderInv'
    <3>1. Taking(g)
      BY <2>1, <2>2, <2>3, <2>4, <2>5, <2>6 DEF Taking, NetInv, OpeningInv
    <3> QED
      BY <3>1, TakingOrder
  <2> QED
    BY <2>2, <2>6 DEF StreamInv, NotReset
<1>3. CASE HostCommand
  <2>1. UserMoves /\ HostOutput /\ tx' \subseteq Output /\ UNCHANGED <<scenario, peer, toHost>>
    BY <1>3, CommandOutcome DEF NetInv, IInv, OutputInv
  <2>2. ASSUME NotReset, OrderInv PROVE OrderInv'
    BY <2>1, <2>2, CommandOrder
  <2> QED
    BY <2>1, <2>2 DEF StreamInv, NotReset
<1>4. CASE Lose
  BY <1>4 DEF Lose, StreamInv
<1> QED
  BY <1>1, <1>2, <1>3, <1>4, OrderStutters DEF NetNext

-----------------------------------------------------------------------------
(* What is acknowledged stays printed. *)

\* The peer has nothing new in front of a number it has used.
LEMMA SafeMoves ==
  ASSUME NetInv, PeerMoves, NEW a \in SeqNum, Position(a) <= Position(peer.nxt), Safe(a)
  PROVE  Safe(a)'
<1>1. /\ UNCHANGED <<scenario, shown>>
      /\ Limit(peer') = Limit(peer) \/ Limit(peer) = Position(peer.nxt)
  BY PeerFacts, PeerMoveFacts DEF PeerMoves, Limit
<1>2. Position(a) \in Nat /\ scenario.bytes \in Nat /\ Position(peer.nxt) \in Nat
  BY PositionType, PeerFacts
<1>3. ASSUME NEW n \in SentBytes', n < Position(a) PROVE n \in SentBytes
  <2>1. n \in 1 .. scenario.bytes /\ n < Limit(peer')
    BY <1>1, <1>3 DEF SentBytes
  <2>2. n < Limit(peer)
    BY <1>1, <1>2, <1>3, <2>1
  <2> QED
    BY <2>1, <2>2 DEF SentBytes
<1> QED
  BY <1>1, <1>3 DEF Safe

\* Nor has a step of the host anything for the peer to send.
LEMMA SafeShown ==
  ASSUME UNCHANGED <<scenario, peer>>, shown \subseteq shown', NEW a, Safe(a)
  PROVE  Safe(a)'
BY DEF Safe, SentBytes, Limit

LEMMA PeerMovesAcked ==
  ASSUME NetInv, PeerMoves, AckedInv
  PROVE  AckedInv'
<1>1. /\ UNCHANGED <<conn, scenario, shown>> /\ (NotReset' => NotReset)
      /\ NoClose' = NoClose /\ NoGaps' = NoGaps
  BY PeerMoveFacts DEF PeerMoves, NotReset, NoClose, NoGaps, vars
<1> SUFFICES ASSUME NotReset', NotReset, NoClose, NoGaps PROVE AckedInv'
  BY <1>1 DEF AckedInv
<1>2. /\ Prefix /\ Safe(peer.una)
      /\ \A g \in Elements(toPeer) : "ACK" \in g.flags => Safe(g.ack)
      /\ \A id \in DOMAIN conn : conn[id].tcpState # "SYN_SENT" => Safe(conn[id].rcv_nxt)
      /\ scenario.lossy => \A g \in Elements(toHost) : Starts(g) => Safe(g.seq)
  BY DEF AckedInv, EdgesSafe
<1>3. \A g \in Elements(toPeer) : "ACK" \in g.flags => Safe(g.ack)'
  <2> SUFFICES ASSUME NEW g \in Elements(toPeer), "ACK" \in g.flags PROVE Safe(g.ack)'
    OBVIOUS
  <2>1. g \in Output /\ Position(g.ack) <= Position(peer.nxt)
    BY DEF NetInv, NetTypes, Elements, UsedInv, Acknowledges
  <2>2. PICK a \in SeqNum : a = g.ack
    BY <2>1 DEF Output
  <2>3. Safe(a)'
    BY <1>2, <2>1, <2>2, SafeMoves
  <2> QED
    BY <2>2, <2>3
<1>4. EdgesSafe'
  <2>1. ASSUME NEW id \in DOMAIN conn, conn[id].tcpState # "SYN_SENT", NEW a, a = conn[id].rcv_nxt
        PROVE  Safe(a)'
    <3>1. conn[id] \in Connection /\ Position(conn[id].rcv_nxt) <= Position(peer.nxt)
      BY <2>1 DEF NetInv, IInv, MemoryInv, UsedInv, Reached
    <3>2. a \in SeqNum /\ Safe(a)
      BY <1>2, <2>1, <3>1 DEF Connection
    <3> QED
      BY <2>1, <3>1, <3>2, SafeMoves
  <2> QED
    BY <1>1, <2>1 DEF EdgesSafe, Safe, SentBytes
<1>5. ASSUME NEW p, p = peer.una PROVE Safe(p)'
  <2>1. p \in SeqNum /\ Position(p) <= Position(peer.nxt)
    BY <1>5, PeerFacts, PositionISS DEF PeerOK, Peers
  <2> QED
    BY <1>2, <1>5, <2>1, SafeMoves
<1>6. Safe(peer.una)'
  <2>1. CASE peer'.una = peer.una
    BY <1>5, <2>1 DEF Safe
  <2>2. CASE TakesOldest /\ "ACK" \in Head(toPeer).flags /\ peer'.una = Head(toPeer).ack
    <3>1. PICK g \in Elements(toPeer) : "ACK" \in g.flags /\ peer'.una = g.ack
      BY <2>2, PeerMoveFacts
    <3> QED
      BY <1>3, <3>1 DEF Safe
  <2> QED
    BY <2>1, <2>2 DEF PeerMoves
<1>7. ASSUME scenario.lossy, NEW h \in Elements(toHost'), Starts(h) PROVE Safe(h.seq)'
  <2>1. ASSUME h \in Elements(toHost) PROVE Safe(h.seq)'
    <3>1. h \in Segment /\ Position(h.seq) + 1 <= Position(peer.nxt)
      BY <1>7, <2>1 DEF NetInv, NetTypes, Elements, ToHostInv, Occupies
    <3>2. PICK a \in SeqNum : a = h.seq
      BY <3>1 DEF Segment
    <3>3. Position(a) <= Position(peer.nxt)
      BY <3>1, <3>2, PositionType, PeerFacts
    <3>4. Safe(a)'
      BY <1>2, <1>7, <2>1, <3>2, <3>3, SafeMoves
    <3> QED
      BY <3>2, <3>4
  <2>2. CASE SilentMove
    BY <1>7, <2>1, <2>2 DEF SilentMove
  <2>3. ASSUME NEW g \in Segment, toHost' = Append(toHost, g),
               ResetMove(g) \/ SynMove(g) \/ AckMove(g) \/ StreamMove(g)
        PROVE  Safe(h.seq)'
    <3>1. Elements(toHost') = Elements(toHost) \cup {g}
      BY <2>3, AppendFacts DEF NetInv, NetTypes
    <3>2. CASE h = g
      <4>1. ~ResetMove(g) /\ ~SynMove(g)
        BY <1>7, <3>2 DEF ResetMove, SynMove
      <4>2. ~AckMove(g)
        BY <1>7, <3>2 DEF AckMove, Starts, IsFin
      <4>3. h.seq = peer.una
        BY <1>7, <2>3, <3>2, <4>1, <4>2 DEF StreamMove, NoGaps
      <4> QED
        BY <1>5, <4>3
    <3> QED
      BY <1>7, <2>1, <3>1, <3>2
  <2> QED
    BY <2>2, <2>3 DEF PeerMoves
<1>8. \A g \in Elements(toPeer') : "ACK" \in g.flags => Safe(g.ack)'
  BY <1>3, PeerMoveFacts
<1>9. Prefix'
  BY <1>1, <1>2 DEF Prefix
<1> QED
  BY <1>1, <1>4, <1>6, <1>7, <1>8, <1>9 DEF AckedInv, Elements, Starts, IsFin, Safe, SentBytes, Limit

\* What a step of the host acknowledges, when its new edge has been printed.
LEMMA StoresAcked ==
  ASSUME NetInv, AckedInv, NotReset, NoClose, NoGaps, HostOutput, tx' \subseteq Output,
         UNCHANGED <<scenario, peer>>, shown \subseteq shown', NEW id, NEW d, Stores(id, d),
         d.tcpState # "SYN_SENT" => Safe(d.rcv_nxt)',
         d.tcpState = "SYN_SENT" => \A o \in tx' : "ACK" \notin o.flags
  PROVE  /\ \A g \in Elements(toPeer') : "ACK" \in g.flags => Safe(g.ack)'
         /\ EdgesSafe'
<1>1. /\ \A g \in Elements(toPeer) : "ACK" \in g.flags => Safe(g.ack)
      /\ \A x \in DOMAIN conn : conn[x].tcpState # "SYN_SENT" => Safe(conn[x].rcv_nxt)
  BY DEF AckedInv, EdgesSafe
<1>2. ASSUME NEW g \in Elements(toPeer'), "ACK" \in g.flags PROVE Safe(g.ack)'
  <2>1. CASE g \in Elements(toPeer)
    BY <1>1, <1>2, <2>1, SafeShown
  <2>2. CASE g \in tx'
    BY <1>2, <2>2 DEF Stores
  <2> QED
    BY <1>2, <2>1, <2>2, OutputFacts
<1>3. ASSUME NEW x \in DOMAIN conn', conn'[x].tcpState # "SYN_SENT",
             NEW a, a = conn'[x].rcv_nxt
      PROVE  Safe(a)'
  <2>1. CASE x = id
    BY <1>3, <2>1 DEF Stores, Safe, SentBytes
  <2>2. CASE x # id
    <3>1. x \in DOMAIN conn /\ conn'[x] = conn[x]
      BY <1>3, <2>2 DEF Stores
    <3>2. Safe(a)
      BY <1>1, <1>3, <3>1
    <3> QED
      BY <3>2, SafeShown
  <2> QED
    BY <2>1, <2>2
<1> QED
  BY <1>2, <1>3 DEF EdgesSafe, Safe, SentBytes

\* Numbers at the start of the stream have nothing in front.
LEMMA StartSafe ==
  ASSUME NetInv, Position(PeerISS) = 0
  PROVE  Safe(Plus(PeerISS, 1))'
BY PositionISS DEF Safe, SentBytes, NetInv

\* The host takes a segment: all bytes in front of it are printed.
Shows(g) ==
  /\ NetInv /\ AckedInv /\ NotReset /\ NoClose /\ NoGaps
  /\ g \in Segment /\ Occupies(g) /\ HostMoves(g) /\ HostOutput /\ tx' \subseteq Output
  /\ UNCHANGED <<scenario, peer>>
  /\ Hears("SYN_SENT") => Answer(g)
  /\ Hears("ESTABLISHED") /\ Starts(g) => Safe(g.seq)

\* What the host has printed after taking segment g.
LEMMA EdgeShown ==
  ASSUME NEW g, Shows(g)
  PROVE  /\ \A o \in Elements(toPeer') : "ACK" \in o.flags => Safe(o.ack)'
         /\ EdgesSafe'
<1>1. /\ NetInv /\ AckedInv /\ NotReset /\ NoClose /\ NoGaps
      /\ g \in Segment /\ Occupies(g) /\ HostMoves(g) /\ HostOutput /\ tx' \subseteq Output
      /\ UNCHANGED <<scenario, peer>>
      /\ Hears("SYN_SENT") => Answer(g)
      /\ Hears("ESTABLISHED") /\ Starts(g) => Safe(g.seq)
  BY DEF Shows
<1>2. shown \subseteq shown'
  BY <1>1, ShownFacts
<1>3. \A x \in DOMAIN conn : conn[x].tcpState # "SYN_SENT" => Safe(conn[x].rcv_nxt)
  BY <1>1 DEF AckedInv, EdgesSafe
<1>4. Safe(Plus(PeerISS, 1))'
  BY PositionISS, <1>1, StartSafe
<1>5. ASSUME Slot # NoConn, ~Hears("SYN_SENT"), NEW a, a = conn[Slot].rcv_nxt PROVE Safe(a)'
  BY <1>1, <1>2, <1>3, <1>5, SlotFacts, SafeShown DEF Hears
<1>6. CASE Ignores(g) \/ Ends
  <2>1. /\ DOMAIN conn' \subseteq DOMAIN conn /\ \A x \in DOMAIN conn' : conn'[x] = conn[x]
        /\ tx' = {}
    BY <1>6 DEF Ignores, Quiet, Ends
  <2>2. toPeer' = toPeer
    BY <1>1, <2>1, OutputFacts
  <2>3. \A o \in Elements(toPeer') : "ACK" \in o.flags => Safe(o.ack)'
    BY <1>1, <1>2, <2>2, SafeShown DEF AckedInv
  <2>4. ASSUME NEW x \in DOMAIN conn', conn'[x].tcpState # "SYN_SENT",
               NEW a, a = conn'[x].rcv_nxt
        PROVE  Safe(a)'
    BY <1>1, <1>2, <1>3, <2>1, <2>4, SafeShown
  <2> QED
    BY <2>3, <2>4 DEF EdgesSafe, Safe, SentBytes
<1>7. CASE Listens(g)
  <2>1. PICK id, d : Stores(id, d) /\ d.tcpState = "SYN_RECV" /\ d.rcv_nxt = Plus(g.seq, 1)
    BY <1>7 DEF Listens
  <2>2. d.rcv_nxt = Plus(PeerISS, 1)
    BY <1>1, <1>7, <2>1 DEF Listens, BareSyn, IsSyn, Occupies
  <2> QED
    BY <1>1, <1>2, <1>4, <2>1, <2>2, StoresAcked
<1>8. CASE Handshakes(g)
  <2>1. Slot # NoConn /\ ~Hears("SYN_SENT")
    BY <1>8 DEF Handshakes, Hears
  <2>2. PICK d \in Connection :
          Updates(d) /\ d.rcv_nxt = conn[Slot].rcv_nxt /\ d.tcpState # "SYN_SENT"
    BY <1>8 DEF Handshakes
  <2>3. Safe(d.rcv_nxt)' /\ Stores(Slot, d)
    BY <1>5, <2>1, <2>2 DEF Updates
  <2> QED
    BY <1>1, <1>2, <2>2, <2>3, StoresAcked
<1>9. CASE Connects(g)
  <2>1. Answer(g)
    BY <1>1, <1>9 DEF Connects
  <2>2. PICK d \in Connection :
          Updates(d) /\ d.rcv_nxt = Plus(g.seq, 1) /\ d.tcpState = "ESTABLISHED"
    BY <1>9, <2>1 DEF Connects
  <2>3. d.rcv_nxt = Plus(PeerISS, 1) /\ Stores(Slot, d)
    BY <1>1, <2>1, <2>2 DEF Answer, Occupies, Updates
  <2> QED
    BY <1>1, <1>2, <1>4, <2>2, <2>3, StoresAcked
<1>10. CASE Advances(g)
  <2>1. Slot # NoConn /\ ~Hears("SYN_SENT") /\ Hears("ESTABLISHED") /\ ~IsFin(g)
    BY <1>10 DEF Advances, Hears
  <2>2. PICK d \in Connection :
          /\ Updates(d) /\ d.tcpState = "ESTABLISHED"
          /\ \/ g.len = 0 /\ d.rcv_nxt = conn[Slot].rcv_nxt
             \/ g.len # 0 /\ d.rcv_nxt = DataEnd(g) /\ printed' = Shown(Slot, g)
    BY <1>10 DEF Advances
  <2>3. CASE g.len = 0 /\ d.rcv_nxt = conn[Slot].rcv_nxt
    <3>1. Safe(d.rcv_nxt)' /\ Stores(Slot, d)
      BY <1>5, <2>1, <2>2, <2>3 DEF Updates
    <3> QED
      BY <1>1, <1>2, <2>2, <3>1, StoresAcked
  <2>4. CASE g.len # 0 /\ d.rcv_nxt = DataEnd(g) /\ printed' = Shown(Slot, g)
    <3>1. /\ g.len = 1 /\ Starts(g) /\ g.seq \in SeqNum
          /\ Position(g.seq) \in 1 .. scenario.bytes /\ scenario.bytes + 2 < Modulus
      BY <1>1, <2>4, PeerFacts DEF Occupies, Starts, Segment
    <3>2. Position(d.rcv_nxt) = Position(g.seq) + 1
      <4>1. Position(g.seq) + 1 < Modulus /\ Position(g.seq) \in Nat
        BY <3>1, PeerFacts, <1>1, PositionType
      <4>2. d.rcv_nxt = Plus(g.seq, 1)
        BY <2>4, <3>1 DEF DataEnd
      <4> QED
        BY <3>1, <4>1, <4>2, PositionNext
    <3>3. Position(g.seq) \in shown'
      <4>1. printed' = {[by |-> Slot, seq |-> g.seq, len |-> g.len]}
        BY <2>4, <3>1 DEF Shown
      <4> QED
        BY <1>1, <4>1 DEF HostOutput
    <3>4. Safe(d.rcv_nxt)'
      <4>1. SentBytes' = SentBytes
        BY <1>1 DEF SentBytes, Limit
      <4>2. ASSUME NEW n \in SentBytes, n < Position(d.rcv_nxt) PROVE n \in shown'
        <5>1. n \in Nat /\ Position(g.seq) \in Nat
          BY <1>1, <3>1, <4>2, PeerFacts, PositionType DEF SentBytes
        <5>2. n = Position(g.seq) \/ n < Position(g.seq)
          BY <3>2, <4>2, <5>1
        <5> QED
          BY <1>1, <1>2, <2>1, <3>1, <3>3, <4>2, <5>2 DEF Safe
      <4> QED
        BY <4>1, <4>2 DEF Safe
    <3> QED
      BY <1>1, <1>2, <2>2, <3>4, StoresAcked DEF Updates
  <2> QED
    BY <2>2, <2>3, <2>4
<1>11. CASE PeerEnds(g)
  <2>1. PICK d \in Connection : Updates(d) /\ d.tcpState = "LAST_ACK"
    BY <1>11 DEF PeerEnds
  <2>2. /\ Hears("ESTABLISHED") /\ Starts(g) /\ Limit(peer) <= Position(g.seq)
        /\ Position(g.seq) \in Nat /\ Limit(peer) \in Int /\ scenario.bytes \in Nat
    BY <1>1, <1>11, PeerFacts, PositionType DEF PeerEnds, Starts, Occupies, Segment, Limit
  <2>3. SentBytes \subseteq shown
    <3>1. ASSUME NEW n \in SentBytes PROVE n < Position(g.seq)
      BY <2>2 DEF SentBytes
    <3> QED
      BY <1>1, <2>2, <3>1 DEF Safe
  <2>4. Safe(d.rcv_nxt)'
    BY <1>1, <1>2, <2>3 DEF Safe, SentBytes, Limit
  <2> QED
    BY <1>1, <1>2, <2>1, <2>4, StoresAcked DEF Updates
<1>12. ~CloseEnds(g)
  BY <1>1 DEF CloseEnds, Hears, NetInv, UsedInv, Reached
<1> QED
  BY <1>1, <1>6, <1>7, <1>8, <1>9, <1>10, <1>11, <1>12 DEF HostMoves

LEMMA HostReceiveAcked ==
  ASSUME NetInv, NetInv', StreamInv, AckedInv, HostReceive
  PROVE  AckedInv'
<1>1. PICK g : g = Head(toHost)
  OBVIOUS
<1>2. /\ toHost # <<>> /\ toHost' = Tail(toHost) /\ Receive(1, Flow, g)
      /\ HostOutput /\ UNCHANGED <<scenario, peer>>
  BY <1>1 DEF HostReceive
<1>3. /\ g \in Elements(toHost) /\ g \in Segment
      /\ Elements(toHost') \subseteq Elements(toHost)
  BY <1>1, <1>2, TailFacts DEF NetInv, NetTypes
<1>4. Occupies(g) /\ tx' \subseteq Output
  BY <1>3 DEF NetInv, ToHostInv, IInv, OutputInv
<1>5. HostMoves(g)
  BY <1>2, <1>3, <1>4, ReceiveOutcome
<1> SUFFICES ASSUME NotReset, NoClose, NoGaps PROVE AckedInv'
  BY <1>2 DEF AckedInv, NotReset, NoClose, NoGaps
<1>6. ASSUME Hears("ESTABLISHED"), Starts(g) PROVE Safe(g.seq)
  <2>1. CASE scenario.lossy
    BY <1>3, <1>6, <2>1 DEF AckedInv
  <2>2. CASE ~scenario.lossy
    <3>1. Covered
      BY <1>6, <2>2 DEF StreamInv, OrderInv, Dead, Hears
    <3>2. 1 \in 1 .. Len(toHost) /\ toHost[1] = g
      BY <1>1, <1>2, TailIndex DEF NetInv, NetTypes
    <3>3. \A n \in SentBytes : n < Position(g.seq) => n \in shown \/ Carried(n, 0)
      BY <1>6, <3>1, <3>2 DEF Covered
    <3> QED
      BY <3>3 DEF Safe, Carried
  <2> QED
    BY <2>1, <2>2
<1>7. Shows(g)
  BY <1>2, <1>3, <1>4, <1>5, <1>6 DEF Shows, NetInv, OpeningInv
<1>8. /\ \A o \in Elements(toPeer') : "ACK" \in o.flags => Safe(o.ack)'
      /\ EdgesSafe'
  BY <1>7, EdgeShown
<1>9. /\ shown \subseteq shown'
      /\ \/ shown' = shown
         \/ /\ Hears("ESTABLISHED") /\ IsData(g)
            /\ shown' = shown \cup {Position(g.seq)}
  BY <1>2, <1>4, <1>5, ShownFacts
<1>10. Prefix'
  <2>1. Prefix
    BY DEF AckedInv
  <2>2. ASSUME Hears("ESTABLISHED"), IsData(g), NEW n \in 1 .. Position(g.seq),
               n # Position(g.seq)
        PROVE  n \in shown
    <3>1. /\ Position(g.seq) \in 1 .. scenario.bytes /\ Position(g.seq) < Limit(peer)
          /\ scenario.bytes \in Nat /\ Starts(g) /\ Limit(peer) \in Int
      BY <1>4, <2>2, PeerFacts DEF Occupies, IsData, Starts, Limit
    <3>2. n \in SentBytes /\ n < Position(g.seq)
      BY <2>2, <3>1 DEF SentBytes
    <3> QED
      BY <1>6, <2>2, <3>1, <3>2 DEF Safe
  <2> QED
    BY <1>9, <2>1, <2>2 DEF Prefix
<1>11. Safe(peer.una)'
  BY <1>2, <1>9 DEF AckedInv, Safe, SentBytes, Limit
<1>12. ASSUME scenario.lossy, NEW h \in Elements(toHost'), Starts(h) PROVE Safe(h.seq)'
  BY <1>2, <1>3, <1>9, <1>12, SafeShown DEF AckedInv
<1> QED
  BY <1>2, <1>8, <1>10, <1>11, <1>12
  DEF AckedInv, Elements, Starts, IsFin, Safe, SentBytes, Limit

LEMMA CommandAcked ==
  ASSUME NetInv, NetInv', AckedInv, HostCommand
  PROVE  AckedInv'
<1>1. /\ UserMoves /\ HostOutput /\ tx' \subseteq Output
      /\ UNCHANGED <<scenario, peer, toHost>>
  BY CommandOutcome DEF NetInv, IInv, OutputInv
<1> SUFFICES ASSUME NotReset, NoClose, NoGaps PROVE AckedInv'
  BY <1>1 DEF AckedInv, NotReset, NoClose, NoGaps
<1>2. printed' = {} /\ shown' = shown
  BY <1>1, OutputFacts DEF UserMoves, UserOpens, UserSends, UserCloses
<1>3. UserOpens \/ UserSends
  BY <1>1 DEF UserMoves, UserCloses
<1>4. /\ \A g \in Elements(toPeer') : "ACK" \in g.flags => Safe(g.ack)'
      /\ EdgesSafe'
  <2>1. CASE UserOpens
    <3>1. PICK id, d : /\ Stores(id, d) /\ d.tcpState = "SYN_SENT"
                       /\ \A o \in tx' : BareSyn(o)
      BY <2>1 DEF UserOpens
    <3>2. \A o \in tx' : "ACK" \notin o.flags
      BY <3>1 DEF BareSyn
    <3> QED
      BY <1>1, <1>2, <3>1, <3>2, StoresAcked
  <2>2. CASE UserSends
    <3>1. PICK d : /\ Updates(d) /\ d.rcv_nxt = conn[Slot].rcv_nxt
                   /\ d.tcpState = "ESTABLISHED"
      BY <2>2 DEF UserSends
    <3>2. Safe(d.rcv_nxt)
      BY <2>2, <3>1, SlotFacts DEF UserSends, Hears, AckedInv, EdgesSafe
    <3>3. Safe(d.rcv_nxt)'
      BY <1>1, <1>2, <3>2, SafeShown
    <3> QED
      BY <1>1, <1>2, <3>1, <3>3, StoresAcked DEF Updates
  <2> QED
    BY <1>3, <2>1, <2>2
<1> QED
  BY <1>1, <1>2, <1>4
  DEF AckedInv, Elements, Starts, IsFin, Safe, SentBytes, Limit, Prefix

LEMMA LoseAcked ==
  ASSUME NetInv, AckedInv, Lose
  PROVE  AckedInv'
<1>1. UNCHANGED <<scenario, peer, shown>> /\ conn' = conn
  BY DEF Lose, vars
<1>2. Elements(toHost') \subseteq Elements(toHost) /\ Elements(toPeer') \subseteq Elements(toPeer)
  <2>1. toHost # <<>> => Elements(Tail(toHost)) \subseteq Elements(toHost)
    BY TailFacts DEF NetInv, NetTypes
  <2>2. toPeer # <<>> => Elements(Tail(toPeer)) \subseteq Elements(toPeer)
    BY TailFacts DEF NetInv, NetTypes
  <2> QED
    BY <2>1, <2>2 DEF Lose
<1>3. Prefix' <=> Prefix
  BY <1>1 DEF Prefix
<1>4. EdgesSafe' <=> EdgesSafe
  BY <1>1 DEF EdgesSafe, Safe, SentBytes, Limit
<1>5. \A a : Safe(a)' <=> Safe(a)
  BY <1>1 DEF Safe, SentBytes, Limit
<1> QED
  BY <1>1, <1>2, <1>3, <1>4, <1>5
  DEF AckedInv, NotReset, NoClose, NoGaps, Elements, Starts, IsFin, Safe, SentBytes, Limit

LEMMA AckedStutters ==
  ASSUME AckedInv, UNCHANGED netVars
  PROVE  AckedInv'
<1>1. UNCHANGED <<scenario, peer, toHost, toPeer, shown>> /\ conn' = conn
  BY DEF netVars, vars
<1>2. (Prefix' <=> Prefix) /\ (EdgesSafe' <=> EdgesSafe)
  BY <1>1 DEF Prefix, EdgesSafe, Safe, SentBytes, Limit
<1> QED
  BY <1>1, <1>2
  DEF AckedInv, NotReset, NoClose, NoGaps, Elements, Starts, IsFin, Safe, SentBytes, Limit

LEMMA AckedInitial ==
  ASSUME NetInit, NetInv
  PROVE  AckedInv
<1>1. /\ DOMAIN conn = {} /\ Elements(toHost) = {} /\ Elements(toPeer) = {} /\ shown = {}
      /\ Position(peer.una) = 0
  BY EmptyFacts, PositionISS DEF NetInit, Init
<1>2. Safe(peer.una) /\ Prefix /\ EdgesSafe
  BY <1>1, PeerFacts DEF Safe, SentBytes, Prefix, EdgesSafe
<1> QED
  BY <1>1, <1>2 DEF AckedInv

-----------------------------------------------------------------------------
(* The theorems *)

LEMMA StreamInvariance == NetSpec => [](NetInv /\ StreamInv /\ AckedInv)
<1>1. NetInit /\ NetInv => StreamInv /\ AckedInv
  BY OrderInitial, AckedInitial
<1>2. NetInv /\ NetInv' /\ StreamInv /\ AckedInv /\ [NetNext]_netVars => StreamInv' /\ AckedInv'
  <2> SUFFICES ASSUME NetInv, NetInv', StreamInv, AckedInv, [NetNext]_netVars
               PROVE  StreamInv' /\ AckedInv'
    OBVIOUS
  <2>1. StreamInv'
    BY StreamStep
  <2>2. AckedInv'
    BY PeerStepMoves, PeerMovesAcked, HostReceiveAcked, CommandAcked, LoseAcked, AckedStutters
    DEF NetNext
  <2> QED
    BY <2>1, <2>2
<1> QED
  BY <1>1, <1>2, NetInvariance, PTL DEF NetSpec

\* The user is shown the peer's stream from its start, repeated bytes, a FIN that
\* carries one and the timer of a peer that waits included.  Where nothing is lost
\* that needs only that the peer has not answered with a reset; where segments may
\* be lost, also that the user does not close and the peer has one number out at a
\* time: StreamPrefix names the three.
THEOREM StreamInOrder == NetSpec => []StreamPrefix
<1>1. NetInv /\ StreamInv /\ AckedInv => StreamPrefix
  <2> SUFFICES ASSUME NetInv, StreamInv, AckedInv, NotReset, scenario.lossy => NoClose /\ NoGaps
               PROVE  Prefix
    BY DEF StreamPrefix, Prefix
  <2>1. CASE scenario.lossy
    BY <2>1 DEF AckedInv
  <2>2. CASE ~scenario.lossy
    BY <2>2 DEF StreamInv, OrderInv
  <2> QED
    BY <2>1, <2>2
<1> QED
  BY <1>1, StreamInvariance, PTL

\* A set of naturals has a least element.
LEMMA Least ==
  ASSUME NEW T \in SUBSET Nat, T # {}
  PROVE  \E x \in T : \A y \in T : x <= y
<1>1. PICK x \in T : \A y \in T : ~(<<y, x>> \in OpToRel(<, Nat))
  BY NatLessThanWellFounded, WFMin, Zenon
<1>2. \A y \in T : ~(y < x)
  BY <1>1 DEF OpToRel
<1> QED
  BY <1>2

\* One of the scenarios has the most bytes.
LEMMA MaxBytesType ==
  ASSUME Scenarios # {}
  PROVE  MaxBytes \in Nat
<1> DEFINE T == {n \in Nat : \A sc \in Scenarios : sc.bytes <= n}
<1>1. \A sc \in Scenarios : sc.bytes \in Nat /\ sc.bytes + 2 < Modulus
  BY NetAssumption DEF Scenario
<1>2. Modulus \in Nat
  BY HalfSpacePositive DEF Modulus
<1>3. Modulus \in T
  BY <1>1, <1>2
<1>4. PICK m \in T : \A y \in T : m <= y
  BY <1>3, Least
<1>5. m \in {sc.bytes : sc \in Scenarios}
  <2>1. ASSUME m \notin {sc.bytes : sc \in Scenarios} PROVE FALSE
    <3>1. \A sc \in Scenarios : sc.bytes < m
      BY <1>1, <1>4, <2>1
    <3>2. m - 1 \in Nat /\ \A sc \in Scenarios : sc.bytes <= m - 1
      BY <1>1, <1>4, <3>1
    <3> QED
      BY <1>4, <3>2
  <2> QED
    BY <2>1
<1>6. MaxBytes \in {sc.bytes : sc \in Scenarios}
  BY <1>4, <1>5 DEF MaxBytes
<1> QED
  BY <1>1, <1>6

\* Without "close" and without a reset, and with one number at a time out where
\* segments may be lost, a byte the peer sent in front of its FIN and knows to have
\* arrived has been printed, however often segments are lost and repeated: it may
\* forget the byte.  A byte on the FIN itself is the exception that Sent makes.
THEOREM AckedPrinted == NetSpec => []AckedWasPrinted
<1>1. NetInv /\ AckedInv => AckedWasPrinted
  <2> SUFFICES ASSUME NetInv, AckedInv, NoClose, NotReset, NoGaps,
                      NEW n \in 1 .. MaxBytes, Known(n)
               PROVE  n \in shown
    BY DEF AckedWasPrinted
  <2>1. n \in Nat \ {0}
    <3>1. MaxBytes \in Nat
      BY MaxBytesType DEF NetInv, NetTypes
    <3> QED
      BY <3>1
  <2>2. n < Limit(peer) /\ n < Position(peer.una)
    BY DEF Known, Sent, Limit
  <2>3. n \in SentBytes
    <3>1. Limit(peer) <= scenario.bytes + 1
      BY PeerFacts, PositionISS DEF PeerOK, Limit, Peers
    <3> QED
      BY <2>1, <2>2, <3>1, PeerFacts DEF SentBytes, Limit
  <2> QED
    BY <2>2, <2>3 DEF AckedInv, Safe
<1> QED
  BY <1>1, StreamInvariance, PTL

=============================================================================
