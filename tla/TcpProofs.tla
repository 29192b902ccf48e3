------------------------------ MODULE TcpProofs ------------------------------
(***************************************************************************)
(* Proofs about Tcp, for every number of cores, every table size, every    *)
(* steering of flows and every circle of sequence numbers.                 *)
(***************************************************************************)
EXTENDS Tcp, SeqSpaceLemmas

(***************************************************************************)
(* The inductive invariant.  What the properties leave out is the header   *)
(* template: it never keeps a SYN or FIN between two steps, and in         *)
(* SYN_RECV it keeps its ACK, which is why a repeated SYN,ACK is the first  *)
(* one again.                                                              *)
(***************************************************************************)
ConnInv(c) ==
  /\ "SYN" \notin c.tcp_flags /\ "FIN" \notin c.tcp_flags
  /\ c.tcpState \in {"SYN_SENT", "SYN_RECV"} => c.una = ISS /\ c.snd_nxt = Plus(ISS, 1)
  /\ c.tcpState = "SYN_RECV" => /\ "ACK" \in c.tcp_flags
                                /\ c.rcv_nxt = Plus(c.irs, 1)

Live == {"SYN_SENT", "SYN_RECV", "ESTABLISHED", "FIN_WAIT1", "LAST_ACK"}

\* The entry is one that the receive loop of its core looks up.
Heard(k, key) == Steer[key.flow] = k /\ key.pad = rxPad[k]

\* The part about the tables and the memory.
MemoryInv ==
  /\ table \in [Cores -> [Keys -> ConnIds \cup {NoConn}]]
  /\ DOMAIN conn \subseteq ConnIds
  /\ conn \in [DOMAIN conn -> Connection]
  /\ rxPad \in [Cores -> Pads]
  /\ TableSound
  /\ DispatchedStates
  /\ OnlyDeadOrphans
  /\ DeafNeverEstablished
  /\ \A id \in DOMAIN conn : ConnInv(conn[id])

\* The part about what the last step handed out.
OutputInv == tx \subseteq Output /\ printed \subseteq Delivery /\ SynOnlyInHandshake

IInv == MemoryInv /\ OutputInv

-----------------------------------------------------------------------------
(* Memory and table operations *)

LEMMA StoreFacts ==
  ASSUME NEW id, NEW c, conn' = Store(id, c)
  PROVE  /\ DOMAIN conn' = DOMAIN conn \cup {id}
         /\ conn'[id] = c
         /\ \A x \in DOMAIN conn : x # id => conn'[x] = conn[x]
         /\ conn' = [x \in DOMAIN conn' |-> conn'[x]]
BY DEF Store

LEMMA OverwriteFacts ==
  ASSUME NEW id \in DOMAIN conn, NEW c, conn' = Store(id, c)
  PROVE  /\ DOMAIN conn' = DOMAIN conn
         /\ conn'[id] = c
         /\ \A x \in DOMAIN conn : x # id => conn'[x] = conn[x]
         /\ conn' = [x \in DOMAIN conn' |-> conn'[x]]
BY StoreFacts

\* What rte_hash_add_key_data does to a free slot: it fills it or, when the table
\* is full, nothing.
LEMMA AddKeyFacts ==
  ASSUME MemoryInv, NEW k \in Cores, NEW key \in Keys, NEW id \in ConnIds,
         table[k][key] = NoConn
  PROVE  /\ AddKey(k, key, id) \in [Cores -> [Keys -> ConnIds \cup {NoConn}]]
         /\ \A j \in Cores, o \in Keys : <<j, o>> # <<k, key>> =>
              AddKey(k, key, id)[j][o] = table[j][o]
         /\ AddKey(k, key, id)[k][key] \in {id, NoConn}
BY DEF AddKey, MemoryInv

LEMMA DelKeyFacts ==
  ASSUME MemoryInv, NEW k \in Cores, NEW key \in Keys
  PROVE  /\ DelKey(k, key) \in [Cores -> [Keys -> ConnIds \cup {NoConn}]]
         /\ \A j \in Cores, o \in Keys : <<j, o>> # <<k, key>> =>
              DelKey(k, key)[j][o] = table[j][o]
         /\ DelKey(k, key)[k][key] = NoConn
BY DEF DelKey, MemoryInv

\* An entry leads to an allocated connection that carries the entry's key.
LEMMA EntryFacts ==
  ASSUME MemoryInv, NEW k \in Cores, NEW key \in Keys, table[k][key] # NoConn
  PROVE  /\ table[k][key] \in DOMAIN conn
         /\ table[k][key] \in ConnIds
         /\ conn[table[k][key]] \in Connection
         /\ conn[table[k][key]].key = key
         /\ conn[table[k][key]].tcpState \in Live
         /\ ConnInv(conn[table[k][key]])
         /\ Heard(k, key) \/ conn[table[k][key]].tcpState \in {"SYN_SENT", "FIN_WAIT1"}
BY DEF MemoryInv, TableSound, Allocated, DispatchedStates, Filed, Live,
       DeafNeverEstablished, Heard

-----------------------------------------------------------------------------
(* The five ways a step treats tables and memory *)

LEMMA NothingKeeps ==
  ASSUME MemoryInv, UNCHANGED <<table, conn, rxPad>>
  PROVE  MemoryInv'
BY DEF MemoryInv, TableSound, Allocated, DispatchedStates, OnlyDeadOrphans, Filed,
       DeafNeverEstablished, ConnInv

\* A filed connection gets new contents under its old key.
LEMMA UpdateKeeps ==
  ASSUME MemoryInv, NEW k \in Cores, NEW key \in Keys, table[k][key] # NoConn,
         NEW c \in Connection, ConnInv(c), c.key = key, c.tcpState \in Live,
         Heard(k, key) \/ c.tcpState \in {"SYN_SENT", "FIN_WAIT1"},
         conn' = Store(table[k][key], c), table' = table, rxPad' = rxPad
  PROVE  MemoryInv'
<1> DEFINE id == table[k][key]
<1>1. /\ id \in DOMAIN conn /\ id \in ConnIds
  BY EntryFacts
<1>2. /\ DOMAIN conn' = DOMAIN conn
      /\ conn'[id] = c
      /\ \A x \in DOMAIN conn : x # id => conn'[x] = conn[x]
      /\ conn' = [x \in DOMAIN conn' |-> conn'[x]]
  BY <1>1, OverwriteFacts
<1>3. /\ table' \in [Cores -> [Keys -> ConnIds \cup {NoConn}]]
      /\ DOMAIN conn' \subseteq ConnIds
      /\ conn' \in [DOMAIN conn' -> Connection]
      /\ rxPad' \in [Cores -> Pads]
  BY <1>1, <1>2 DEF MemoryInv
<1>4. \A x \in DOMAIN conn' : conn'[x].key = conn[x].key
  BY <1>2, EntryFacts
<1>5. TableSound'
  BY <1>2, <1>4 DEF MemoryInv, TableSound, Allocated
<1>6. \A x \in DOMAIN conn' : Filed(x)' <=> Filed(x)
  BY DEF Filed
<1>7. Filed(id)
  BY DEF Filed
<1>8. DispatchedStates'
  BY <1>2, <1>6 DEF MemoryInv, DispatchedStates, Live
<1>9. OnlyDeadOrphans'
  BY <1>2, <1>6, <1>7 DEF MemoryInv, OnlyDeadOrphans
<1>10. DeafNeverEstablished'
  <2> SUFFICES ASSUME NEW j \in Cores, NEW o \in Keys, table[j][o] # NoConn,
                      Steer[o.flow] # j \/ o.pad # rxPad[j]
               PROVE  conn'[table[j][o]].tcpState \in {"SYN_SENT", "FIN_WAIT1"}
    BY DEF DeafNeverEstablished
  <2>1. CASE table[j][o] = id
    <3>1. j = k /\ o = key
      BY <2>1, EntryFacts DEF MemoryInv, TableSound
    <3> QED
      BY <2>1, <3>1, <1>2 DEF Heard
  <2>2. CASE table[j][o] # id
    BY <2>2, <1>2, EntryFacts DEF Heard
  <2> QED
    BY <2>1, <2>2
<1>11. \A x \in DOMAIN conn' : ConnInv(conn'[x])
  BY <1>2 DEF MemoryInv
<1> QED
  BY <1>3, <1>5, <1>8, <1>9, <1>10, <1>11 DEF MemoryInv, ConnInv


\* A connection is allocated and, if the table has room, filed.
LEMMA CreateKeeps ==
  ASSUME MemoryInv, NEW k \in Cores, NEW key \in Keys, table[k][key] = NoConn,
         NEW id \in ConnIds \ DOMAIN conn,
         NEW c \in Connection, ConnInv(c), c.key = key,
         c.tcpState = "SYN_SENT" \/ (c.tcpState = "SYN_RECV" /\ Heard(k, key)),
         conn' = Store(id, c), table' = AddKey(k, key, id), rxPad' = rxPad
  PROVE  MemoryInv'
<1>1. /\ DOMAIN conn' = DOMAIN conn \cup {id}
      /\ conn'[id] = c
      /\ \A x \in DOMAIN conn : conn'[x] = conn[x]
      /\ conn' = [x \in DOMAIN conn' |-> conn'[x]]
  BY StoreFacts
<1>2. /\ table' \in [Cores -> [Keys -> ConnIds \cup {NoConn}]]
      /\ \A j \in Cores, o \in Keys : <<j, o>> # <<k, key>> => table'[j][o] = table[j][o]
      /\ table'[k][key] \in {id, NoConn}
  BY AddKeyFacts
<1>3. /\ DOMAIN conn' \subseteq ConnIds
      /\ conn' \in [DOMAIN conn' -> Connection]
      /\ rxPad' \in [Cores -> Pads]
  BY <1>1 DEF MemoryInv
<1>4. id # NoConn /\ \A j \in Cores, o \in Keys : table[j][o] # id
  BY TcpAssumption DEF MemoryInv, TableSound, Allocated
<1>5. TableSound'
  BY <1>1, <1>2, <1>4 DEF MemoryInv, TableSound, Allocated
<1>6. \A x \in DOMAIN conn : Filed(x)' <=> Filed(x)
  <2> SUFFICES ASSUME NEW x \in DOMAIN conn PROVE Filed(x)' <=> Filed(x)
    OBVIOUS
  <2>1. x # id /\ x # NoConn /\ table[k][key] # x
    BY TcpAssumption DEF MemoryInv
  <2>2. \A j \in Cores, o \in Keys : table'[j][o] = x <=> table[j][o] = x
    BY <1>2, <2>1
  <2> QED
    BY <2>2 DEF Filed
<1>7. DispatchedStates'
  BY <1>1, <1>6 DEF MemoryInv, DispatchedStates
<1>8. OnlyDeadOrphans'
  BY <1>1, <1>6 DEF MemoryInv, OnlyDeadOrphans
<1>9. DeafNeverEstablished'
  <2> SUFFICES ASSUME NEW j \in Cores, NEW o \in Keys, table'[j][o] # NoConn,
                      Steer[o.flow] # j \/ o.pad # rxPad[j]
               PROVE  conn'[table'[j][o]].tcpState \in {"SYN_SENT", "FIN_WAIT1"}
    BY DEF DeafNeverEstablished
  <2>1. CASE <<j, o>> = <<k, key>>
    BY <2>1, <1>1, <1>2 DEF Heard
  <2>2. CASE <<j, o>> # <<k, key>>
    BY <2>2, <1>1, <1>2, EntryFacts DEF Heard
  <2> QED
    BY <2>1, <2>2
<1>10. \A x \in DOMAIN conn' : ConnInv(conn'[x])
  BY <1>1 DEF MemoryInv
<1> QED
  BY <1>2, <1>3, <1>5, <1>7, <1>8, <1>9, <1>10 DEF MemoryInv, ConnInv

\* A connection leaves the table and stays in memory, in FIN_WAIT2.
LEMMA DropKeeps ==
  ASSUME MemoryInv, NEW k \in Cores, NEW key \in Keys, table[k][key] # NoConn,
         NEW c \in Connection, ConnInv(c), c.key = key, c.tcpState = "FIN_WAIT2",
         conn' = Store(table[k][key], c), table' = DelKey(k, key), rxPad' = rxPad
  PROVE  MemoryInv'
<1> DEFINE id == table[k][key]
<1>1. id \in DOMAIN conn /\ id \in ConnIds
  BY EntryFacts
<1>2. /\ DOMAIN conn' = DOMAIN conn
      /\ conn'[id] = c
      /\ \A x \in DOMAIN conn : x # id => conn'[x] = conn[x]
      /\ conn' = [x \in DOMAIN conn' |-> conn'[x]]
  BY <1>1, OverwriteFacts
<1>3. /\ table' \in [Cores -> [Keys -> ConnIds \cup {NoConn}]]
      /\ \A j \in Cores, o \in Keys : <<j, o>> # <<k, key>> => table'[j][o] = table[j][o]
      /\ table'[k][key] = NoConn
  BY DelKeyFacts
<1>4. /\ DOMAIN conn' \subseteq ConnIds
      /\ conn' \in [DOMAIN conn' -> Connection]
      /\ rxPad' \in [Cores -> Pads]
  BY <1>1, <1>2 DEF MemoryInv
<1>5. \A j \in Cores, o \in Keys : table[j][o] = id => j = k /\ o = key
  BY EntryFacts DEF MemoryInv, TableSound
<1>6. \A x \in DOMAIN conn' : Filed(x)' => Filed(x) /\ x # id
  <2> SUFFICES ASSUME NEW x \in DOMAIN conn', NEW j \in Cores, NEW o \in Keys,
                      table'[j][o] = x
               PROVE  Filed(x) /\ x # id
    BY DEF Filed
  <2>1. x # NoConn
    BY <1>4, TcpAssumption
  <2> QED
    BY <2>1, <1>3, <1>5 DEF Filed
<1>12. \A x \in DOMAIN conn' : Filed(x) /\ x # id => Filed(x)'
  <2> SUFFICES ASSUME NEW x \in DOMAIN conn', x # id, NEW j \in Cores, NEW o \in Keys,
                      table[j][o] = x
               PROVE  table'[j][o] = x
    BY DEF Filed
  <2> QED
    BY <1>3
<1>7. TableSound'
  BY <1>2, <1>3, <1>5 DEF MemoryInv, TableSound, Allocated
<1>8. DispatchedStates'
  BY <1>2, <1>6 DEF MemoryInv, DispatchedStates
<1>9. OnlyDeadOrphans'
  BY <1>2, <1>12 DEF MemoryInv, OnlyDeadOrphans
<1>10. DeafNeverEstablished'
  <2> SUFFICES ASSUME NEW j \in Cores, NEW o \in Keys, table'[j][o] # NoConn,
                      Steer[o.flow] # j \/ o.pad # rxPad[j]
               PROVE  conn'[table'[j][o]].tcpState \in {"SYN_SENT", "FIN_WAIT1"}
    BY DEF DeafNeverEstablished
  <2> QED
    BY <1>2, <1>3, <1>5, EntryFacts DEF Heard
<1>11. \A x \in DOMAIN conn' : ConnInv(conn'[x])
  BY <1>2 DEF MemoryInv
<1> QED
  BY <1>3, <1>4, <1>7, <1>8, <1>9, <1>10, <1>11 DEF MemoryInv, ConnInv

\* A connection leaves the table and is freed.
LEMMA FreeKeeps ==
  ASSUME MemoryInv, NEW k \in Cores, NEW key \in Keys, table[k][key] # NoConn,
         conn' = Without(table[k][key]), table' = DelKey(k, key), rxPad' = rxPad
  PROVE  MemoryInv'
<1> DEFINE id == table[k][key]
<1>1. /\ DOMAIN conn' = DOMAIN conn \ {id}
      /\ \A x \in DOMAIN conn' : conn'[x] = conn[x]
      /\ conn' = [x \in DOMAIN conn' |-> conn'[x]]
  BY DEF Without
<1>2. /\ table' \in [Cores -> [Keys -> ConnIds \cup {NoConn}]]
      /\ \A j \in Cores, o \in Keys : <<j, o>> # <<k, key>> => table'[j][o] = table[j][o]
      /\ table'[k][key] = NoConn
  BY DelKeyFacts
<1>3. /\ DOMAIN conn' \subseteq ConnIds
      /\ conn' \in [DOMAIN conn' -> Connection]
      /\ rxPad' \in [Cores -> Pads]
  BY <1>1 DEF MemoryInv
<1>4. \A j \in Cores, o \in Keys : table[j][o] = id => j = k /\ o = key
  BY EntryFacts DEF MemoryInv, TableSound
<1>5. \A j \in Cores, o \in Keys : table'[j][o] # NoConn =>
        table'[j][o] = table[j][o] /\ table[j][o] # id
  BY <1>2, <1>4
<1>6. \A x \in DOMAIN conn' : Filed(x)' => Filed(x)
  <2> SUFFICES ASSUME NEW x \in DOMAIN conn', NEW j \in Cores, NEW o \in Keys,
                      table'[j][o] = x
               PROVE  Filed(x)
    BY DEF Filed
  <2> QED
    BY <1>3, <1>5, TcpAssumption DEF Filed
<1>7. \A x \in DOMAIN conn' : Filed(x) => Filed(x)'
  <2> SUFFICES ASSUME NEW x \in DOMAIN conn', NEW j \in Cores, NEW o \in Keys,
                      table[j][o] = x
               PROVE  table'[j][o] = x
    BY DEF Filed
  <2> QED
    BY <1>1, <1>2
<1>8. TableSound'
  <2> SUFFICES ASSUME NEW j \in Cores, NEW o \in Keys, table'[j][o] # NoConn
               PROVE  /\ table'[j][o] \in DOMAIN conn'
                      /\ conn'[table'[j][o]].key = o
                      /\ \A l \in Cores : table'[l][o] = table'[j][o] => l = j
    BY DEF TableSound, Allocated
  <2> QED
    BY <1>1, <1>5, EntryFacts DEF MemoryInv, TableSound
<1>9. DispatchedStates'
  BY <1>1, <1>6 DEF MemoryInv, DispatchedStates
<1>10. OnlyDeadOrphans'
  BY <1>1, <1>7 DEF MemoryInv, OnlyDeadOrphans
<1>11. DeafNeverEstablished'
  <2> SUFFICES ASSUME NEW j \in Cores, NEW o \in Keys, table'[j][o] # NoConn,
                      Steer[o.flow] # j \/ o.pad # rxPad[j]
               PROVE  conn'[table'[j][o]].tcpState \in {"SYN_SENT", "FIN_WAIT1"}
    BY DEF DeafNeverEstablished
  <2> QED
    BY <1>1, <1>5, EntryFacts DEF Heard
<1>12. \A x \in DOMAIN conn' : ConnInv(conn'[x])
  BY <1>1 DEF MemoryInv
<1> QED
  BY <1>2, <1>3, <1>8, <1>9, <1>10, <1>11, <1>12 DEF MemoryInv, ConnInv

-----------------------------------------------------------------------------
(* Sending *)

LEMMA TakenRange ==
  ASSUME NEW c
  PROVE  /\ Taken(c) \in 0 .. Modulus
         /\ "SYN" \notin c.tcp_flags /\ "FIN" \notin c.tcp_flags => Taken(c) = 0
         /\ "SYN" \in c.tcp_flags /\ "FIN" \notin c.tcp_flags => Taken(c) = 1
BY HalfSpacePositive DEF Taken, Modulus

\* What tcp_tx_packets leaves in the connection, and the segment it hands out.
LEMMA TransmitFacts ==
  ASSUME NEW id \in ConnIds, NEW c \in Connection, NEW len \in Sizes,
         NEW final \in States, Transmit(id, c, len, final)
  PROVE  /\ tx' = {Outgoing(id, c, len)}
         /\ tx' \subseteq Output
         /\ \E d \in Connection :
              /\ conn' = Store(id, d)
              /\ d.key = c.key /\ d.tcpState = final
              /\ d.una = c.una /\ d.snd_nxt = Plus(c.snd_nxt, Taken(c))
              /\ d.irs = c.irs /\ d.rcv_nxt = c.rcv_nxt
              /\ d.tcp_flags = c.tcp_flags \ {"SYN", "FIN"}
<1>1. Plus(c.snd_nxt, Taken(c)) \in SeqNum
  BY TakenRange, PlusType DEF Connection
<1>2. Outgoing(id, c, len) \in Output
  BY DEF Outgoing, Output, Connection, Keys
<1> DEFINE d == [AfterTx(c) EXCEPT !.tcpState = final]
<1>3. d = [c EXCEPT !.snd_nxt = Plus(c.snd_nxt, Taken(c)),
                    !.tcp_flags = c.tcp_flags \ {"SYN", "FIN"}, !.tcpState = final]
  BY DEF AfterTx, Connection
<1>4. /\ d \in Connection
      /\ d.key = c.key /\ d.tcpState = final
      /\ d.una = c.una /\ d.snd_nxt = Plus(c.snd_nxt, Taken(c))
      /\ d.irs = c.irs /\ d.rcv_nxt = c.rcv_nxt
      /\ d.tcp_flags = c.tcp_flags \ {"SYN", "FIN"}
  BY <1>1, <1>3 DEF Connection
<1> QED
  BY <1>2, <1>4 DEF Transmit

\* A step that sends no SYN, or nothing, has nothing to show for SynOnlyInHandshake.
LEMMA NoSynSent ==
  ASSUME NEW id \in ConnIds, NEW c \in Connection, NEW len \in Sizes,
         NEW final \in States, Transmit(id, c, len, final),
         "SYN" \notin c.tcp_flags, printed' \subseteq Delivery
  PROVE  OutputInv'
<1>1. tx' = {Outgoing(id, c, len)} /\ tx' \subseteq Output
  BY TransmitFacts
<1> QED
  BY <1>1 DEF OutputInv, SynOnlyInHandshake, Outgoing

LEMMA SilentOutput ==
  ASSUME Silent, printed' = {}
  PROVE  OutputInv'
BY DEF Silent, OutputInv, SynOnlyInHandshake

-----------------------------------------------------------------------------
(* Every action keeps the invariant *)

LEMMA RxKeyFacts ==
  ASSUME MemoryInv, NEW k \in Cores, NEW q \in Flows
  PROVE  /\ RxKey(k, q) \in Keys
         /\ Receives(k, q) => Heard(k, RxKey(k, q))
BY DEF MemoryInv, RxKey, Keys, Heard, Receives

\* A window field or a command's length is a size too.
LEMMA WindowSizes == Windows \subseteq Sizes /\ 0 \in Sizes
BY SeqAssumption DEF Windows, Sizes

\* The numbers of a segment, and the edges the handlers compute from them.
LEMMA SegmentFacts ==
  ASSUME NEW s \in Segment
  PROVE  /\ s.seq \in SeqNum /\ s.ack \in SeqNum
         /\ s.len \in Sizes /\ s.wnd \in Windows
         /\ Plus(s.seq, 1) \in SeqNum /\ Plus(s.ack, 1) \in SeqNum
         /\ DataEnd(s) \in SeqNum
<1>1. s.seq \in SeqNum /\ s.ack \in SeqNum /\ s.len \in Sizes /\ s.wnd \in Windows
  BY DEF Segment
<1>2. 1 \in 0 .. Modulus
  BY HalfSpacePositive DEF Modulus
<1>3. DataEnd(s) \in SeqNum
  <2>1. CASE s.len < 0
    <3>1. -s.len \in SeqNum
      BY <1>1, <2>1, SeqAssumption DEF Sizes, SeqNum, Modulus
    <3> QED
      BY <1>1, <2>1, <3>1, MinusType DEF DataEnd
  <2>2. CASE ~(s.len < 0)
    <3>1. s.len \in 0 .. Modulus
      BY <1>1, <2>2, SeqAssumption DEF Sizes, Modulus
    <3> QED
      BY <1>1, <2>2, <3>1, PlusType DEF DataEnd
  <2> QED
    BY <2>1, <2>2
<1> QED
  BY <1>1, <1>2, <1>3, PlusType

LEMMA ListenKeeps ==
  ASSUME IInv, NEW k \in Cores, NEW q \in Flows, NEW s \in Segment,
         handle_tcp_listen(k, q, s)
  PROVE  IInv'
<1> DEFINE key == RxKey(k, q)
<1>1. key \in Keys /\ Heard(k, key)
  BY RxKeyFacts DEF IInv, handle_tcp_listen
<1> DEFINE c == [key |-> key, tcpState |-> "SYN_RECV", una |-> ISS, snd_nxt |-> ISS,
                 irs |-> s.seq, rcv_nxt |-> Plus(s.seq, 1), rcv_wnd |-> s.wnd,
                 tcp_flags |-> {"SYN", "ACK"}]
<1>2. PICK id \in ConnIds \ DOMAIN conn :
        Transmit(id, c, s.len, "SYN_RECV") /\ table' = AddKey(k, key, id)
  BY DEF handle_tcp_listen
<1>3. c \in Connection /\ s.len \in Sizes /\ s.seq \in SeqNum
  BY <1>1, SegmentFacts, WindowsFit DEF Connection, States, Flags, ISS
<1>4. "SYN_RECV" \in States
  BY DEF States
<1>5. Taken(c) = 1
  BY TakenRange
<1>6. PICK d \in Connection :
        /\ conn' = Store(id, d)
        /\ d.key = key /\ d.tcpState = "SYN_RECV"
        /\ d.una = ISS /\ d.snd_nxt = Plus(ISS, 1)
        /\ d.irs = s.seq /\ d.rcv_nxt = Plus(s.seq, 1)
        /\ d.tcp_flags = {"SYN", "ACK"} \ {"SYN", "FIN"}
  BY <1>2, <1>3, <1>4, <1>5, TransmitFacts
<1>7. MemoryInv'
  <2>1. ConnInv(d)
    BY <1>6 DEF ConnInv
  <2>2. table[k][key] = NoConn /\ rxPad' = rxPad
    BY DEF handle_tcp_listen, Found
  <2> HIDE DEF c, key
  <2> QED
    BY <1>1, <1>2, <1>6, <2>1, <2>2, CreateKeeps DEF IInv
<1>8. OutputInv'
  <2>1. tx' = {Outgoing(id, c, s.len)} /\ tx' \subseteq Output
    BY <1>2, <1>3, <1>4, TransmitFacts
  <2>2. conn'[id] = d
    BY <1>6, StoreFacts
  <2> QED
    BY <1>6, <2>1, <2>2 DEF OutputInv, SynOnlyInHandshake, Outgoing, handle_tcp_listen
<1> QED
  BY <1>7, <1>8 DEF IInv

\* The connection that a segment is dispatched to.
LEMMA InStateFacts ==
  ASSUME MemoryInv, NEW k \in Cores, NEW q \in Flows, NEW st, InState(k, q, st)
  PROVE  /\ RxKey(k, q) \in Keys /\ Heard(k, RxKey(k, q))
         /\ Found(k, q) = table[k][RxKey(k, q)] /\ Found(k, q) # NoConn
         /\ Found(k, q) \in DOMAIN conn /\ Found(k, q) \in ConnIds
         /\ conn[Found(k, q)] \in Connection
         /\ conn[Found(k, q)].key = RxKey(k, q)
         /\ conn[Found(k, q)].tcpState = st
         /\ ConnInv(conn[Found(k, q)])
BY RxKeyFacts, EntryFacts DEF InState, Found

\* A handler that sends, and files the result under the same key.
LEMMA ReplyKeeps ==
  ASSUME IInv, NEW k \in Cores, NEW q \in Flows, NEW st, InState(k, q, st),
         NEW c \in Connection, c.key = conn[Found(k, q)].key,
         NEW len \in Sizes, NEW final \in Live,
         Transmit(Found(k, q), c, len, final),
         final = "SYN_SENT" => c.una = ISS /\ c.snd_nxt = Plus(ISS, 1),
         final # "SYN_RECV", "SYN" \notin c.tcp_flags,
         "FIN" \in c.tcp_flags => final # "SYN_SENT",
         table' = table, rxPad' = rxPad, printed' \subseteq Delivery
  PROVE  IInv'
<1> DEFINE id == Found(k, q)
           key == RxKey(k, q)
<1>1. /\ key \in Keys /\ Heard(k, key)
      /\ id = table[k][key] /\ id # NoConn /\ id \in ConnIds
      /\ c.key = key
  BY InStateFacts DEF IInv
<1>2. final \in States
  BY DEF Live, States
<1>3. PICK d \in Connection :
        /\ conn' = Store(id, d)
        /\ d.key = c.key /\ d.tcpState = final
        /\ d.una = c.una /\ d.snd_nxt = Plus(c.snd_nxt, Taken(c))
        /\ d.irs = c.irs /\ d.rcv_nxt = c.rcv_nxt
        /\ d.tcp_flags = c.tcp_flags \ {"SYN", "FIN"}
  BY <1>1, <1>2, TransmitFacts
<1>4. final = "SYN_SENT" => d.snd_nxt = Plus(ISS, 1)
  <2> SUFFICES ASSUME final = "SYN_SENT" PROVE Plus(Plus(ISS, 1), 0) = Plus(ISS, 1)
    BY <1>3, TakenRange
  <2> QED
    BY HalfSpacePositive DEF Plus, ISS, Modulus
<1>5. ConnInv(d)
  BY <1>3, <1>4 DEF ConnInv
<1>6. MemoryInv'
  BY <1>1, <1>3, <1>5, UpdateKeeps DEF IInv
<1>7. OutputInv'
  BY <1>1, <1>2, NoSynSent
<1> QED
  BY <1>6, <1>7 DEF IInv

LEMMA SynRecvKeeps ==
  ASSUME IInv, NEW k \in Cores, NEW q \in Flows, NEW s \in Segment,
         handle_tcp_syn_recv(k, q, s)
  PROVE  IInv'
<1> DEFINE id == Found(k, q)
           key == RxKey(k, q)
           c == conn[id]
<1>1. /\ key \in Keys /\ Heard(k, key)
      /\ id = table[k][key] /\ id # NoConn /\ id \in ConnIds /\ id \in DOMAIN conn
      /\ c \in Connection /\ c.key = key /\ c.tcpState = "SYN_RECV" /\ ConnInv(c)
  BY InStateFacts DEF IInv, handle_tcp_syn_recv
<1>2. table' = table /\ rxPad' = rxPad /\ printed' = {}
  BY DEF handle_tcp_syn_recv
<1>3. CASE Transmit(id, Rewound(c), s.len, "SYN_RECV")
  <2> DEFINE r == Rewound(c)
  <2>1. /\ r \in Connection /\ r.key = key /\ r.una = ISS /\ r.snd_nxt = ISS
        /\ r.irs = c.irs /\ r.rcv_nxt = c.rcv_nxt
        /\ r.tcp_flags = c.tcp_flags \cup {"SYN"}
    <3>1. Minus(c.snd_nxt, 1) = ISS /\ ISS \in SeqNum
      BY <1>1, MinusPlus, WindowsFit DEF ConnInv, ISS
    <3> QED
      BY <1>1, <3>1 DEF Rewound, Connection, ConnInv, Flags
  <2>2. s.len \in Sizes /\ "SYN_RECV" \in States
    BY DEF Segment, States
  <2>3. Taken(r) = 1
    BY <1>1, <2>1, TakenRange DEF ConnInv
  <2>4. PICK d \in Connection :
          /\ conn' = Store(id, d)
          /\ d.key = key /\ d.tcpState = "SYN_RECV"
          /\ d.una = ISS /\ d.snd_nxt = Plus(ISS, 1)
          /\ d.irs = c.irs /\ d.rcv_nxt = c.rcv_nxt
          /\ d.tcp_flags = r.tcp_flags \ {"SYN", "FIN"}
    BY <1>1, <1>3, <2>1, <2>2, <2>3, TransmitFacts
  <2>5. ConnInv(d)
    BY <1>1, <2>1, <2>4 DEF ConnInv
  <2>6. MemoryInv'
    BY <1>1, <1>2, <2>4, <2>5, UpdateKeeps DEF IInv, Live
  <2>7. OutputInv'
    <3>1. tx' = {Outgoing(id, r, s.len)} /\ tx' \subseteq Output
      BY <1>1, <1>3, <2>1, <2>2, TransmitFacts
    <3>2. conn'[id] = d
      BY <2>4, StoreFacts
    <3>3. /\ "ACK" \in c.tcp_flags /\ c.rcv_nxt = Plus(c.irs, 1)
      BY <1>1 DEF ConnInv
    <3>4. "ACK" \in r.tcp_flags /\ r.snd_nxt = ISS /\ r.rcv_nxt = Plus(d.irs, 1)
      BY <2>1, <2>4, <3>3
    <3>5. /\ tx' = {Outgoing(id, r, s.len)} /\ tx' \subseteq Output /\ printed' = {}
          /\ conn'[id].tcpState = "SYN_RECV" /\ conn'[id].irs = d.irs
      BY <1>2, <2>4, <3>1, <3>2
    <3> HIDE DEF id, r
    <3> QED
      BY <3>4, <3>5 DEF OutputInv, SynOnlyInHandshake, Outgoing
  <2> QED
    BY <2>6, <2>7 DEF IInv
<1>4. CASE Silent /\ UNCHANGED conn
  BY <1>2, <1>4, SilentOutput, NothingKeeps DEF IInv
<1>5. CASE Silent /\ conn' = Store(id, [c EXCEPT !.tcpState = "ESTABLISHED"])
  <2> DEFINE d == [c EXCEPT !.tcpState = "ESTABLISHED"]
  <2>1. d \in Connection /\ d.key = key /\ d.tcpState = "ESTABLISHED" /\ ConnInv(d)
    BY <1>1 DEF Connection, States, ConnInv
  <2>2. MemoryInv'
    <3> HIDE DEF d
    <3> QED
      BY <1>1, <1>2, <1>5, <2>1, UpdateKeeps DEF IInv, Live, d
  <2> QED
    BY <1>2, <1>5, <2>2, SilentOutput DEF IInv
<1> QED
  BY <1>3, <1>4, <1>5 DEF handle_tcp_syn_recv, Opened

LEMMA SynSentKeeps ==
  ASSUME IInv, NEW k \in Cores, NEW q \in Flows, NEW s \in Segment,
         handle_tcp_syn_sent(k, q, s)
  PROVE  IInv'
<1> DEFINE id == Found(k, q)
           c  == conn[id]
           c1 == [c EXCEPT !.tcp_flags = {"ACK"}, !.rcv_nxt = Plus(s.seq, 1)]
           c2 == [c1 EXCEPT !.una = Plus(s.ack, 1)]
<1>1. /\ InState(k, q, "SYN_SENT")
      /\ table' = table /\ rxPad' = rxPad /\ printed' = {}
      /\ \/ Transmit(id, c2, s.len, "ESTABLISHED")
         \/ Transmit(id, c1, s.len, "SYN_SENT")
  BY DEF handle_tcp_syn_sent
<1>2. c \in Connection /\ c.tcpState = "SYN_SENT" /\ ConnInv(c)
  BY <1>1, InStateFacts DEF IInv
<1>3. /\ Plus(s.seq, 1) \in SeqNum /\ Plus(s.ack, 1) \in SeqNum /\ s.len \in Sizes
  BY SegmentFacts
<1>4. /\ c1 \in Connection /\ c1.key = c.key /\ c1.una = ISS /\ c1.snd_nxt = Plus(ISS, 1)
      /\ c1.tcp_flags = {"ACK"}
  BY <1>2, <1>3 DEF Connection, ConnInv, Flags
<1>5. c2 \in Connection /\ c2.key = c.key /\ c2.tcp_flags = {"ACK"}
  BY <1>3, <1>4 DEF Connection
<1> HIDE DEF c1, c2
<1>6. CASE Transmit(id, c2, s.len, "ESTABLISHED")
  BY <1>1, <1>3, <1>5, <1>6, ReplyKeeps DEF Live
<1>7. CASE Transmit(id, c1, s.len, "SYN_SENT")
  BY <1>1, <1>3, <1>4, <1>7, ReplyKeeps DEF Live
<1> QED
  BY <1>1, <1>6, <1>7

LEMMA EstablishKeeps ==
  ASSUME IInv, NEW k \in Cores, NEW q \in Flows, NEW s \in Segment,
         handle_tcp_establish(k, q, s)
  PROVE  IInv'
<1> DEFINE id  == Found(k, q)
           c   == conn[id]
           fin == [c EXCEPT !.tcp_flags = {"FIN", "ACK"}, !.rcv_nxt = Plus(s.seq, 1)]
           dat == DataReceived(c, s)
           bare == [c EXCEPT !.snd_nxt = s.ack]
           shown == Shown(id, s)
<1>1. InState(k, q, "ESTABLISHED") /\ table' = table /\ rxPad' = rxPad
  BY DEF handle_tcp_establish
<1>2. /\ RxKey(k, q) \in Keys /\ Heard(k, RxKey(k, q))
      /\ id = table[k][RxKey(k, q)] /\ id # NoConn /\ id \in ConnIds
      /\ c \in Connection /\ c.key = RxKey(k, q) /\ c.tcpState = "ESTABLISHED" /\ ConnInv(c)
  BY <1>1, InStateFacts DEF IInv
<1>3. /\ s.seq \in SeqNum /\ s.ack \in SeqNum /\ s.len \in Sizes
      /\ Plus(s.seq, 1) \in SeqNum /\ DataEnd(s) \in SeqNum
  BY SegmentFacts
<1>4. CASE Silent /\ UNCHANGED conn /\ printed' = {}
  BY <1>1, <1>4, NothingKeeps, SilentOutput DEF IInv
<1>5. CASE Transmit(id, fin, s.len, AfterPeerFin) /\ printed' = {}
  <2>1. /\ fin \in Connection /\ fin.key = c.key /\ "SYN" \notin fin.tcp_flags
        /\ AfterPeerFin \in Live /\ AfterPeerFin \notin {"SYN_SENT", "SYN_RECV"}
    BY <1>2, <1>3 DEF Connection, Flags, AfterPeerFin, Live
  <2> HIDE DEF fin
  <2> QED
    BY <1>1, <1>3, <1>5, <2>1, ReplyKeeps
<1>6. CASE Silent /\ conn' = Store(id, bare) /\ printed' = {}
  <2>1. bare \in Connection /\ bare.key = c.key /\ bare.tcpState = "ESTABLISHED" /\ ConnInv(bare)
    BY <1>2, <1>3 DEF Connection, ConnInv
  <2>2. MemoryInv'
    <3> HIDE DEF bare
    <3> QED
      BY <1>1, <1>2, <1>6, <2>1, UpdateKeeps DEF IInv, Live, bare
  <2> QED
    BY <1>6, <2>2, SilentOutput DEF IInv
<1>7. CASE Transmit(id, dat, 0, "ESTABLISHED") /\ printed' = shown
  <2>1. dat \in Connection /\ dat.key = c.key /\ dat.tcp_flags = {"ACK"}
    BY <1>2, <1>3 DEF DataReceived, Connection, Flags
  <2>2. shown \subseteq Delivery
    BY <1>2, <1>3 DEF Shown, Delivery, Sizes, Windows
  <2>3. 0 \in Sizes
    BY WindowSizes
  <2> HIDE DEF dat, shown
  <2> QED
    BY <1>1, <1>7, <2>1, <2>2, <2>3, ReplyKeeps DEF Live
<1> QED
  BY <1>4, <1>5, <1>6, <1>7 DEF handle_tcp_establish

LEMMA FinWait1Keeps ==
  ASSUME IInv, NEW k \in Cores, NEW q \in Flows, NEW s \in Segment,
         handle_tcp_fin_wait1(k, q, s)
  PROVE  IInv'
<1> DEFINE id == Found(k, q)
           c  == conn[id]
           c1 == [c EXCEPT !.tcp_flags = {"ACK"}, !.rcv_nxt = Plus(s.seq, 1)]
<1>1. InState(k, q, "FIN_WAIT1") /\ rxPad' = rxPad /\ printed' = {}
  BY DEF handle_tcp_fin_wait1
<1>2. /\ RxKey(k, q) \in Keys
      /\ id = table[k][RxKey(k, q)] /\ id # NoConn /\ id \in ConnIds
      /\ c \in Connection /\ c.key = RxKey(k, q) /\ ConnInv(c)
  BY <1>1, InStateFacts DEF IInv
<1>3. CASE Silent /\ UNCHANGED <<conn, table>>
  BY <1>1, <1>3, NothingKeeps, SilentOutput DEF IInv
<1>4. CASE Transmit(id, c1, 0, "FIN_WAIT2") /\ table' = DelKey(k, c.key)
  <2>1. c1 \in Connection /\ c1.key = c.key /\ c1.tcp_flags = {"ACK"}
    BY <1>2, SegmentFacts DEF Connection, Flags
  <2>2. 0 \in Sizes /\ "FIN_WAIT2" \in States
    BY WindowSizes DEF States
  <2> HIDE DEF c1
  <2>3. PICK d \in Connection :
          /\ conn' = Store(id, d)
          /\ d.key = c1.key /\ d.tcpState = "FIN_WAIT2"
          /\ d.tcp_flags = c1.tcp_flags \ {"SYN", "FIN"}
    <3>1. id \in ConnIds /\ Transmit(id, c1, 0, "FIN_WAIT2")
      BY <1>2, <1>4
    <3> HIDE DEF id
    <3> QED
      BY <3>1, <2>1, <2>2, TransmitFacts
  <2>4. MemoryInv'
    BY <1>1, <1>2, <1>4, <2>1, <2>3, DropKeeps DEF IInv, ConnInv
  <2>5. OutputInv'
    BY <1>1, <1>2, <1>4, <2>1, <2>2, NoSynSent
  <2> QED
    BY <2>4, <2>5 DEF IInv
<1> QED
  BY <1>3, <1>4 DEF handle_tcp_fin_wait1

LEMMA LastAckKeeps ==
  ASSUME IInv, NEW k \in Cores, NEW q \in Flows, NEW s \in Segment,
         handle_tcp_last_ack(k, q, s)
  PROVE  IInv'
<1> DEFINE id == Found(k, q)
<1>1. InState(k, q, "LAST_ACK") /\ rxPad' = rxPad /\ printed' = {}
  BY DEF handle_tcp_last_ack
<1>2. /\ RxKey(k, q) \in Keys
      /\ id = table[k][RxKey(k, q)] /\ id # NoConn /\ conn[id].key = RxKey(k, q)
  BY <1>1, InStateFacts DEF IInv
<1>3. conn' = Without(id) /\ table' = DelKey(k, RxKey(k, q)) /\ Silent
  BY <1>2 DEF handle_tcp_last_ack, Unfile
<1>4. MemoryInv'
  BY <1>1, <1>2, <1>3, FreeKeeps DEF IInv
<1> QED
  BY <1>1, <1>3, <1>4, SilentOutput DEF IInv

LEMMA ReceiveKeeps ==
  ASSUME IInv, NEW k \in Cores, NEW q \in Flows, NEW s \in Segment, Receive(k, q, s)
  PROVE  IInv'
<1>1. CASE IgnoreUnknown(k, q, s)
  BY <1>1, NothingKeeps, SilentOutput DEF IInv, IgnoreUnknown
<1> QED
  BY <1>1, ListenKeeps, SynRecvKeeps, SynSentKeeps, EstablishKeeps, FinWait1Keeps,
     LastAckKeeps DEF Receive

LEMMA ConnectKeeps ==
  ASSUME IInv, NEW q \in Flows, NEW p \in Pads, active_connect(q, p)
  PROVE  IInv'
<1> DEFINE key == CliKey(q, p)
           c == [key |-> key, tcpState |-> "SYN_SENT", una |-> ISS, snd_nxt |-> ISS,
                 irs |-> ISS, rcv_nxt |-> ISS, rcv_wnd |-> LocalWindow,
                 tcp_flags |-> {"SYN"}]
<1>1. key \in Keys /\ 1 \in Cores /\ 0 \in Sizes /\ "SYN_SENT" \in States
  BY TcpAssumption, WindowSizes DEF CliKey, Keys, Cores, States
<1>2. PICK id \in ConnIds \ DOMAIN conn :
        Transmit(id, c, 0, "SYN_SENT") /\ table' = AddKey(1, key, id)
  BY DEF active_connect
<1>3. c \in Connection
  BY <1>1, WindowsFit, TcpAssumption DEF Connection, States, Flags, ISS
<1>4. Taken(c) = 1
  BY TakenRange
<1>5. PICK d \in Connection :
        /\ conn' = Store(id, d)
        /\ d.key = key /\ d.tcpState = "SYN_SENT"
        /\ d.una = ISS /\ d.snd_nxt = Plus(ISS, 1)
        /\ d.tcp_flags = {"SYN"} \ {"SYN", "FIN"}
  BY <1>1, <1>2, <1>3, <1>4, TransmitFacts
<1>6. MemoryInv'
  <2>1. ConnInv(d)
    BY <1>5 DEF ConnInv
  <2>2. table[1][key] = NoConn /\ rxPad' = rxPad
    BY DEF active_connect
  <2> HIDE DEF c, key
  <2> QED
    BY <1>1, <1>2, <1>5, <2>1, <2>2, CreateKeeps DEF IInv
<1>7. OutputInv'
  <2>1. tx' = {Outgoing(id, c, 0)} /\ tx' \subseteq Output
    BY <1>1, <1>2, <1>3, TransmitFacts
  <2>2. conn'[id] = d
    BY <1>5, StoreFacts
  <2> QED
    BY <1>5, <2>1, <2>2 DEF OutputInv, SynOnlyInHandshake, Outgoing, active_connect
<1> QED
  BY <1>6, <1>7 DEF IInv

LEMMA CloseKeeps ==
  ASSUME IInv, NEW k \in Cores, NEW q \in Flows, NEW p \in Pads, active_close(k, q, p)
  PROVE  IInv'
<1> DEFINE key == CliKey(q, p)
           id  == table[k][key]
           c1  == [conn[id] EXCEPT !.tcp_flags = {"FIN", "ACK"}]
<1>1. /\ Transmit(id, c1, 0, "FIN_WAIT1")
      /\ id # NoConn /\ table' = table /\ rxPad' = rxPad /\ printed' = {}
  BY DEF active_close, Closing, FirstWith
<1>2. key \in Keys /\ 0 \in Sizes /\ "FIN_WAIT1" \in States
  BY WindowSizes DEF CliKey, Keys, States
<1>3. id \in ConnIds /\ conn[id] \in Connection /\ conn[id].key = key
  BY <1>1, <1>2, EntryFacts DEF IInv
<1>4. c1 \in Connection /\ c1.key = key /\ c1.tcp_flags = {"FIN", "ACK"}
  BY <1>3 DEF Connection, Flags
<1> HIDE DEF c1
<1>5. PICK d \in Connection :
        /\ conn' = Store(id, d)
        /\ d.key = c1.key /\ d.tcpState = "FIN_WAIT1"
        /\ d.tcp_flags = c1.tcp_flags \ {"SYN", "FIN"}
  <2>1. /\ id \in ConnIds /\ c1 \in Connection /\ 0 \in Sizes /\ "FIN_WAIT1" \in States
        /\ Transmit(id, c1, 0, "FIN_WAIT1")
    BY <1>1, <1>2, <1>3, <1>4
  <2> HIDE DEF id, key
  <2> QED
    BY <2>1, TransmitFacts
<1>6. MemoryInv'
  BY <1>1, <1>2, <1>4, <1>5, UpdateKeeps DEF IInv, ConnInv, Live
<1>7. OutputInv'
  BY <1>1, <1>2, <1>3, <1>4, NoSynSent
<1> QED
  BY <1>6, <1>7 DEF IInv

LEMMA SendKeeps ==
  ASSUME IInv, NEW k \in Cores, NEW q \in Flows, NEW p \in Pads, NEW size \in SendLens,
         active_send_data(k, q, p, size)
  PROVE  IInv'
<1> DEFINE key == CliKey(q, p)
           id  == table[k][key]
           c   == conn[id]
           c1  == [c EXCEPT !.tcp_flags = {"ACK", "PSH"}]
<1>1. /\ Transmit(id, c1, size, c.tcpState)
      /\ id # NoConn /\ table' = table /\ rxPad' = rxPad /\ printed' = {}
  BY DEF active_send_data, FirstWith
<1>2. key \in Keys /\ size \in Sizes
  BY WindowSizes, TcpAssumption DEF CliKey, Keys
<1>3. /\ id \in ConnIds /\ c \in Connection /\ c.key = key
      /\ c.tcpState \in Live /\ ConnInv(c)
      /\ Heard(k, key) \/ c.tcpState \in {"SYN_SENT", "FIN_WAIT1"}
  BY <1>1, <1>2, EntryFacts DEF IInv
<1>4. /\ c1 \in Connection /\ c1.key = key /\ c1.tcp_flags = {"ACK", "PSH"}
      /\ c1.una = c.una /\ c1.snd_nxt = c.snd_nxt
      /\ c1.irs = c.irs /\ c1.rcv_nxt = c.rcv_nxt
  BY <1>3 DEF Connection, Flags
<1>5. c.tcpState \in States /\ Plus(c.snd_nxt, 0) = c.snd_nxt
  BY <1>3, HalfSpacePositive DEF Connection, SeqNum, Plus, Modulus
<1> HIDE DEF c1
<1>6. PICK d \in Connection :
        /\ conn' = Store(id, d)
        /\ d.key = c1.key /\ d.tcpState = c.tcpState
        /\ d.una = c1.una /\ d.snd_nxt = Plus(c1.snd_nxt, Taken(c1))
        /\ d.irs = c1.irs /\ d.rcv_nxt = c1.rcv_nxt
        /\ d.tcp_flags = c1.tcp_flags \ {"SYN", "FIN"}
  <2>1. /\ id \in ConnIds /\ c1 \in Connection /\ size \in Sizes /\ c.tcpState \in States
        /\ Transmit(id, c1, size, c.tcpState)
    BY <1>1, <1>2, <1>3, <1>4, <1>5
  <2> HIDE DEF id, key, c
  <2> QED
    BY <2>1, TransmitFacts
<1>7. Taken(c1) = 0
  BY <1>4, TakenRange
<1>8. ConnInv(d)
  BY <1>3, <1>4, <1>5, <1>6, <1>7 DEF ConnInv
<1>9. MemoryInv'
  BY <1>1, <1>2, <1>3, <1>4, <1>6, <1>8, UpdateKeeps DEF IInv
<1>10. OutputInv'
  BY <1>1, <1>2, <1>3, <1>4, <1>5, NoSynSent
<1> QED
  BY <1>9, <1>10 DEF IInv

-----------------------------------------------------------------------------
(* The theorems *)

LEMMA Invariance == Spec => []IInv
<1>1. Init => IInv
  <2> SUFFICES ASSUME Init PROVE IInv
    OBVIOUS
  <2>1. DOMAIN conn = {} /\ \A k \in Cores, key \in Keys : table[k][key] = NoConn
    BY DEF Init
  <2> QED
    BY <2>1 DEF Init, IInv, MemoryInv, OutputInv, TableSound, DispatchedStates,
       OnlyDeadOrphans, DeafNeverEstablished, SynOnlyInHandshake
<1>2. IInv /\ [Next]_vars => IInv'
  <2> SUFFICES ASSUME IInv, [Next]_vars PROVE IInv'
    OBVIOUS
  <2>1. CASE UNCHANGED vars
    <3>1. UNCHANGED <<table, conn, rxPad>> /\ tx' = tx /\ printed' = printed
      BY <2>1 DEF vars
    <3>2. MemoryInv'
      BY <3>1, NothingKeeps DEF IInv
    <3>3. OutputInv'
      BY <3>1 DEF IInv, OutputInv, SynOnlyInHandshake
    <3> QED
      BY <3>2, <3>3 DEF IInv
  <2>2. CASE \E k \in Cores, q \in Flows, s \in Segments : Receive(k, q, s)
    BY <2>2, ReceiveKeeps, TcpAssumption
  <2>3. CASE \E q \in Flows, p \in Pads : Command(q, p)
    BY <2>3, ConnectKeeps, CloseKeeps, SendKeeps DEF Command
  <2> QED
    BY <2>1, <2>2, <2>3 DEF Next
<1> QED
  BY <1>1, <1>2, PTL DEF Spec

\* Every field keeps its type: sequence numbers stay 32 bits wide although the
\* handlers add to them and take peers' numbers over unchecked.
THEOREM TypeCorrect == Spec => []TypeOK
<1>1. IInv => TypeOK
  BY DEF IInv, MemoryInv, OutputInv, TypeOK
<1> QED
  BY <1>1, Invariance, PTL

\* The tables and the allocated connections agree, whatever the segments and
\* commands: no entry outlives its connection and none is filed twice.
THEOREM TableCorrect == Spec => []TableSound
<1>1. IInv => TableSound
  BY DEF IInv, MemoryInv
<1> QED
  BY <1>1, Invariance, PTL

\* The dispatcher's FIN_WAIT2 and default cases are dead code.
THEOREM DispatchCorrect == Spec => []DispatchedStates
<1>1. IInv => DispatchedStates
  BY DEF IInv, MemoryInv
<1> QED
  BY <1>1, Invariance, PTL

\* What the host loses track of is a refused handshake or a finished close.
THEOREM OrphansAreDead == Spec => []OnlyDeadOrphans
<1>1. IInv => OnlyDeadOrphans
  BY DEF IInv, MemoryInv
<1> QED
  BY <1>1, Invariance, PTL

\* The SYN takes one sequence number, however often it is repeated.
THEOREM HandshakeCorrect == Spec => []HandshakeEdges
<1>1. IInv => HandshakeEdges
  BY DEF IInv, MemoryInv, ConnInv, HandshakeEdges
<1> QED
  BY <1>1, Invariance, PTL

\* Every SYN on the wire opens or answers a handshake in progress.
THEOREM SynCorrect == Spec => []SynOnlyInHandshake
<1>1. IInv => SynOnlyInHandshake
  BY DEF IInv, OutputInv
<1> QED
  BY <1>1, Invariance, PTL

\* Entries their core cannot look up never complete a handshake.
THEOREM DeafCorrect == Spec => []DeafNeverEstablished
<1>1. IInv => DeafNeverEstablished
  BY DEF IInv, MemoryInv
<1> QED
  BY <1>1, Invariance, PTL

-----------------------------------------------------------------------------
(* Moving edges are acknowledged *)

Acked == /\ \A id \in DOMAIN conn \cap DOMAIN conn' :
              conn'[id].rcv_nxt # conn[id].rcv_nxt =>
                \E s \in tx' : s.by = id /\ s.ack = conn'[id].rcv_nxt
         /\ \A p \in printed' :
              \E s \in tx' : s.by = p.by /\ s.ack = Plus(p.seq, p.len)

LEMMA TransmitAcks ==
  ASSUME NEW id \in ConnIds, NEW c \in Connection, NEW len \in Sizes,
         NEW final \in States, Transmit(id, c, len, final),
         \A p \in printed' : p.by = id /\ Plus(p.seq, p.len) = c.rcv_nxt
  PROVE  Acked
<1>1. tx' = {Outgoing(id, c, len)}
  BY TransmitFacts
<1>2. PICK d \in Connection : conn' = Store(id, d) /\ d.rcv_nxt = c.rcv_nxt
  BY TransmitFacts
<1>3. conn'[id] = d /\ \A x \in DOMAIN conn : x # id => conn'[x] = conn[x]
  BY <1>2, StoreFacts
<1>4. /\ Outgoing(id, c, len) \in tx'
      /\ Outgoing(id, c, len).by = id /\ Outgoing(id, c, len).ack = c.rcv_nxt
  BY <1>1 DEF Outgoing
<1> QED
  BY <1>2, <1>3, <1>4 DEF Acked

LEMMA ReceiveAcks ==
  ASSUME IInv, NEW k \in Cores, NEW q \in Flows, NEW s \in Segments, Receive(k, q, s)
  PROVE  Acked
<1> DEFINE id == Found(k, q)
           c  == conn[id]
<1>1. s \in Segment
  BY TcpAssumption
<1>2. 0 \in Sizes
  BY WindowSizes
<1>3. ASSUME UNCHANGED conn, printed' = {} PROVE Acked
  BY <1>3 DEF Acked
<1>4. CASE IgnoreUnknown(k, q, s)
  BY <1>3, <1>4 DEF IgnoreUnknown
<1>5. CASE handle_tcp_listen(k, q, s)
  <2> DEFINE c1 == [key |-> RxKey(k, q), tcpState |-> "SYN_RECV", una |-> ISS,
                    snd_nxt |-> ISS, irs |-> s.seq, rcv_nxt |-> Plus(s.seq, 1),
                    rcv_wnd |-> s.wnd, tcp_flags |-> {"SYN", "ACK"}]
  <2>1. PICK new \in ConnIds : Transmit(new, c1, s.len, "SYN_RECV")
    BY <1>5 DEF handle_tcp_listen
  <2>2. c1 \in Connection
    BY <1>1, SegmentFacts, WindowsFit, RxKeyFacts
    DEF Connection, States, Flags, ISS, IInv
  <2>3. printed' = {} /\ s.len \in Sizes /\ "SYN_RECV" \in States
    BY <1>1, <1>5 DEF handle_tcp_listen, Segment, States
  <2> HIDE DEF c1
  <2> QED
    BY <2>1, <2>2, <2>3, TransmitAcks
<1>6. CASE handle_tcp_syn_recv(k, q, s)
  <2>1. id \in ConnIds /\ id \in DOMAIN conn /\ c \in Connection /\ ConnInv(c)
    BY <1>6, InStateFacts DEF handle_tcp_syn_recv, IInv
  <2>2. printed' = {} /\ s.len \in Sizes /\ "SYN_RECV" \in States
    BY <1>1, <1>6 DEF handle_tcp_syn_recv, Segment, States
  <2>3. CASE Transmit(id, Rewound(c), s.len, "SYN_RECV")
    <3>1. Minus(c.snd_nxt, 1) \in SeqNum
      BY <2>1, MinusType, WindowsFit DEF Connection
    <3>2. Rewound(c) \in Connection
      BY <2>1, <3>1 DEF Rewound, Connection, Flags
    <3> QED
      BY <2>1, <2>2, <2>3, <3>2, TransmitAcks
  <2>4. CASE conn' = Store(id, [c EXCEPT !.tcpState = "ESTABLISHED"])
    <3>1. [c EXCEPT !.tcpState = "ESTABLISHED"].rcv_nxt = c.rcv_nxt
      BY <2>1 DEF Connection
    <3> QED
      BY <2>1, <2>2, <2>4, <3>1, OverwriteFacts DEF Acked
  <2> QED
    BY <1>3, <1>6, <2>2, <2>3, <2>4 DEF handle_tcp_syn_recv, Opened
<1>7. CASE handle_tcp_syn_sent(k, q, s)
  <2> DEFINE c1 == [c EXCEPT !.tcp_flags = {"ACK"}, !.rcv_nxt = Plus(s.seq, 1)]
             c2 == [c1 EXCEPT !.una = Plus(s.ack, 1)]
  <2>1. id \in ConnIds /\ c \in Connection
    BY <1>7, InStateFacts DEF handle_tcp_syn_sent, IInv
  <2>2. c1 \in Connection /\ c2 \in Connection
    BY <1>1, <2>1, SegmentFacts DEF Connection, Flags
  <2>3. /\ printed' = {} /\ s.len \in Sizes
        /\ "ESTABLISHED" \in States /\ "SYN_SENT" \in States
    BY <1>1, <1>7 DEF handle_tcp_syn_sent, Segment, States
  <2>4. Transmit(id, c2, s.len, "ESTABLISHED") \/ Transmit(id, c1, s.len, "SYN_SENT")
    BY <1>7 DEF handle_tcp_syn_sent
  <2> HIDE DEF c1, c2
  <2> QED
    BY <2>1, <2>2, <2>3, <2>4, TransmitAcks
<1>8. CASE handle_tcp_establish(k, q, s)
  <2> DEFINE fin == [c EXCEPT !.tcp_flags = {"FIN", "ACK"}, !.rcv_nxt = Plus(s.seq, 1)]
             dat == DataReceived(c, s)
  <2>1. id \in ConnIds /\ id \in DOMAIN conn /\ c \in Connection
    BY <1>8, InStateFacts DEF handle_tcp_establish, IInv
  <2>2. /\ fin \in Connection
        /\ dat \in Connection /\ dat.rcv_nxt = DataEnd(s)
    BY <1>1, <2>1, SegmentFacts DEF Connection, Flags, DataReceived
  <2>3. s.len \in Sizes /\ "ESTABLISHED" \in States /\ AfterPeerFin \in States
    BY <1>1 DEF Segment, States, AfterPeerFin
  <2>4. CASE Transmit(id, fin, s.len, AfterPeerFin) /\ printed' = {}
    <3> HIDE DEF fin
    <3> QED
      BY <2>1, <2>2, <2>3, <2>4, TransmitAcks
  <2>5. CASE conn' = Store(id, [c EXCEPT !.snd_nxt = s.ack]) /\ printed' = {}
    <3>1. [c EXCEPT !.snd_nxt = s.ack].rcv_nxt = c.rcv_nxt
      BY <2>1 DEF Connection
    <3> QED
      BY <2>1, <2>5, <3>1, OverwriteFacts DEF Acked
  <2>6. CASE Transmit(id, dat, 0, "ESTABLISHED") /\ printed' = Shown(id, s)
    <3>1. \A p \in printed' : p.by = id /\ Plus(p.seq, p.len) = dat.rcv_nxt
      BY <1>1, <2>2, <2>6 DEF Shown, DataEnd, Segment, Sizes
    <3> HIDE DEF dat
    <3> QED
      BY <1>2, <2>1, <2>2, <2>3, <2>6, <3>1, TransmitAcks
  <2> QED
    BY <1>3, <1>8, <2>4, <2>5, <2>6 DEF handle_tcp_establish
<1>9. CASE handle_tcp_fin_wait1(k, q, s)
  <2> DEFINE c1 == [c EXCEPT !.tcp_flags = {"ACK"}, !.rcv_nxt = Plus(s.seq, 1)]
  <2>1. id \in ConnIds /\ c \in Connection
    BY <1>9, InStateFacts DEF handle_tcp_fin_wait1, IInv
  <2>2. c1 \in Connection
    BY <1>1, <2>1, SegmentFacts DEF Connection, Flags
  <2>3. printed' = {} /\ "FIN_WAIT2" \in States
    BY <1>9 DEF handle_tcp_fin_wait1, States
  <2>4. Transmit(id, c1, 0, "FIN_WAIT2") \/ UNCHANGED conn
    BY <1>9 DEF handle_tcp_fin_wait1
  <2> HIDE DEF c1
  <2> QED
    BY <1>2, <1>3, <2>1, <2>2, <2>3, <2>4, TransmitAcks
<1>10. CASE handle_tcp_last_ack(k, q, s)
  BY <1>10 DEF handle_tcp_last_ack, Without, Acked
<1> QED
  BY <1>4, <1>5, <1>6, <1>7, <1>8, <1>9, <1>10 DEF Receive

LEMMA CommandAcks ==
  ASSUME IInv, NEW q \in Flows, NEW p \in Pads, Command(q, p)
  PROVE  Acked
<1> DEFINE key == CliKey(q, p)
<1>1. key \in Keys /\ 0 \in Sizes
  BY WindowSizes DEF CliKey, Keys
<1>2. CASE active_connect(q, p)
  <2> DEFINE c == [key |-> key, tcpState |-> "SYN_SENT", una |-> ISS, snd_nxt |-> ISS,
                   irs |-> ISS, rcv_nxt |-> ISS, rcv_wnd |-> LocalWindow,
                   tcp_flags |-> {"SYN"}]
  <2>1. PICK id \in ConnIds : Transmit(id, c, 0, "SYN_SENT")
    BY <1>2 DEF active_connect
  <2>2. c \in Connection /\ "SYN_SENT" \in States
    BY <1>1, WindowsFit, TcpAssumption DEF Connection, States, Flags, ISS
  <2>3. printed' = {}
    BY <1>2 DEF active_connect
  <2> HIDE DEF c
  <2> QED
    BY <1>1, <2>1, <2>2, <2>3, TransmitAcks
<1>3. ASSUME NEW k \in Cores, active_close(k, q, p)
      PROVE  Acked
  <2> DEFINE c1 == [conn[table[k][key]] EXCEPT !.tcp_flags = {"FIN", "ACK"}]
  <2>1. table[k][key] # NoConn /\ Transmit(table[k][key], c1, 0, "FIN_WAIT1") /\ printed' = {}
    BY <1>3 DEF active_close, Closing, FirstWith
  <2>2. table[k][key] \in ConnIds /\ c1 \in Connection /\ "FIN_WAIT1" \in States
    BY <1>1, <2>1, EntryFacts DEF IInv, Connection, Flags, States
  <2> HIDE DEF c1
  <2> QED
    BY <1>1, <2>1, <2>2, TransmitAcks
<1>4. ASSUME NEW k \in Cores, NEW size \in SendLens, active_send_data(k, q, p, size)
      PROVE  Acked
  <2> DEFINE c  == conn[table[k][key]]
             c1 == [c EXCEPT !.tcp_flags = {"ACK", "PSH"}]
  <2>1. table[k][key] # NoConn /\ Transmit(table[k][key], c1, size, c.tcpState) /\ printed' = {}
    BY <1>4 DEF active_send_data, FirstWith
  <2>2. /\ table[k][key] \in ConnIds /\ c1 \in Connection
        /\ c.tcpState \in States /\ size \in Sizes
    BY WindowSizes, <1>1, <2>1, EntryFacts, TcpAssumption DEF IInv, Connection, Flags
  <2> HIDE DEF c1, c
  <2> QED
    BY <2>1, <2>2, TransmitAcks
<1> QED
  BY <1>2, <1>3, <1>4 DEF Command

\* No step moves a receive edge or prints data without a segment that
\* acknowledges exactly that.
THEOREM EdgeCorrect == Spec => EdgeIsAcked
<1>1. IInv /\ [Next]_vars => [Acked]_vars
  BY ReceiveAcks, CommandAcks DEF Next
<1> QED
  BY <1>1, Invariance, PTL DEF Spec, EdgeIsAcked, Acked

-----------------------------------------------------------------------------
(* Refinement of Lifecycle: how each way of treating tables and memory shows *)
(* in Status.                                                                *)

Moved(k, key, to) == Status' = [Status EXCEPT ![<<k, key>>] = to]

At(k, key) == IF table[k][key] = NoConn THEN "NONE" ELSE conn[table[k][key]].tcpState

LEMMA StatusOf ==
  /\ \A k \in Cores, key \in Keys : Status[<<k, key>>] = At(k, key)
  /\ Status = [x \in Cores \X Keys |-> At(x[1], x[2])]
BY DEF Status, At

\* To show that one slot moved it is enough to look at each slot.
LEMMA MovedIf ==
  ASSUME NEW k \in Cores, NEW key \in Keys, NEW to, At(k, key)' = to,
         \A j \in Cores, o \in Keys : <<j, o>> # <<k, key>> => At(j, o)' = At(j, o)
  PROVE  Moved(k, key, to)
<1>1. \A x \in Cores \X Keys : x = <<x[1], x[2]>> /\ x[1] \in Cores /\ x[2] \in Keys
  OBVIOUS
<1>2. Status' = [x \in Cores \X Keys |-> At(x[1], x[2])']
  BY DEF Status, At
<1>3. \A x \in Cores \X Keys :
        At(x[1], x[2])' = IF x = <<k, key>> THEN to ELSE At(x[1], x[2])
  BY <1>1
<1> QED
  BY <1>2, <1>3, StatusOf DEF Moved

LEMMA UpdateMoves ==
  ASSUME MemoryInv, NEW k \in Cores, NEW key \in Keys, table[k][key] # NoConn,
         NEW c, conn' = Store(table[k][key], c), table' = table
  PROVE  Moved(k, key, c.tcpState)
<1>1. /\ conn'[table[k][key]] = c
      /\ \A x \in DOMAIN conn : x # table[k][key] => conn'[x] = conn[x]
  <2>1. table[k][key] \in DOMAIN conn
    BY EntryFacts
  <2> QED
    BY <2>1, OverwriteFacts
<1>2. \A j \in Cores, o \in Keys : table[j][o] = table[k][key] => j = k /\ o = key
  BY EntryFacts DEF MemoryInv, TableSound
<1>3. \A j \in Cores, o \in Keys : table[j][o] # NoConn => table[j][o] \in DOMAIN conn
  BY EntryFacts
<1>4. At(k, key)' = c.tcpState
  BY <1>1 DEF At
<1>5. ASSUME NEW j \in Cores, NEW o \in Keys, <<j, o>> # <<k, key>>
      PROVE  At(j, o)' = At(j, o)
  <2>1. table[j][o] # table[k][key]
    BY <1>2, <1>5
  <2> QED
    BY <1>1, <1>3, <2>1 DEF At
<1> QED
  BY <1>4, <1>5, MovedIf

\* A full table drops the new entry: then nothing happened to any slot.
LEMMA CreateMoves ==
  ASSUME MemoryInv, NEW k \in Cores, NEW key \in Keys, table[k][key] = NoConn,
         NEW id \in ConnIds \ DOMAIN conn, NEW c,
         conn' = Store(id, c), table' = AddKey(k, key, id)
  PROVE  Moved(k, key, c.tcpState) \/ Status' = Status
<1>1. /\ conn'[id] = c
      /\ \A x \in DOMAIN conn : conn'[x] = conn[x]
  BY StoreFacts
<1>2. /\ \A j \in Cores, o \in Keys : <<j, o>> # <<k, key>> => table'[j][o] = table[j][o]
      /\ table'[k][key] \in {id, NoConn}
  BY AddKeyFacts
<1>3. \A j \in Cores, o \in Keys : table[j][o] # NoConn => table[j][o] \in DOMAIN conn
  BY EntryFacts
<1>4. id # NoConn
  BY TcpAssumption
<1>5. CASE table'[k][key] = id
  BY <1>1, <1>2, <1>3, <1>4, <1>5, MovedIf DEF At
<1>6. CASE table'[k][key] = NoConn
  BY <1>1, <1>2, <1>3, <1>6 DEF Status
<1> QED
  BY <1>2, <1>5, <1>6

LEMMA DropMoves ==
  ASSUME MemoryInv, NEW k \in Cores, NEW key \in Keys, table[k][key] # NoConn,
         table' = DelKey(k, key),
         \A x \in DOMAIN conn : x # table[k][key] => conn'[x] = conn[x]
  PROVE  Moved(k, key, "NONE")
<1>1. /\ \A j \in Cores, o \in Keys : <<j, o>> # <<k, key>> => table'[j][o] = table[j][o]
      /\ table'[k][key] = NoConn
  BY DelKeyFacts
<1>2. \A j \in Cores, o \in Keys : table[j][o] = table[k][key] => j = k /\ o = key
  BY EntryFacts DEF MemoryInv, TableSound
<1>3. \A j \in Cores, o \in Keys : table[j][o] # NoConn => table[j][o] \in DOMAIN conn
  BY EntryFacts
<1> QED
  BY <1>1, <1>2, <1>3, MovedIf DEF At

LEMMA NothingMoves ==
  ASSUME UNCHANGED <<table, conn>>
  PROVE  Status' = Status
BY DEF Status

\* tcp_tx_packets on a filed connection moves its slot to the final state.
LEMMA TransmitMoves ==
  ASSUME MemoryInv, NEW k \in Cores, NEW key \in Keys, table[k][key] # NoConn,
         NEW c \in Connection, NEW len \in Sizes, NEW final \in States,
         Transmit(table[k][key], c, len, final), table' = table
  PROVE  Moved(k, key, final)
<1>1. PICK d \in Connection : conn' = Store(table[k][key], d) /\ d.tcpState = final
  BY EntryFacts, TransmitFacts
<1> QED
  BY <1>1, UpdateMoves

\* A slot that moves along an edge of the life cycle takes a step of Lifecycle.
LEMMA EdgeTaken ==
  ASSUME NEW k \in Cores, NEW key \in Keys, NEW to, Moved(k, key, to),
         \/ At(k, key) = "NONE" /\ to \in {"SYN_RECV", "SYN_SENT"}
         \/ At(k, key) \in {"SYN_SENT", "SYN_RECV"} /\ to = "ESTABLISHED"
         \/ At(k, key) = "ESTABLISHED" /\ to = "LAST_ACK"
         \/ At(k, key) \in Live /\ to = "FIN_WAIT1"
         \/ At(k, key) \in {"FIN_WAIT1", "LAST_ACK"} /\ to = "NONE"
  PROVE  Cycle!Next
<1> DEFINE x == <<k, key>>
<1>1. x \in Cores \X Keys /\ Status[x] = At(k, key) /\ Status' = [Status EXCEPT ![x] = to]
  BY StatusOf DEF Moved
<1>2. \/ Cycle!PassiveOpen(x) \/ Cycle!ActiveOpen(x) \/ Cycle!Establish(x)
      \/ Cycle!PassiveClose(x) \/ Cycle!ActiveClose(x) \/ Cycle!Remove(x)
  <2> HIDE DEF x
  <2> QED
    BY <1>1 DEF Live, Cycle!PassiveOpen, Cycle!ActiveOpen, Cycle!Establish,
       Cycle!PassiveClose, Cycle!ActiveClose, Cycle!Remove, Cycle!Move, Cycle!Open
<1> QED
  BY <1>1, <1>2 DEF Cycle!Next

\* Moving a slot to the state it is in changes nothing.
LEMMA StaysPut ==
  ASSUME NEW k \in Cores, NEW key \in Keys, Moved(k, key, At(k, key))
  PROVE  Status' = Status
BY StatusOf DEF Moved

LEMMA ReceiveCycles ==
  ASSUME IInv, NEW k \in Cores, NEW q \in Flows, NEW s \in Segments, Receive(k, q, s)
  PROVE  Cycle!Next \/ Status' = Status
<1> DEFINE key == RxKey(k, q)
           id  == Found(k, q)
           c   == conn[id]
<1>1. MemoryInv /\ s \in Segment /\ key \in Keys /\ id = table[k][key] /\ 0 \in Sizes
  BY TcpAssumption, WindowSizes, RxKeyFacts DEF IInv, Found
<1>2. /\ s.len \in Sizes /\ s.seq \in SeqNum
      /\ Plus(s.seq, 1) \in SeqNum /\ Plus(s.ack, 1) \in SeqNum
  BY <1>1, SegmentFacts
<1>3. ASSUME NEW st, InState(k, q, st)
      PROVE  /\ id # NoConn /\ c \in Connection /\ id \in DOMAIN conn
             /\ At(k, key) = st
  BY <1>1, <1>3, InStateFacts DEF At
<1>4. CASE IgnoreUnknown(k, q, s)
  BY <1>4, NothingMoves DEF IgnoreUnknown
<1>5. CASE handle_tcp_listen(k, q, s)
  <2> DEFINE c1 == [key |-> key, tcpState |-> "SYN_RECV", una |-> ISS,
                    snd_nxt |-> ISS, irs |-> s.seq, rcv_nxt |-> Plus(s.seq, 1),
                    rcv_wnd |-> s.wnd, tcp_flags |-> {"SYN", "ACK"}]
  <2>1. PICK new \in ConnIds \ DOMAIN conn :
          Transmit(new, c1, s.len, "SYN_RECV") /\ table' = AddKey(k, key, new)
    BY <1>5 DEF handle_tcp_listen
  <2>2. c1 \in Connection /\ "SYN_RECV" \in States
    BY <1>1, SegmentFacts, WindowsFit DEF Connection, States, Flags, ISS
  <2>3. PICK d \in Connection : conn' = Store(new, d) /\ d.tcpState = "SYN_RECV"
    <3> HIDE DEF c1
    <3> QED
      BY <1>2, <2>1, <2>2, TransmitFacts
  <2>4. table[k][key] = NoConn /\ At(k, key) = "NONE"
    BY <1>1, <1>5 DEF handle_tcp_listen, At
  <2>5. Moved(k, key, "SYN_RECV") \/ Status' = Status
    BY <1>1, <2>1, <2>3, <2>4, CreateMoves
  <2> QED
    BY <1>1, <2>4, <2>5, EdgeTaken
<1>6. CASE handle_tcp_syn_recv(k, q, s)
  <2>1. InState(k, q, "SYN_RECV") /\ table' = table
    BY <1>6 DEF handle_tcp_syn_recv
  <2>2. /\ id # NoConn /\ c \in Connection /\ At(k, key) = "SYN_RECV"
        /\ "SYN_RECV" \in States
    BY <1>3, <2>1 DEF States
  <2>3. CASE Transmit(id, Rewound(c), s.len, "SYN_RECV")
    <3>1. Rewound(c) \in Connection
      <4>1. Minus(c.snd_nxt, 1) \in SeqNum
        BY <2>2, MinusType, WindowsFit DEF Connection
      <4> QED
        BY <2>2, <4>1 DEF Rewound, Connection, Flags
    <3>2. Moved(k, key, "SYN_RECV")
      BY <1>1, <1>2, <2>1, <2>2, <2>3, <3>1, TransmitMoves
    <3> QED
      BY <1>1, <2>2, <3>2, StaysPut
  <2>4. CASE conn' = Store(id, [c EXCEPT !.tcpState = "ESTABLISHED"])
    <3>1. Moved(k, key, "ESTABLISHED")
      <4>1. [c EXCEPT !.tcpState = "ESTABLISHED"].tcpState = "ESTABLISHED"
        BY <2>2 DEF Connection
      <4> QED
        BY <1>1, <2>1, <2>2, <2>4, <4>1, UpdateMoves
    <3> QED
      BY <1>1, <2>2, <3>1, EdgeTaken
  <2> QED
    BY <1>6, <2>1, <2>3, <2>4, NothingMoves DEF handle_tcp_syn_recv, Opened
<1>7. CASE handle_tcp_syn_sent(k, q, s)
  <2> DEFINE c1 == [c EXCEPT !.tcp_flags = {"ACK"}, !.rcv_nxt = Plus(s.seq, 1)]
             c2 == [c1 EXCEPT !.una = Plus(s.ack, 1)]
  <2>1. InState(k, q, "SYN_SENT") /\ table' = table
    BY <1>7 DEF handle_tcp_syn_sent
  <2>2. /\ id # NoConn /\ c \in Connection /\ At(k, key) = "SYN_SENT"
        /\ "SYN_SENT" \in States /\ "ESTABLISHED" \in States
    BY <1>3, <2>1 DEF States
  <2>3. c1 \in Connection /\ c2 \in Connection
    BY <1>2, <2>2 DEF Connection, Flags
  <2>4. Transmit(id, c2, s.len, "ESTABLISHED") \/ Transmit(id, c1, s.len, "SYN_SENT")
    BY <1>7 DEF handle_tcp_syn_sent
  <2> HIDE DEF c1, c2
  <2>5. Moved(k, key, "ESTABLISHED") \/ Moved(k, key, "SYN_SENT")
    BY <1>1, <1>2, <2>1, <2>2, <2>3, <2>4, TransmitMoves
  <2> QED
    BY <1>1, <2>2, <2>5, EdgeTaken, StaysPut
<1>8. CASE handle_tcp_establish(k, q, s)
  <2> DEFINE fin == [c EXCEPT !.tcp_flags = {"FIN", "ACK"}, !.rcv_nxt = Plus(s.seq, 1)]
             dat == DataReceived(c, s)
  <2>1. InState(k, q, "ESTABLISHED") /\ table' = table
    BY <1>8 DEF handle_tcp_establish
  <2>2. /\ id # NoConn /\ c \in Connection /\ At(k, key) = "ESTABLISHED"
        /\ "ESTABLISHED" \in States /\ AfterPeerFin \in States
    BY <1>3, <2>1 DEF States, AfterPeerFin
  <2>3. fin \in Connection /\ dat \in Connection
    BY <1>1, <2>2, SegmentFacts DEF Connection, Flags, DataReceived
  <2> HIDE DEF fin, dat
  <2>4. CASE Transmit(id, fin, s.len, AfterPeerFin)
    <3>1. Moved(k, key, AfterPeerFin)
      BY <1>1, <1>2, <2>1, <2>2, <2>3, <2>4, TransmitMoves
    <3> QED
      BY <1>1, <2>2, <3>1, EdgeTaken DEF AfterPeerFin
  <2>5. CASE conn' = Store(id, [c EXCEPT !.snd_nxt = s.ack])
    <3>1. Moved(k, key, "ESTABLISHED")
      <4>1. [c EXCEPT !.snd_nxt = s.ack].tcpState = "ESTABLISHED"
        BY <2>1, <2>2 DEF InState, Connection
      <4> QED
        BY <1>1, <2>1, <2>2, <2>5, <4>1, UpdateMoves
    <3> QED
      BY <1>1, <2>2, <3>1, StaysPut
  <2>6. CASE Transmit(id, dat, 0, "ESTABLISHED")
    <3>1. Moved(k, key, "ESTABLISHED")
      BY <1>1, <2>1, <2>2, <2>3, <2>6, TransmitMoves
    <3> QED
      BY <1>1, <2>2, <3>1, StaysPut
  <2> QED
    BY <1>8, <2>1, <2>4, <2>5, <2>6, NothingMoves DEF handle_tcp_establish, fin, dat
<1>9. CASE handle_tcp_fin_wait1(k, q, s)
  <2> DEFINE c1 == [c EXCEPT !.tcp_flags = {"ACK"}, !.rcv_nxt = Plus(s.seq, 1)]
  <2>1. InState(k, q, "FIN_WAIT1")
    BY <1>9 DEF handle_tcp_fin_wait1
  <2>2. /\ id # NoConn /\ c \in Connection /\ At(k, key) = "FIN_WAIT1" /\ c.key = key
        /\ id \in ConnIds /\ "FIN_WAIT2" \in States
    BY <1>1, <1>3, <2>1, InStateFacts DEF States
  <2>3. c1 \in Connection
    BY <1>2, <2>2 DEF Connection, Flags
  <2>4. CASE Transmit(id, c1, 0, "FIN_WAIT2") /\ table' = DelKey(k, c.key)
    <3> HIDE DEF c1
    <3>1. \A x \in DOMAIN conn : x # id => conn'[x] = conn[x]
      <4>1. PICK d \in Connection : conn' = Store(id, d)
        BY <1>1, <2>2, <2>3, <2>4, TransmitFacts
      <4> QED
        BY <4>1, StoreFacts
    <3>2. Moved(k, key, "NONE")
      BY <1>1, <2>2, <2>4, <3>1, DropMoves
    <3> QED
      BY <1>1, <2>2, <3>2, EdgeTaken
  <2> QED
    BY <1>9, <2>4, NothingMoves DEF handle_tcp_fin_wait1
<1>10. CASE handle_tcp_last_ack(k, q, s)
  <2>1. /\ InState(k, q, "LAST_ACK") /\ conn' = Without(id)
        /\ table' = DelKey(k, c.key)
    BY <1>10 DEF handle_tcp_last_ack, Unfile
  <2>2. id # NoConn /\ At(k, key) = "LAST_ACK" /\ c.key = key
    BY <1>1, <1>3, <2>1, InStateFacts
  <2>3. \A x \in DOMAIN conn : x # id => conn'[x] = conn[x]
    BY <2>1 DEF Without
  <2>4. Moved(k, key, "NONE")
    BY <1>1, <2>1, <2>2, <2>3, DropMoves
  <2> QED
    BY <1>1, <2>2, <2>4, EdgeTaken
<1> QED
  BY <1>4, <1>5, <1>6, <1>7, <1>8, <1>9, <1>10 DEF Receive

LEMMA CommandCycles ==
  ASSUME IInv, NEW q \in Flows, NEW p \in Pads, Command(q, p)
  PROVE  Cycle!Next \/ Status' = Status
<1> DEFINE key == CliKey(q, p)
<1>1. MemoryInv /\ key \in Keys /\ 0 \in Sizes /\ 1 \in Cores
  BY TcpAssumption, WindowSizes DEF IInv, CliKey, Keys, Cores
<1>2. CASE active_connect(q, p)
  <2> DEFINE c == [key |-> key, tcpState |-> "SYN_SENT", una |-> ISS, snd_nxt |-> ISS,
                   irs |-> ISS, rcv_nxt |-> ISS, rcv_wnd |-> LocalWindow,
                   tcp_flags |-> {"SYN"}]
  <2>1. /\ table[1][key] = NoConn
        /\ \E id \in ConnIds \ DOMAIN conn :
             Transmit(id, c, 0, "SYN_SENT") /\ table' = AddKey(1, key, id)
    BY <1>2 DEF active_connect
  <2>2. PICK id \in ConnIds \ DOMAIN conn :
          Transmit(id, c, 0, "SYN_SENT") /\ table' = AddKey(1, key, id)
    BY <2>1
  <2>3. c \in Connection /\ "SYN_SENT" \in States
    BY <1>1, WindowsFit, TcpAssumption DEF Connection, States, Flags, ISS
  <2> HIDE DEF c
  <2>4. PICK d \in Connection : conn' = Store(id, d) /\ d.tcpState = "SYN_SENT"
    BY <1>1, <2>2, <2>3, TransmitFacts
  <2>5. Moved(1, key, "SYN_SENT") \/ Status' = Status
    BY <1>1, <2>1, <2>2, <2>4, CreateMoves
  <2> QED
    BY <1>1, <2>1, <2>5, EdgeTaken DEF At
<1>3. ASSUME NEW k \in Cores, active_close(k, q, p)
      PROVE  Cycle!Next
  <2> DEFINE c1 == [conn[table[k][key]] EXCEPT !.tcp_flags = {"FIN", "ACK"}]
  <2>1. /\ table[k][key] # NoConn /\ table' = table
        /\ Transmit(table[k][key], c1, 0, "FIN_WAIT1")
    BY <1>3 DEF active_close, Closing, FirstWith
  <2>2. c1 \in Connection /\ "FIN_WAIT1" \in States /\ At(k, key) \in Live
    BY <1>1, <2>1, EntryFacts DEF Connection, Flags, States, At
  <2> HIDE DEF c1
  <2> QED
    BY <1>1, <2>1, <2>2, TransmitMoves, EdgeTaken
<1>4. ASSUME NEW k \in Cores, NEW size \in SendLens, active_send_data(k, q, p, size)
      PROVE  Status' = Status
  <2> DEFINE c1 == [conn[table[k][key]] EXCEPT !.tcp_flags = {"ACK", "PSH"}]
  <2>1. /\ table[k][key] # NoConn /\ table' = table
        /\ Transmit(table[k][key], c1, size, conn[table[k][key]].tcpState)
    BY <1>4 DEF active_send_data, FirstWith
  <2>2. /\ c1 \in Connection /\ size \in Sizes
        /\ conn[table[k][key]].tcpState \in States
        /\ At(k, key) = conn[table[k][key]].tcpState
    BY WindowSizes, <1>1, <2>1, EntryFacts, TcpAssumption DEF Connection, Flags, At
  <2> HIDE DEF c1
  <2> QED
    BY <1>1, <2>1, <2>2, TransmitMoves, StaysPut
<1> QED
  BY <1>2, <1>3, <1>4 DEF Command

\* The detailed endpoint implements the life cycle: every step of every core and
\* command moves at most one slot, along one of its edges.
THEOREM RefinementCorrect == Spec => RefinesLifecycle
<1>1. Init => Cycle!Init
  <2> SUFFICES ASSUME Init PROVE Status = [x \in Cores \X Keys |-> "NONE"]
    BY DEF Cycle!Init
  <2>1. \A k \in Cores, key \in Keys : At(k, key) = "NONE"
    BY DEF Init, At
  <2> QED
    BY <2>1, StatusOf
<1>2. IInv /\ [Next]_vars => [Cycle!Next]_Status
  <2> SUFFICES ASSUME IInv, [Next]_vars PROVE Cycle!Next \/ Status' = Status
    OBVIOUS
  <2>1. CASE UNCHANGED vars
    BY <2>1, NothingMoves DEF vars
  <2>2. CASE Next
    BY <2>2, ReceiveCycles, CommandCycles DEF Next
  <2> QED
    BY <2>1, <2>2
<1> QED
  BY <1>1, <1>2, Invariance, PTL DEF Spec, RefinesLifecycle, Cycle!Spec

=============================================================================
