-------------------------------- MODULE Tcp --------------------------------
(***************************************************************************)
(* The TCP endpoint of src/src/tcp: the connection table of every core,    *)
(* the connection structures it points to, the segment handlers that       *)
(* tcp_rx_packets dispatches to, and the calls of the command line that    *)
(* work on the same connections.                                           *)
(*                                                                         *)
(* A handler runs to completion on the core that polled the segment, so    *)
(* each handler is one action; a command is one action too.  What the two  *)
(* threads can do to each other inside a handler is not in this module.    *)
(*                                                                         *)
(* Everything a step hands to the outside is in tx (the segment passed to  *)
(* send_p) and printed (the data passed to print_data); both hold the      *)
(* output of the last step only.                                           *)
(***************************************************************************)
EXTENDS SeqSpace, FiniteSets

CONSTANTS NumCores,     \* slave lcores: c->tcp_list has one element for each
          Flows,        \* values of the address fields of a struct quad
          Pads,         \* values of its padding bytes (see Keys)
          Steer,        \* the queue, hence the core, RSS picks for a flow
          HashEntries,  \* hash_params.entries
          ConnIds,      \* addresses of struct connection rte_malloc hands out
          NoConn,       \* "not in the table" (-ENOENT)
          LocalWindow,  \* wnd = 64240
          Segments,     \* the segments the network may bring
          SendLens      \* the data lengths a user sends: those the payload field holds

Cores == 1 .. NumCores
Flags == {"SYN", "ACK", "FIN", "PSH", "RST"}

\* size, the int the dispatcher computes: the 16 bits of total_length less both
\* headers.  Nothing compares the two, so a segment whose headers are longer than
\* its total_length has a negative size.
Sizes == -MaxWindow .. MaxWindow

Segment == [flags : SUBSET Flags, seq : SeqNum, ack : SeqNum, wnd : Windows, len : Sizes]

ASSUME TcpAssumption ==
  /\ NumCores \in Nat \ {0}
  /\ Steer \in [Flows -> Cores]
  /\ HashEntries \in Nat
  /\ NoConn \notin ConnIds
  /\ LocalWindow \in Windows \ {0}
  /\ Segments \subseteq Segment
  /\ SendLens \subseteq Windows \ {0}

\* The key of a connection is the 16 bytes of a struct quad: the four address
\* fields, and four bytes of padding that nothing initialises.
Keys == [flow : Flows, pad : Pads]

ISS == 0     \* iss = 0 in handle_tcp_listen and active_connect

\* enum TCP_STATE without the values no assignment uses.
States == {"SYN_SENT", "SYN_RECV", "ESTABLISHED", "FIN_WAIT1", "FIN_WAIT2",
           "CLOSE_WAIT", "LAST_ACK", "CLOSE"}

\* The fields of struct connection that some handler reads.
Connection == [key       : Keys,
               tcpState  : States,
               una       : SeqNum,         \* sendSequenceSpace
               snd_nxt   : SeqNum,
               irs       : SeqNum,         \* receiveSequenceSpace
               rcv_nxt   : SeqNum,
               rcv_wnd   : Windows,
               tcp_flags : SUBSET Flags]   \* of the header template rteTcpHdr

\* What tcp_tx_packets hands to send_p; by names the connection it is sent from.
\* With a negative len send_p copies nearly 2^64 bytes and the process dies,
\* unless no mbuf was left and nothing was copied: what follows is that case.
Output == [by : ConnIds, flow : Flows, flags : SUBSET Flags,
           seq : SeqNum, ack : SeqNum, len : Sizes]
Delivery == [by : ConnIds, seq : SeqNum, len : Windows]   \* a print_data call

VARIABLES table,    \* _tcp->rteHash of each core
          conn,     \* the allocated struct connection, by address
          rxPad,    \* the padding bytes of q in each core's tcp_rx_packets
          tx,
          printed

vars == <<table, conn, rxPad, tx, printed>>

TypeOK ==
  /\ table \in [Cores -> [Keys -> ConnIds \cup {NoConn}]]
  /\ DOMAIN conn \subseteq ConnIds
  /\ conn \in [DOMAIN conn -> Connection]
  /\ rxPad \in [Cores -> Pads]
  /\ tx \subseteq Output
  /\ printed \subseteq Delivery

\* The tables are empty and nothing is allocated.  tcp_rx_packets never writes
\* the padding of its q, so each core keeps the bytes it found on its stack.
Init ==
  /\ table = [k \in Cores |-> [key \in Keys |-> NoConn]]
  /\ conn = [id \in {} |-> NoConn]
  /\ rxPad \in [Cores -> Pads]
  /\ tx = {}
  /\ printed = {}

-----------------------------------------------------------------------------
(* Memory and table *)

Allocated(id) == id \in DOMAIN conn

\* *id = c, where id may have just been allocated.
Store(id, c) == [x \in DOMAIN conn \cup {id} |-> IF x = id THEN c ELSE conn[x]]

\* rte_free(id)
Without(id) == [x \in DOMAIN conn \ {id} |-> conn[x]]

Load(k) == Cardinality({key \in Keys : table[k][key] # NoConn})

\* Mutant: the last place of the table is never used.
AddKey_oneLess(k, key, id) ==
  IF table[k][key] # NoConn \/ Load(k) + 1 < HashEntries
  THEN [table EXCEPT ![k][key] = id]
  ELSE table

\* rte_hash_add_key_data(k's table, key, id); its -ENOSPC is not looked at.
AddKey(k, key, id) ==
  IF table[k][key] # NoConn \/ Load(k) < HashEntries
  THEN [table EXCEPT ![k][key] = id]
  ELSE table

\* rte_hash_del_key(k's table, key)
DelKey(k, key) == [table EXCEPT ![k][key] = NoConn]

-----------------------------------------------------------------------------
(* Sending: tcp_tx_packets *)

\* The segment built from the connection's sequence spaces and header template.
Outgoing(id, c, len) ==
  [by |-> id, flow |-> c.key.flow, flags |-> c.tcp_flags,
   seq |-> c.snd_nxt, ack |-> c.rcv_nxt, len |-> len]

Taken(c) == (IF "SYN" \in c.tcp_flags THEN 1 ELSE 0)
            + (IF "FIN" \in c.tcp_flags THEN 1 ELSE 0)

\* Mutant: the sum is not reduced to 32 bits.
AfterTx_wide(c) == [c EXCEPT !.snd_nxt = @ + Taken(c), !.tcp_flags = @ \ {"SYN", "FIN"}]

\* SYN and FIN each take one sequence number, and are cleared from the template.
\* Data takes none: snd_nxt moves over data when its acknowledgement arrives.
AfterTx(c) ==
  [c EXCEPT !.snd_nxt = Plus(@, Taken(c)), !.tcp_flags = @ \ {"SYN", "FIN"}]

\* tcp_tx_packets on connection id with contents c, then state `final`.
Transmit(id, c, len, final) ==
  /\ tx' = {Outgoing(id, c, len)}
  /\ conn' = Store(id, [AfterTx(c) EXCEPT !.tcpState = final])

\* The handler returns without sending.
Silent == tx' = {}

-----------------------------------------------------------------------------
(* Receiving: tcp_rx_packets and the handlers it dispatches to.  Each action *)
(* is one segment s of flow q on core k.                                     *)

\* Mutant: any queue may be handed any flow.
Receives_anyQueue(k, q) == TRUE

\* RSS puts every segment of a flow on the same queue.
Receives(k, q) == Steer[q] = k

RxKey(k, q) == [flow |-> q, pad |-> rxPad[k]]
Found(k, q) == table[k][RxKey(k, q)]

\* The table has an entry for the segment and its connection is in state st.
InState(k, q, st) == /\ Receives(k, q)
                     /\ Found(k, q) # NoConn
                     /\ conn[Found(k, q)].tcpState = st

\* Mutant: every segment has to lie in the window, whose left edge is left out.
Acceptable_pastEdge(c, s) ==
  is_between_wrapped(c.rcv_nxt, s.seq, Plus(c.rcv_nxt, c.rcv_wnd))

\* segment_check and the acknowledgement check with the connection's fields.
Acceptable(c, s) == segment_check(c.rcv_nxt, c.rcv_wnd, s.len, s.seq)
AckInRange(c, s) ==
  is_between_wrapped(Minus(c.una, 1), s.ack, Plus(c.snd_nxt, 1))

\* No entry, and anything but a bare SYN: handle_tcp_listen returns NULL.
IgnoreUnknown(k, q, s) ==
  /\ Receives(k, q)
  /\ Found(k, q) = NoConn
  /\ s.flags # {"SYN"}
  /\ Silent /\ printed' = {}
  /\ UNCHANGED <<table, conn, rxPad>>

\* Mutant: the edge is left at the peer's SYN.
handle_tcp_listen_atSyn(k, q, s) ==
  /\ Receives(k, q)
  /\ Found(k, q) = NoConn
  /\ s.flags = {"SYN"}
  /\ \E id \in ConnIds \ DOMAIN conn :
       /\ Transmit(id, [key |-> RxKey(k, q), tcpState |-> "SYN_RECV",
                        una |-> ISS, snd_nxt |-> ISS,
                        irs |-> s.seq, rcv_nxt |-> s.seq, rcv_wnd |-> s.wnd,
                        tcp_flags |-> {"SYN", "ACK"}], s.len, "SYN_RECV")
       /\ table' = AddKey(k, RxKey(k, q), id)
  /\ printed' = {}
  /\ UNCHANGED rxPad

handle_tcp_listen(k, q, s) ==
  /\ Receives(k, q)
  /\ Found(k, q) = NoConn
  /\ s.flags = {"SYN"}
  /\ \E id \in ConnIds \ DOMAIN conn :
       /\ Transmit(id, [key |-> RxKey(k, q), tcpState |-> "SYN_RECV",
                        una |-> ISS, snd_nxt |-> ISS,
                        irs |-> s.seq, rcv_nxt |-> Plus(s.seq, 1), rcv_wnd |-> s.wnd,
                        tcp_flags |-> {"SYN", "ACK"}], s.len, "SYN_RECV")
       /\ table' = AddKey(k, RxKey(k, q), id)
  /\ printed' = {}
  /\ UNCHANGED rxPad

\* Mutant: the retransmission forgets to step snd_nxt back.
Rewound_kept(c) == [c EXCEPT !.tcp_flags = @ \cup {"SYN"}]

\* Mutant: the retransmission goes out without its SYN.
Rewound_noSyn(c) == [c EXCEPT !.snd_nxt = Minus(@, 1)]

\* The SYN is put back into the template, at the number it was sent with.
Rewound(c) == [c EXCEPT !.snd_nxt = Minus(@, 1), !.tcp_flags = @ \cup {"SYN"}]

\* Mutant: data that comes with the last step of the handshake is taken as read.
Opened_taking(c, s) == [c EXCEPT !.tcpState = "ESTABLISHED", !.rcv_nxt = Plus(s.seq, s.len)]

\* Nothing but the state changes: data in the segment is neither printed nor
\* acknowledged, and una stays ISS.
Opened(c, s) == [c EXCEPT !.tcpState = "ESTABLISHED"]

handle_tcp_syn_recv(k, q, s) ==
  /\ InState(k, q, "SYN_RECV")
  /\ LET id == Found(k, q)
         c  == conn[id]
     IN  \/ /\ ~Acceptable(c, s)
            /\ "SYN" \in s.flags
            /\ Transmit(id, Rewound(c), s.len, "SYN_RECV")
         \/ /\ ~Acceptable(c, s)
            /\ "SYN" \notin s.flags
            /\ Silent /\ UNCHANGED conn
         \/ /\ Acceptable(c, s)
            /\ AckInRange(c, s)
            /\ Silent /\ conn' = Store(id, Opened(c, s))
         \/ /\ Acceptable(c, s)
            /\ ~AckInRange(c, s)
            /\ Silent /\ UNCHANGED conn
  /\ printed' = {}
  /\ UNCHANGED <<table, rxPad>>

\* The check with rcv_nxt = seq always passes (SynSentCheckPasses in SeqSpaceLemmas),
\* so the early return after it is never taken.
handle_tcp_syn_sent(k, q, s) ==
  /\ InState(k, q, "SYN_SENT")
  /\ LET id == Found(k, q)
         c  == conn[id]
         c1 == [c EXCEPT !.tcp_flags = {"ACK"}, !.rcv_nxt = Plus(s.seq, 1)]
     IN  /\ segment_check(s.seq, c.rcv_wnd, 0, s.seq)
         /\ \/ /\ AckInRange(c, s)
               /\ Transmit(id, [c1 EXCEPT !.una = Plus(s.ack, 1)], s.len, "ESTABLISHED")
            \/ /\ ~AckInRange(c, s)
               /\ Transmit(id, c1, s.len, "SYN_SENT")
  /\ printed' = {}
  /\ UNCHANGED <<table, rxPad>>

\* Mutant: the last assignment to tcpState is missing.
AfterPeerFin_closeWait == "CLOSE_WAIT"

\* TCP_CLOSE_WAIT is assigned first and overwritten once the FIN is sent.
AfterPeerFin == "LAST_ACK"

\* seq + size, in 32 bits: in front of seq when the size is negative.
DataEnd(s) == IF s.len < 0 THEN Minus(s.seq, -s.len) ELSE Plus(s.seq, s.len)

\* Mutant: the acknowledgement is built before the receive edge is moved.
DataReceived_late(c, s) == [c EXCEPT !.tcp_flags = {"ACK"}, !.snd_nxt = s.ack]

\* Mutant: the new edge is not reduced to 32 bits.
DataReceived_wide(c, s) == [c EXCEPT !.tcp_flags = {"ACK"}, !.snd_nxt = s.ack,
                                     !.rcv_nxt = s.seq + s.len]
\* Mutant: the edge moves one number too far.
DataReceived_past(c, s) == [c EXCEPT !.tcp_flags = {"ACK"}, !.snd_nxt = s.ack,
                                     !.rcv_nxt = Plus(DataEnd(s), 1)]

\* The new edges after a segment with data.
DataReceived(c, s) == [c EXCEPT !.tcp_flags = {"ACK"}, !.snd_nxt = s.ack,
                                !.rcv_nxt = DataEnd(s)]

\* print_data, which prints nothing of a negative size.
Shown(id, s) == IF s.len > 0 THEN {[by |-> id, seq |-> s.seq, len |-> s.len]} ELSE {}

handle_tcp_establish(k, q, s) ==
  /\ InState(k, q, "ESTABLISHED")
  /\ LET id == Found(k, q)
         c  == conn[id]
     IN  \/ /\ ~Acceptable(c, s)
            /\ Silent /\ UNCHANGED conn /\ printed' = {}
         \/ /\ Acceptable(c, s)
            /\ "FIN" \in s.flags
            /\ Transmit(id, [c EXCEPT !.tcp_flags = {"FIN", "ACK"},
                                      !.rcv_nxt = Plus(s.seq, 1)], s.len, AfterPeerFin)
            /\ printed' = {}
         \/ /\ Acceptable(c, s)
            /\ "FIN" \notin s.flags
            /\ s.len = 0
            /\ Silent /\ conn' = Store(id, [c EXCEPT !.snd_nxt = s.ack])
            /\ printed' = {}
         \/ /\ Acceptable(c, s)
            /\ "FIN" \notin s.flags
            /\ s.len # 0
            /\ Transmit(id, DataReceived(c, s), 0, "ESTABLISHED")
            /\ printed' = Shown(id, s)
  /\ UNCHANGED <<table, rxPad>>

\* The entry is deleted but the structure is not freed.
handle_tcp_fin_wait1(k, q, s) ==
  /\ InState(k, q, "FIN_WAIT1")
  /\ LET id == Found(k, q)
         c  == conn[id]
     IN  \/ /\ Acceptable(c, s)
            /\ AckInRange(c, s)
            /\ Transmit(id, [c EXCEPT !.tcp_flags = {"ACK"}, !.rcv_nxt = Plus(s.seq, 1)],
                        0, "FIN_WAIT2")
            /\ table' = DelKey(k, c.key)
         \/ /\ ~(Acceptable(c, s) /\ AckInRange(c, s))
            /\ Silent /\ UNCHANGED <<conn, table>>
  /\ printed' = {}
  /\ UNCHANGED rxPad

\* Mutant: the handler frees the structure and leaves the table alone.
Unfile_nothing(k, key) == table

\* Both deletions of a closing connection, the handler's and the dispatcher's.
Unfile(k, key) == DelKey(k, key)

\* Any segment at all ends a connection in LAST_ACK.
handle_tcp_last_ack(k, q, s) ==
  /\ InState(k, q, "LAST_ACK")
  /\ LET id == Found(k, q)
     IN  /\ table' = Unfile(k, conn[id].key)
         /\ conn' = Without(id)
  /\ Silent /\ printed' = {}
  /\ UNCHANGED rxPad

Receive(k, q, s) ==
  \/ IgnoreUnknown(k, q, s)
  \/ handle_tcp_listen(k, q, s)
  \/ handle_tcp_syn_recv(k, q, s)
  \/ handle_tcp_syn_sent(k, q, s)
  \/ handle_tcp_establish(k, q, s)
  \/ handle_tcp_fin_wait1(k, q, s)
  \/ handle_tcp_last_ack(k, q, s)

-----------------------------------------------------------------------------
(* Commands of the control panel, which run on the master core.  The padding *)
(* of a command's q is whatever its stack slot held.                         *)

CliKey(q, p) == [flow |-> q, pad |-> p]

\* "connect": always on c->tcp_list[0].  The SYN is sent before the entry is made.
active_connect(q, p) ==
  /\ table[1][CliKey(q, p)] = NoConn
  /\ \E id \in ConnIds \ DOMAIN conn :
       /\ Transmit(id, [key |-> CliKey(q, p), tcpState |-> "SYN_SENT",
                        una |-> ISS, snd_nxt |-> ISS,
                        irs |-> ISS, rcv_nxt |-> ISS, rcv_wnd |-> LocalWindow,
                        tcp_flags |-> {"SYN"}], 0, "SYN_SENT")
       /\ table' = AddKey(1, CliKey(q, p), id)
  /\ printed' = {}
  /\ UNCHANGED rxPad

\* "close" and "send" try the cores in order and use the first that has the key.
FirstWith(k, key) == /\ table[k][key] # NoConn
                     /\ \A j \in 1 .. (k - 1) : table[j][key] = NoConn

\* Mutant: the FIN goes out without an acknowledgement.
Closing_bareFin(c) == [c EXCEPT !.tcp_flags = {"FIN"}]

\* active_close's flags; the state is set after they are sent.
Closing(c) == [c EXCEPT !.tcp_flags = {"FIN", "ACK"}]

\* Mutant: "close" drops the table's entry at once.
active_close_unfiles(k, q, p) ==
  /\ FirstWith(k, CliKey(q, p))
  /\ LET id == table[k][CliKey(q, p)]
     IN  Transmit(id, Closing(conn[id]), 0, "FIN_WAIT1")
  /\ table' = DelKey(k, CliKey(q, p))
  /\ printed' = {}
  /\ UNCHANGED rxPad

\* "close": there is no test of the connection's state.
active_close(k, q, p) ==
  /\ FirstWith(k, CliKey(q, p))
  /\ LET id == table[k][CliKey(q, p)]
     IN  Transmit(id, Closing(conn[id]), 0, "FIN_WAIT1")
  /\ printed' = {}
  /\ UNCHANGED <<table, rxPad>>

\* "send".  The copy to the connection's payload, which nothing reads, is left out:
\* the field is the last of the structure and holds 100 bytes, the loop writes
\* `size` of them, and what a longer send does to the memory behind the structure
\* is not in this module (SendLens).
active_send_data(k, q, p, size) ==
  /\ FirstWith(k, CliKey(q, p))
  /\ LET id == table[k][CliKey(q, p)]
         c  == conn[id]
     IN  Transmit(id, [c EXCEPT !.tcp_flags = {"ACK", "PSH"}], size, c.tcpState)
  /\ printed' = {}
  /\ UNCHANGED <<table, rxPad>>

Command(q, p) ==
  \/ active_connect(q, p)
  \/ \E k \in Cores : \/ active_close(k, q, p)
                     \/ \E size \in SendLens : active_send_data(k, q, p, size)

-----------------------------------------------------------------------------
Next ==
  \/ \E k \in Cores, q \in Flows, s \in Segments : Receive(k, q, s)
  \/ \E q \in Flows, p \in Pads : Command(q, p)

Spec == Init /\ [][Next]_vars

-----------------------------------------------------------------------------
(* Properties *)

Filed(id) == \E k \in Cores, key \in Keys : table[k][key] = id

\* Table and memory agree: an entry points to an allocated connection, filed
\* under the key it carries, and no connection is filed twice.  This is what the
\* order "delete the entry, then rte_free" of the LAST_ACK case has to keep, and
\* what makes handle_tcp_fin_wait1's deletion by &_connection->q hit its entry.
TableSound ==
  \A k \in Cores, key \in Keys : table[k][key] # NoConn =>
    /\ Allocated(table[k][key])
    /\ conn[table[k][key]].key = key
    /\ \A j \in Cores : table[j][key] = table[k][key] => j = k

\* Between two segments a filed connection is in one of five states: the
\* FIN_WAIT2 and default cases of the dispatcher are never reached, so
\* handle_tcp_fin_wait2 never runs and a filed connection never goes deaf.
DispatchedStates ==
  \A id \in DOMAIN conn : Filed(id) =>
    conn[id].tcpState \in {"SYN_SENT", "SYN_RECV", "ESTABLISHED", "FIN_WAIT1", "LAST_ACK"}

\* A connection that got past the handshake stays findable until it is over:
\* what is allocated but not filed is a handshake the full table refused or a
\* finished active close.
OnlyDeadOrphans ==
  \A id \in DOMAIN conn : ~Filed(id) =>
    conn[id].tcpState \in {"SYN_SENT", "SYN_RECV", "FIN_WAIT2"}

\* However many segments are retransmitted or refused during a handshake, its
\* SYN takes one sequence number, and (passive open) the edge stays behind the
\* peer's SYN.  tcp_tx_packets steps snd_nxt and handle_tcp_syn_recv steps it
\* back; the template's flags have to be right at every send in between.
HandshakeEdges ==
  \A id \in DOMAIN conn :
    /\ conn[id].tcpState \in {"SYN_SENT", "SYN_RECV"} =>
         conn[id].una = ISS /\ conn[id].snd_nxt = Plus(ISS, 1)
    /\ conn[id].tcpState = "SYN_RECV" => conn[id].rcv_nxt = Plus(conn[id].irs, 1)

\* Every SYN the host sends, first or repeated, is the SYN of a handshake in
\* progress: numbered ISS, and as a SYN,ACK it acknowledges the peer's SYN.
SynOnlyInHandshake ==
  \A s \in tx : "SYN" \in s.flags =>
    /\ s.seq = ISS
    /\ \/ conn[s.by].tcpState = "SYN_SENT" /\ "ACK" \notin s.flags
       \/ /\ conn[s.by].tcpState = "SYN_RECV"
          /\ "ACK" \in s.flags
          /\ s.ack = Plus(conn[s.by].irs, 1)

\* An entry that the receiving core cannot look up, because RSS steers the flow
\* to another queue or because the command that made it had other padding
\* bytes, never completes a handshake: it was made by "connect" and stays in
\* SYN_SENT until the user closes it.
DeafNeverEstablished ==
  \A k \in Cores, key \in Keys :
    /\ table[k][key] # NoConn
    /\ Steer[key.flow] # k \/ key.pad # rxPad[k]
    => conn[table[k][key]].tcpState \in {"SYN_SENT", "FIN_WAIT1"}

\* A step that moves a connection's receive edge sends a segment that
\* acknowledges the new edge, and printed data is acknowledged up to its end by
\* the same step.
EdgeIsAcked ==
  [][/\ \A id \in DOMAIN conn \cap DOMAIN conn' :
          conn'[id].rcv_nxt # conn[id].rcv_nxt =>
            \E s \in tx' : s.by = id /\ s.ack = conn'[id].rcv_nxt
     /\ \A p \in printed' :
          \E s \in tx' : s.by = p.by /\ s.ack = Plus(p.seq, p.len)]_vars

\* The life cycle every slot of every table goes through (module Lifecycle).
Status == [x \in Cores \X Keys |->
             IF table[x[1]][x[2]] = NoConn THEN "NONE"
             ELSE conn[table[x[1]][x[2]]].tcpState]

Cycle == INSTANCE Lifecycle WITH Slots <- Cores \X Keys, status <- Status

\* Every step changes at most one slot, along one edge of the life cycle.
RefinesLifecycle == Cycle!Spec

-----------------------------------------------------------------------------
(* What the comments of the source say and the code does not do.  Each of    *)
(* these is the subject of a run that finds it violated.                     *)

\* "altrady has that connection" (tcp.c:280), with a key of "12 byte" (tcp.h:91):
\* a table has one entry at most for the addresses of a connection.
OneEntryPerFlow ==
  \A k \in Cores, key1, key2 \in Keys :
    /\ key1.flow = key2.flow
    /\ table[k][key1] # NoConn
    /\ table[k][key2] # NoConn
    => key1 = key2

\* "if it is FIN ACK, close directly" (tcp_fin_wait1.c:24): the user's close ends
\* on the peer's FIN.
ClosedByFin ==
  [][\A k \in Cores, q \in Flows, s \in Segments :
       /\ handle_tcp_fin_wait1(k, q, s)
       /\ table' # table
       => "FIN" \in s.flags]_vars

=============================================================================
