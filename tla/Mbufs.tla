------------------------------- MODULE Mbufs -------------------------------
(***************************************************************************)
(* The packet buffers: one pool feeds the receive rings of the slaves, the *)
(* bursts the receive loops work through, and send_p, which every slave    *)
(* and the command line call, all on transmit queue 0.                     *)
(*                                                                         *)
(* The driver, the pool and the wire are external: they do what their      *)
(* callers in nic.c, tcp.c and config.c rely on.  A buffer may come to be  *)
(* in several places at once, so the pool is a bag and the rings and       *)
(* bursts are sequences.                                                   *)
(***************************************************************************)
EXTENDS Naturals, Sequences, FiniteSets, Functions

CONSTANTS Bufs,       \* the buffers of MBUF_POOL
          Slaves,     \* the lcores that run tcp_rx_packets
          Master,     \* the lcore of the command line
          RxSize,     \* descriptors of a receive ring
          TxSize,     \* descriptors of transmit queue 0
          MaxBurst,   \* frames one rte_eth_rx_burst returns
          Room,       \* entries the ring behind the pool has room for
          MaxCommands, \* bound: commands that send
          Nothing     \* no buffer, no frame

Senders == Slaves \cup {Master}

ASSUME MbufsAssumption ==
  /\ IsFiniteSet(Bufs) /\ IsFiniteSet(Slaves) /\ Master \notin Slaves
  /\ RxSize \in Nat \ {0} /\ TxSize \in Nat \ {0} /\ MaxBurst \in Nat \ {0}
  /\ Room \in Nat /\ MaxCommands \in Nat
  /\ Cardinality(Bufs) <= Room
  /\ Cardinality(Bufs) > RxSize * Cardinality(Slaves)
  /\ Nothing \notin Bufs

\* A frame that arrives: for this host, or for another MAC or IP address.
Arrivals == {"ours", "foreign"}

\* What a buffer holds: a frame that arrived, or the last one a sender built in it.
Texts == Arrivals \cup Senders \cup {Nothing}

VARIABLES
  pool,     \* how many entries of the pool lead to each buffer
  text,     \* the contents of each buffer
  armed,    \* each receive ring: buffers that wait for a frame
  filled,   \* and those with a frame nobody took yet
  hand,     \* bufs[] of each receive loop, from the frame it is at
  at,       \* each receive loop: in rte_eth_rx_burst, or at work on bufs[]
  replied,  \* whether a handler sent a segment about the frame it is at
  commands, \* commands that were typed
  out,      \* each sender's call of send_p
  tx,       \* transmit ring: frames to be sent
  done,     \* and buffers of frames that were sent, which the driver still holds
  lost      \* buffers whose frame was left by a continue, or put into a full pool

vars == <<pool, text, armed, filled, hand, at, replied, commands, out, tx, done, lost>>

ringVars == <<armed, filled>>
loopVars == <<hand, at, replied>>
senders  == <<commands, out>>
sendVars == <<tx, done>>

\* Places of send_p: before the allocation, the copies, rte_eth_tx_burst, and
\* rte_mbuf_raw_free.
OutPlaces == {"idle", "alloc", "copy", "burst", "free"}
Out == [at : OutPlaces, buf : Bufs \cup {Nothing}]
NoSend == [at |-> "idle", buf |-> Nothing]

MbufsTypeOK ==
  /\ pool \in [Bufs -> Nat]
  /\ text \in [Bufs -> Texts]
  /\ armed \in [Slaves -> Seq(Bufs)] /\ filled \in [Slaves -> Seq(Bufs)]
  /\ \A k \in Slaves : Len(armed[k]) + Len(filled[k]) = RxSize
  /\ hand \in [Slaves -> Seq(Bufs)]
  /\ \A k \in Slaves : Len(hand[k]) <= MaxBurst
  /\ at \in [Slaves -> {"burst", "work"}]
  /\ replied \in [Slaves -> BOOLEAN]
  /\ commands \in 0 .. MaxCommands
  /\ out \in [Senders -> Out]
  /\ tx \in Seq([buf : Bufs, meant : Senders]) /\ done \in Seq(Bufs)
  /\ Len(tx) + Len(done) <= TxSize
  /\ lost \subseteq Bufs

\* rte_eth_rx_queue_setup has armed the rings; the rest is in the pool.
Init ==
  /\ \E f \in Injection(Slaves \X (1 .. RxSize), Bufs) :
       /\ armed = [k \in Slaves |-> [i \in 1 .. RxSize |-> f[<<k, i>>]]]
       /\ pool = [b \in Bufs |-> IF b \in Range(f) THEN 0 ELSE 1]
  /\ text = [b \in Bufs |-> Nothing]
  /\ filled = [k \in Slaves |-> <<>>]
  /\ hand = [k \in Slaves |-> <<>>]
  /\ at = [k \in Slaves |-> "burst"]
  /\ replied = [k \in Slaves |-> FALSE]
  /\ commands = 0
  /\ out = [t \in Senders |-> NoSend]
  /\ tx = <<>> /\ done = <<>>
  /\ lost = {}

-----------------------------------------------------------------------------
(* The pool *)

InPool(b) == pool[b] > 0
PoolEmpty == \A b \in Bufs : ~InPool(b)
Entries   == FoldFunction(+, 0, pool)

Get(b) == InPool(b) /\ pool' = [pool EXCEPT ![b] = @ - 1]

\* The put of a buffer that finds the ring full has no effect, and nobody is told.
Put(b) ==
  IF Entries < Room
  THEN pool' = [pool EXCEPT ![b] = @ + 1] /\ UNCHANGED lost
  ELSE lost' = lost \cup {b} /\ UNCHANGED pool

-----------------------------------------------------------------------------
(* The receive side *)

\* The port is promiscuous.  A frame that finds no buffer armed is lost.
FrameArrives(k) ==
  /\ armed[k] # <<>>
  /\ LET b == Head(armed[k])
     IN  /\ \E f \in Arrivals : text' = [text EXCEPT ![b] = f]
         /\ armed' = [armed EXCEPT ![k] = Tail(@)]
         /\ filled' = [filled EXCEPT ![k] = Append(@, b)]
  /\ UNCHANGED <<pool, loopVars, senders, sendVars, lost>>

\* rte_eth_rx_burst hands a frame over when it has a buffer to put in its place.
TakeFrame(k) ==
  /\ at[k] = "burst" /\ filled[k] # <<>> /\ Len(hand[k]) < MaxBurst
  /\ \E b \in Bufs : Get(b) /\ armed' = [armed EXCEPT ![k] = Append(@, b)]
  /\ filled' = [filled EXCEPT ![k] = Tail(@)]
  /\ hand' = [hand EXCEPT ![k] = Append(@, Head(filled[k]))]
  /\ UNCHANGED <<text, at, replied, senders, sendVars, lost>>

\* It returns; with nb_rx == 0 it is called again.
BurstEnds(k) ==
  /\ at[k] = "burst" /\ hand[k] # <<>>
  /\ filled[k] = <<>> \/ PoolEmpty \/ Len(hand[k]) = MaxBurst
  /\ at' = [at EXCEPT ![k] = "work"]
  /\ UNCHANGED <<pool, text, ringVars, hand, replied, senders, sendVars, lost>>

\* The frame the loop body is at; and the end of its work on it.
Current(k) == Head(hand[k])
AtFrame(k) == at[k] = "work" /\ out[k].at = "idle"
NextFrame(k) ==
  /\ hand' = [hand EXCEPT ![k] = Tail(@)]
  /\ at' = [at EXCEPT ![k] = IF Len(hand[k]) = 1 THEN "burst" ELSE "work"]
  /\ replied' = [replied EXCEPT ![k] = FALSE]

\* The MAC or the IP address is another one's, as it is of a frame this host sends:
\* continue.
ForThisHost(b) == text[b] = "ours"

Skip(k) ==
  /\ AtFrame(k) /\ ~replied[k]
  /\ ~ForThisHost(Current(k))
  /\ lost' = lost \cup {Current(k)}
  /\ NextFrame(k)
  /\ UNCHANGED <<pool, text, ringVars, senders, sendVars>>

\* A handler sends a segment; none sends two.
Reply(k) ==
  /\ AtFrame(k) /\ ~replied[k]
  /\ ForThisHost(Current(k))
  /\ replied' = [replied EXCEPT ![k] = TRUE]
  /\ out' = [out EXCEPT ![k].at = "alloc"]
  /\ UNCHANGED <<commands, pool, text, ringVars, hand, at, sendVars, lost>>

\* Mutant: a frame that was answered is not freed.
FreeFrame_answered(k) ==
  /\ AtFrame(k) /\ (replied[k] \/ ForThisHost(Current(k)))
  /\ IF ~replied[k] THEN Put(Current(k)) ELSE UNCHANGED <<pool, lost>>
  /\ NextFrame(k)
  /\ UNCHANGED <<text, ringVars, senders, sendVars>>

\* rte_pktmbuf_free(bufs[i]) at the end of the loop body.
FreeFrame(k) ==
  /\ AtFrame(k) /\ (replied[k] \/ ForThisHost(Current(k)))
  /\ Put(Current(k))
  /\ NextFrame(k)
  /\ UNCHANGED <<text, ringVars, senders, sendVars>>

-----------------------------------------------------------------------------
(* send_p *)

\* A command that sends: connect, close or send.
Command ==
  /\ out[Master].at = "idle" /\ commands < MaxCommands
  /\ commands' = commands + 1
  /\ out' = [out EXCEPT ![Master].at = "alloc"]
  /\ UNCHANGED <<pool, text, ringVars, loopVars, sendVars, lost>>

\* Mutant: without a buffer send_p tries again.
Alloc_waits(t) ==
  /\ out[t].at = "alloc"
  /\ \E b \in Bufs : Get(b) /\ out' = [out EXCEPT ![t] = [at |-> "copy", buf |-> b]]
  /\ UNCHANGED <<commands, text, ringVars, loopVars, sendVars, lost>>

\* rte_mbuf_raw_alloc; without a buffer send_p returns, and its caller goes on as
\* if the segment had been sent.
Alloc(t) ==
  /\ out[t].at = "alloc"
  /\ \/ \E b \in Bufs : Get(b) /\ out' = [out EXCEPT ![t] = [at |-> "copy", buf |-> b]]
     \/ PoolEmpty /\ out' = [out EXCEPT ![t] = NoSend] /\ UNCHANGED pool
  /\ UNCHANGED <<commands, text, ringVars, loopVars, sendVars, lost>>

Copy(t) ==
  /\ out[t].at = "copy"
  /\ text' = [text EXCEPT ![out[t].buf] = t]
  /\ out' = [out EXCEPT ![t].at = "burst"]
  /\ UNCHANGED <<commands, pool, ringVars, loopVars, sendVars, lost>>

\* rte_eth_tx_burst gives the buffers of frames that were sent back to the pool,
\* at the latest when the ring is full.
Reclaim ==
  /\ done # <<>>
  /\ \E t \in Senders : out[t].at = "burst"
  /\ Put(Head(done))
  /\ done' = Tail(done)
  /\ UNCHANGED <<text, ringVars, loopVars, senders, tx>>

\* Mutant: one descriptor too many.
Full_late == Len(tx) + Len(done) > TxSize

Full == Len(tx) + Len(done) >= TxSize

\* It takes the frame, or refuses it when the ring is full.  Nothing keeps two
\* senders from being in it at once, and then a frame may be lost.
Overlap(t) == \E s \in Senders \ {t} : out[s].at = "burst"

Burst(t) ==
  /\ out[t].at = "burst"
  /\ \/ ~Full /\ tx' = Append(tx, [buf |-> out[t].buf, meant |-> t])
     \/ ((Full /\ done = <<>>) \/ Overlap(t)) /\ UNCHANGED tx
  /\ out' = [out EXCEPT ![t].at = "free"]
  /\ UNCHANGED <<commands, pool, text, ringVars, loopVars, done, lost>>

\* rte_mbuf_raw_free(pkt), whatever rte_eth_tx_burst returned.
RawFree(t) ==
  /\ out[t].at = "free"
  /\ Put(out[t].buf)
  /\ out' = [out EXCEPT ![t] = NoSend]
  /\ UNCHANGED <<commands, text, ringVars, loopVars, sendVars>>

\* The port sends the contents the buffer has by then.
Transmit ==
  /\ tx # <<>>
  /\ tx' = Tail(tx)
  /\ done' = Append(done, Head(tx).buf)
  /\ UNCHANGED <<pool, text, ringVars, loopVars, senders, lost>>

-----------------------------------------------------------------------------

send_p(t) == Alloc(t) \/ Copy(t) \/ Burst(t) \/ RawFree(t)

tcp_rx_packets(k) ==
  \/ TakeFrame(k) \/ BurstEnds(k)
  \/ Skip(k) \/ Reply(k) \/ FreeFrame(k)
  \/ send_p(k)

Next ==
  \/ \E k \in Slaves : FrameArrives(k) \/ tcp_rx_packets(k)
  \/ Command \/ send_p(Master)
  \/ Reclaim \/ Transmit

\* Every lcore goes on with what it is doing; nobody has to type a command, nor
\* does a handler have to reply for ever.  A tx_burst that has to reclaim does.
Fairness ==
  /\ \A k \in Slaves : WF_vars(tcp_rx_packets(k))
  /\ WF_vars(send_p(Master))
  /\ WF_vars(Reclaim) /\ WF_vars(Transmit)

Spec == Init /\ [][Next]_vars /\ Fairness

-----------------------------------------------------------------------------
(* Properties *)

\* Where a buffer can be, and in how many places it is.
In(s, b)      == {i \in DOMAIN s : s[i] = b}
BeingSent(b)  == {t \in Senders : out[t].buf = b}
InFlight(b)   == {i \in DOMAIN tx : tx[i].buf = b}
Nowhere(b) ==
  /\ ~InPool(b) /\ BeingSent(b) = {} /\ InFlight(b) = {} /\ In(done, b) = {}
  /\ \A k \in Slaves : In(armed[k], b) \cup In(filled[k], b) \cup In(hand[k], b) = {}

\* Whatever the senders, the driver and the loops do to a buffer, and although
\* send_p returns buffers the driver still holds, none is lost but with a frame
\* the loop body leaves by a continue, or at a pool that is full of doubles.
LeaksOnlyFiltered == \A b \in Bufs : Nowhere(b) => b \in lost

\* A receive loop goes on taking the frames that arrive, until a buffer is lost:
\* neither replies nor commands that send starve it for good.  (For one slave; of two
\* that share a pool this small, one could take every buffer that comes back.)
KeepsReceiving ==
  \A k \in Slaves :
    \/ <>(lost # {})
    \/ []<>(filled[k] = <<>>)
    \/ []<><<TakeFrame(k)>>_vars

-----------------------------------------------------------------------------
(* What a comment says and the code does not do. *)

\* "Actually send the packet" (nic.c:74): what the port sends is what send_p built.
SentAsBuilt == [][Transmit => text[Head(tx).buf] = Head(tx).meant]_vars

=============================================================================
