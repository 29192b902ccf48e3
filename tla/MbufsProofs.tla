---------------------------- MODULE MbufsProofs ----------------------------
(***************************************************************************)
(* Proofs about Mbufs: its types, the bounds of the rings among them, and  *)
(* that no buffer gets lost but where the model says so, for any number of *)
(* buffers and slaves and rings of any size.                               *)
(***************************************************************************)
EXTENDS Mbufs, TLAPS

\* A loop at work has a frame, and a sender a buffer from Alloc to RawFree.
WorkInv ==
  /\ \A k \in Slaves : at[k] = "work" => hand[k] # <<>>
  /\ \A t \in Senders : IF out[t].at \in {"idle", "alloc"}
                        THEN out[t].buf = Nothing
                        ELSE out[t].buf \in Bufs

\* LeaksOnlyFiltered, with the places a buffer can be spelled out.
On(s, b)     == \E i \in DOMAIN s : s[i] = b
Sent(b)      == \E i \in DOMAIN tx : tx[i].buf = b
Sending(b)   == \E t \in Senders : out[t].buf = b
OnCore(k, b) == On(armed[k], b) \/ On(filled[k], b) \/ On(hand[k], b)

KeptInv ==
  \A b \in Bufs : \/ InPool(b)
                  \/ \E k \in Slaves : OnCore(k, b)
                  \/ Sending(b) \/ Sent(b) \/ On(done, b)
                  \/ b \in lost

IInv == MbufsTypeOK /\ WorkInv /\ KeptInv

-----------------------------------------------------------------------------
(* Sequences *)

\* What Append and Tail do to the members of a sequence.
LEMMA Appended ==
  ASSUME NEW S, NEW s \in Seq(S), NEW x \in S
  PROVE  /\ Append(s, x) \in Seq(S) /\ Len(Append(s, x)) = Len(s) + 1
         /\ \A b : On(s, b) => On(Append(s, x), b)
         /\ On(Append(s, x), x)
  <1>1. \A b : On(s, b) => On(Append(s, x), b)
    BY DEF On
  <1>2. On(Append(s, x), x)
    <2>1. Append(s, x)[Len(s) + 1] = x /\ Len(s) + 1 \in DOMAIN Append(s, x)
      OBVIOUS
    <2> QED
      BY <2>1 DEF On
  <1> QED
    BY <1>1, <1>2

\* One slave's sequence is replaced.
LEMMA OneMoved ==
  ASSUME NEW D, NEW S, NEW f \in [D -> S], NEW k \in D, NEW s, s \in S
  PROVE  /\ [f EXCEPT ![k] = s] \in [D -> S]
         /\ \A j \in D : j # k => [f EXCEPT ![k] = s][j] = f[j]
  OBVIOUS

LEMMA Dropped ==
  ASSUME NEW S, NEW s \in Seq(S), s # <<>>
  PROVE  /\ Head(s) \in S /\ Tail(s) \in Seq(S)
         /\ Len(Tail(s)) = Len(s) - 1 /\ Len(s) \in Nat \ {0}
         /\ \A b : On(s, b) => b = Head(s) \/ On(Tail(s), b)
  <1>1. /\ Head(s) \in S /\ Tail(s) \in Seq(S)
        /\ Len(Tail(s)) = Len(s) - 1 /\ Len(s) \in Nat \ {0}
    OBVIOUS
  <1>2. ASSUME NEW b, On(s, b) PROVE b = Head(s) \/ On(Tail(s), b)
    <2>1. PICK i \in DOMAIN s : s[i] = b
      BY <1>2 DEF On
    <2>2. CASE i = 1
      BY <2>1, <2>2
    <2>3. CASE i # 1
      <3>1. i - 1 \in DOMAIN Tail(s) /\ Tail(s)[i - 1] = b
        BY <2>1, <2>3
      <3> QED
        BY <3>1 DEF On
    <2> QED
      BY <2>2, <2>3
  <1> QED
    BY <1>1, <1>2

\* The same of the transmit ring, whose members are records.
LEMMA SentAppended ==
  ASSUME NEW S, NEW s \in Seq(S), NEW x \in S
  PROVE  /\ \A i \in DOMAIN s : i \in DOMAIN Append(s, x) /\ Append(s, x)[i] = s[i]
         /\ \E i \in DOMAIN Append(s, x) : Append(s, x)[i] = x
  <1>1. Append(s, x)[Len(s) + 1] = x /\ Len(s) + 1 \in DOMAIN Append(s, x)
    OBVIOUS
  <1> QED
    BY <1>1

LEMMA SentDropped ==
  ASSUME NEW S, NEW s \in Seq(S), s # <<>>, NEW i \in DOMAIN s, i # 1
  PROVE  i - 1 \in DOMAIN Tail(s) /\ Tail(s)[i - 1] = s[i]
  OBVIOUS

-----------------------------------------------------------------------------
(* The pool *)

\* A buffer that is put is in the pool or lost, and the others stay where they are.
LEMMA PutStep ==
  ASSUME MbufsTypeOK, NEW b \in Bufs, Put(b)
  PROVE  /\ pool' \in [Bufs -> Nat] /\ lost' \subseteq Bufs
         /\ lost \subseteq lost'
         /\ \A x \in Bufs : InPool(x) => InPool(x)'
         /\ InPool(b)' \/ b \in lost'
  <1>1. CASE pool' = [pool EXCEPT ![b] = @ + 1] /\ UNCHANGED lost
    BY <1>1 DEF InPool, MbufsTypeOK
  <1>2. CASE lost' = lost \cup {b} /\ UNCHANGED pool
    BY <1>2 DEF InPool, MbufsTypeOK
  <1> QED
    BY <1>1, <1>2 DEF Put

\* A buffer that is taken may leave the pool, the others do not.
LEMMA GetStep ==
  ASSUME MbufsTypeOK, NEW b \in Bufs, Get(b)
  PROVE  /\ pool' \in [Bufs -> Nat]
         /\ \A x \in Bufs : x # b /\ InPool(x) => InPool(x)'
  BY DEF Get, InPool, MbufsTypeOK

-----------------------------------------------------------------------------
(* The receive side *)

\* The receive side and the pool move buffers among the cores, the pool and lost.
LEMMA Moved ==
  ASSUME KeptInv, UNCHANGED <<senders, sendVars>>, lost \subseteq lost',
         \A b \in Bufs : InPool(b) => InPool(b)' \/ b \in lost' \/ \E k \in Slaves : OnCore(k, b)',
         \A b \in Bufs, k \in Slaves : OnCore(k, b) => InPool(b)' \/ b \in lost' \/ OnCore(k, b)'
  PROVE  KeptInv'
  <1> SUFFICES ASSUME NEW b \in Bufs
               PROVE  \/ InPool(b)' \/ (\E k \in Slaves : OnCore(k, b)')
                      \/ Sending(b)' \/ Sent(b)' \/ On(done, b)' \/ b \in lost'
    BY DEF KeptInv
  <1>1. Sending(b) => Sending(b)'
    BY DEF Sending, senders
  <1>2. Sent(b) => Sent(b)'
    BY DEF Sent, sendVars
  <1>3. On(done, b) => On(done, b)'
    BY DEF On, sendVars
  <1> QED
    BY <1>1, <1>2, <1>3 DEF KeptInv

\* The parts of MbufsTypeOK that the receive side changes.
RingsOK ==
  /\ armed \in [Slaves -> Seq(Bufs)] /\ filled \in [Slaves -> Seq(Bufs)]
  /\ \A k \in Slaves : Len(armed[k]) + Len(filled[k]) = RxSize
HandsOK ==
  /\ hand \in [Slaves -> Seq(Bufs)]
  /\ \A k \in Slaves : Len(hand[k]) <= MaxBurst
  /\ at \in [Slaves -> {"burst", "work"}]
  /\ replied \in [Slaves -> BOOLEAN]
  /\ \A k \in Slaves : at[k] = "work" => hand[k] # <<>>

\* A frame arrives in the first armed buffer.
LEMMA FrameArrivesStep ==
  ASSUME IInv, NEW k \in Slaves, FrameArrives(k) PROVE IInv'
  <1> DEFINE b == Head(armed[k])
  <1>1. /\ armed \in [Slaves -> Seq(Bufs)] /\ filled \in [Slaves -> Seq(Bufs)]
        /\ armed[k] \in Seq(Bufs) /\ filled[k] \in Seq(Bufs) /\ armed[k] # <<>>
        /\ armed' = [armed EXCEPT ![k] = Tail(armed[k])]
        /\ filled' = [filled EXCEPT ![k] = Append(filled[k], b)]
        /\ \E f \in Arrivals : text' = [text EXCEPT ![b] = f]
        /\ UNCHANGED <<pool, loopVars, senders, sendVars, lost>>
    BY DEF FrameArrives, IInv, MbufsTypeOK
  <1>2. /\ b \in Bufs /\ armed'[k] = Tail(armed[k]) /\ armed'[k] \in Seq(Bufs)
        /\ Len(armed'[k]) = Len(armed[k]) - 1 /\ Len(armed[k]) \in Nat
        /\ \A x : On(armed[k], x) => x = b \/ On(armed'[k], x)
    BY <1>1, Dropped
  <1>3. /\ filled'[k] = Append(filled[k], b) /\ filled'[k] \in Seq(Bufs)
        /\ Len(filled'[k]) = Len(filled[k]) + 1 /\ Len(filled[k]) \in Nat
        /\ \A x : On(filled[k], x) => On(filled'[k], x)
        /\ On(filled'[k], b)
    BY <1>1, <1>2, Appended
  <1>4. RingsOK'
    BY <1>1, <1>2, <1>3 DEF RingsOK, IInv, MbufsTypeOK
  <1>5. text' \in [Bufs -> Texts]
    BY <1>1, <1>2 DEF IInv, MbufsTypeOK, Texts
  <1>6. MbufsTypeOK'
    BY <1>1, <1>4, <1>5 DEF IInv, MbufsTypeOK, RingsOK, loopVars, senders, sendVars
  <1>7. \A x \in Bufs, j \in Slaves : OnCore(j, x) => OnCore(j, x)'
    BY <1>1, <1>2, <1>3 DEF OnCore, loopVars
  <1>8. KeptInv'
    BY <1>1, <1>7, Moved DEF IInv, InPool, senders, sendVars
  <1> QED
    BY <1>1, <1>6, <1>8 DEF IInv, WorkInv, loopVars, senders

\* A frame is handed over, and a buffer from the pool takes its place.
LEMMA TakeFrameStep ==
  ASSUME IInv, NEW k \in Slaves, TakeFrame(k) PROVE IInv'
  <1>1. PICK b \in Bufs : Get(b) /\ armed' = [armed EXCEPT ![k] = Append(armed[k], b)]
    BY DEF TakeFrame
  <1> DEFINE h == Head(filled[k])
  <1>2. /\ armed \in [Slaves -> Seq(Bufs)] /\ filled \in [Slaves -> Seq(Bufs)]
        /\ hand \in [Slaves -> Seq(Bufs)]
        /\ armed[k] \in Seq(Bufs) /\ filled[k] \in Seq(Bufs) /\ filled[k] # <<>>
        /\ hand[k] \in Seq(Bufs) /\ Len(hand[k]) < MaxBurst
        /\ filled' = [filled EXCEPT ![k] = Tail(filled[k])]
        /\ hand' = [hand EXCEPT ![k] = Append(hand[k], h)]
        /\ at[k] = "burst"
        /\ UNCHANGED <<text, at, replied, senders, sendVars, lost>>
    BY DEF TakeFrame, IInv, MbufsTypeOK
  <1>3. /\ h \in Bufs /\ filled'[k] = Tail(filled[k]) /\ filled'[k] \in Seq(Bufs)
        /\ Len(filled'[k]) = Len(filled[k]) - 1 /\ Len(filled[k]) \in Nat
        /\ \A x : On(filled[k], x) => x = h \/ On(filled'[k], x)
    BY <1>2, Dropped
  <1>4. /\ armed'[k] = Append(armed[k], b) /\ armed'[k] \in Seq(Bufs)
        /\ Len(armed'[k]) = Len(armed[k]) + 1 /\ Len(armed[k]) \in Nat
        /\ \A x : On(armed[k], x) => On(armed'[k], x)
        /\ On(armed'[k], b)
    BY <1>1, <1>2, Appended
  <1>5. /\ hand'[k] = Append(hand[k], h) /\ hand'[k] \in Seq(Bufs)
        /\ Len(hand'[k]) = Len(hand[k]) + 1 /\ Len(hand[k]) \in Nat
        /\ \A x : On(hand[k], x) => On(hand'[k], x)
        /\ On(hand'[k], h)
    BY <1>2, <1>3, Appended
  <1> HIDE DEF h
  <1>6. RingsOK'
    <2>1. /\ armed' \in [Slaves -> Seq(Bufs)] /\ \A j \in Slaves : j # k => armed'[j] = armed[j]
      BY <1>1, <1>2, <1>4, OneMoved
    <2>2. /\ filled' \in [Slaves -> Seq(Bufs)] /\ \A j \in Slaves : j # k => filled'[j] = filled[j]
      BY <1>2, <1>3, OneMoved
    <2>3. \A j \in Slaves : Len(armed[j]) + Len(filled[j]) = RxSize
      BY DEF IInv, MbufsTypeOK
    <2>4. ASSUME NEW j \in Slaves PROVE Len(armed'[j]) + Len(filled'[j]) = RxSize
      <3>1. CASE j # k
        BY <3>1, <2>1, <2>2, <2>3
      <3>2. CASE j = k
        <4>1. Len(filled'[k]) = Len(filled[k]) - 1 /\ Len(filled[k]) \in Nat
          BY <1>3
        <4>2. Len(armed'[k]) = Len(armed[k]) + 1 /\ Len(armed[k]) \in Nat
          BY <1>4
        <4>3. Len(armed[k]) + Len(filled[k]) = RxSize
          BY <2>3
        <4>4. /\ armed[k] \in Seq(Bufs) /\ filled[k] \in Seq(Bufs)
              /\ armed'[k] \in Seq(Bufs) /\ filled'[k] \in Seq(Bufs)
          BY <1>2, <2>1, <2>2
        <4>5. PICK s \in Seq(Bufs), t \in Seq(Bufs) : s = armed'[k] /\ t = filled'[k]
          BY <4>4
        <4>6. PICK u \in Seq(Bufs), v \in Seq(Bufs) : u = armed[k] /\ v = filled[k]
          BY <4>4
        <4>7. Len(t) = Len(v) - 1 /\ Len(s) = Len(u) + 1
          BY <4>1, <4>2, <4>5, <4>6
        <4>8. Len(s) + Len(t) = Len(u) + Len(v)
          BY <4>7
        <4> QED
          BY <3>2, <4>3, <4>5, <4>6, <4>8
      <3> QED
        BY <3>1, <3>2
    <2> QED
      BY <2>1, <2>2, <2>4 DEF RingsOK
  <1>7. HandsOK'
    <2>1. hand' \in [Slaves -> Seq(Bufs)] /\ \A j \in Slaves : j # k => hand'[j] = hand[j]
      BY <1>2, <1>5, OneMoved
    <2>2. Len(hand'[k]) <= MaxBurst
      BY <1>2, <1>5, MbufsAssumption
    <2>3. /\ \A j \in Slaves : Len(hand[j]) <= MaxBurst
          /\ at \in [Slaves -> {"burst", "work"}] /\ replied \in [Slaves -> BOOLEAN]
          /\ \A j \in Slaves : at[j] = "work" => hand[j] # <<>>
      BY DEF IInv, MbufsTypeOK, WorkInv
    <2>4. at' = at /\ replied' = replied /\ at[k] # "work"
      BY <1>2
    <2> QED
      BY <2>1, <2>2, <2>3, <2>4 DEF HandsOK
  <1>8. /\ pool' \in [Bufs -> Nat]
        /\ \A x \in Bufs : x # b /\ InPool(x) => InPool(x)'
    BY <1>1, GetStep DEF IInv
  <1>9. MbufsTypeOK'
    BY <1>2, <1>6, <1>7, <1>8 DEF IInv, MbufsTypeOK, RingsOK, HandsOK, senders, sendVars
  <1>10. /\ \A x \in Bufs, j \in Slaves : OnCore(j, x) => OnCore(j, x)'
         /\ OnCore(k, b)'
    BY <1>1, <1>2, <1>3, <1>4, <1>5 DEF OnCore
  <1>11. KeptInv'
    BY <1>2, <1>8, <1>10, Moved DEF IInv, senders, sendVars
  <1> QED
    BY <1>2, <1>7, <1>9, <1>11 DEF IInv, WorkInv, HandsOK, senders

LEMMA BurstEndsStep ==
  ASSUME IInv, NEW k \in Slaves, BurstEnds(k) PROVE IInv'
  <1>1. /\ hand[k] # <<>> /\ at' = [at EXCEPT ![k] = "work"]
        /\ UNCHANGED <<pool, text, ringVars, hand, replied, senders, sendVars, lost>>
    BY DEF BurstEnds
  <1>2. MbufsTypeOK'
    BY <1>1 DEF IInv, MbufsTypeOK, ringVars, senders, sendVars
  <1>3. KeptInv'
    BY <1>1 DEF IInv, KeptInv, OnCore, InPool, Sending, Sent, ringVars, senders, sendVars
  <1> QED
    BY <1>1, <1>2, <1>3 DEF IInv, MbufsTypeOK, WorkInv, senders

\* The loop goes on to the next frame, or back to rte_eth_rx_burst.
LEMMA NextFrameStep ==
  ASSUME IInv, NEW k \in Slaves, AtFrame(k), NextFrame(k)
  PROVE  /\ Current(k) \in Bufs
         /\ HandsOK'
         /\ \A x : On(hand[k], x) => x = Current(k) \/ On(hand'[k], x)
         /\ \A j \in Slaves : j # k => hand'[j] = hand[j]
  <1>1. /\ hand \in [Slaves -> Seq(Bufs)] /\ hand[k] \in Seq(Bufs) /\ hand[k] # <<>>
        /\ hand' = [hand EXCEPT ![k] = Tail(hand[k])]
        /\ at' = [at EXCEPT ![k] = IF Len(hand[k]) = 1 THEN "burst" ELSE "work"]
        /\ replied' = [replied EXCEPT ![k] = FALSE]
    BY DEF AtFrame, NextFrame, IInv, MbufsTypeOK, WorkInv
  <1>2. /\ Current(k) \in Bufs /\ hand'[k] = Tail(hand[k]) /\ hand'[k] \in Seq(Bufs)
        /\ Len(hand'[k]) = Len(hand[k]) - 1 /\ Len(hand[k]) \in Nat \ {0}
        /\ \A x : On(hand[k], x) => x = Current(k) \/ On(hand'[k], x)
    BY <1>1, Dropped DEF Current
  <1>3. Len(hand[k]) # 1 => hand'[k] # <<>>
    <2>1. Len(hand[k]) # 1 => Len(hand'[k]) # 0
      BY <1>2
    <2> QED
      BY <1>2, <2>1
  <1>4. replied' \in [Slaves -> BOOLEAN]
    BY <1>1 DEF IInv, MbufsTypeOK
  <1>5. at' \in [Slaves -> {"burst", "work"}]
    BY <1>1 DEF IInv, MbufsTypeOK
  <1>6. \A j \in Slaves : Len(hand'[j]) <= MaxBurst
    BY <1>1, <1>2, MbufsAssumption DEF IInv, MbufsTypeOK
  <1>7. \A j \in Slaves : at'[j] = "work" => hand'[j] # <<>>
    BY <1>1, <1>3 DEF IInv, MbufsTypeOK, WorkInv
  <1> QED
    BY <1>1, <1>2, <1>4, <1>5, <1>6, <1>7 DEF HandsOK

LEMMA SkipStep ==
  ASSUME IInv, NEW k \in Slaves, Skip(k) PROVE IInv'
  <1>1. /\ AtFrame(k) /\ NextFrame(k) /\ lost' = lost \cup {Current(k)}
        /\ UNCHANGED <<pool, text, ringVars, senders, sendVars>>
    BY DEF Skip
  <1>2. PICK c \in Bufs :
          /\ c = Current(k)
          /\ HandsOK'
          /\ \A x : On(hand[k], x) => x = c \/ On(hand'[k], x)
          /\ \A j \in Slaves : j # k => hand'[j] = hand[j]
    BY <1>1, NextFrameStep
  <1>3. MbufsTypeOK'
    BY <1>1, <1>2 DEF IInv, MbufsTypeOK, HandsOK, ringVars, senders, sendVars
  <1>4. \A x \in Bufs, j \in Slaves : OnCore(j, x) => OnCore(j, x)' \/ x = c
    BY <1>1, <1>2 DEF OnCore, ringVars
  <1>5. KeptInv'
    BY <1>1, <1>2, <1>4, Moved DEF IInv, InPool, senders, sendVars
  <1> QED
    BY <1>1, <1>2, <1>3, <1>5 DEF IInv, WorkInv, HandsOK, senders

LEMMA FreeFrameStep ==
  ASSUME IInv, NEW k \in Slaves, FreeFrame(k) PROVE IInv'
  <1>1. /\ AtFrame(k) /\ NextFrame(k) /\ Put(Current(k))
        /\ UNCHANGED <<text, ringVars, senders, sendVars>>
    BY DEF FreeFrame
  <1>2. PICK c \in Bufs :
          /\ c = Current(k)
          /\ HandsOK'
          /\ \A x : On(hand[k], x) => x = c \/ On(hand'[k], x)
          /\ \A j \in Slaves : j # k => hand'[j] = hand[j]
    BY <1>1, NextFrameStep
  <1>3. /\ pool' \in [Bufs -> Nat] /\ lost' \subseteq Bufs /\ lost \subseteq lost'
        /\ \A x \in Bufs : InPool(x) => InPool(x)'
        /\ InPool(c)' \/ c \in lost'
    <2>1. Put(c) /\ MbufsTypeOK
      BY <1>1, <1>2 DEF IInv
    <2> QED
      BY <2>1, PutStep
  <1>4. MbufsTypeOK'
    BY <1>1, <1>2, <1>3 DEF IInv, MbufsTypeOK, HandsOK, ringVars, senders, sendVars
  <1>5. \A x \in Bufs, j \in Slaves : OnCore(j, x) => OnCore(j, x)' \/ x = c
    BY <1>1, <1>2 DEF OnCore, ringVars
  <1>6. KeptInv'
    BY <1>1, <1>3, <1>5, Moved DEF IInv, senders, sendVars
  <1> QED
    BY <1>1, <1>2, <1>4, <1>6 DEF IInv, WorkInv, HandsOK, senders

-----------------------------------------------------------------------------
(* send_p *)

\* The second half of WorkInv, for one call.
CallOK(o) == IF o.at \in {"idle", "alloc"} THEN o.buf = Nothing ELSE o.buf \in Bufs

\* One sender's call changes.
LEMMA CallStep ==
  ASSUME IInv, NEW t \in Senders, NEW o \in Out, CallOK(o), out' = [out EXCEPT ![t] = o]
  PROVE  /\ out' \in [Senders -> Out] /\ out'[t] = o
         /\ \A s \in Senders : CallOK(out'[s])
         /\ \A b : Sending(b) => Sending(b)' \/ b = out[t].buf
         /\ Sending(o.buf)'
  <1>1. /\ out \in [Senders -> Out] /\ \A s \in Senders : CallOK(out[s])
    BY DEF IInv, MbufsTypeOK, WorkInv, CallOK
  <1>2. out' \in [Senders -> Out] /\ out'[t] = o /\ \A s \in Senders \ {t} : out'[s] = out[s]
    BY <1>1
  <1>3. \A s \in Senders : CallOK(out'[s])
    BY <1>1, <1>2
  <1>4. ASSUME NEW b, Sending(b) PROVE Sending(b)' \/ b = out[t].buf
    BY <1>2, <1>4 DEF Sending
  <1>5. Sending(o.buf)'
    BY <1>2 DEF Sending
  <1> QED
    BY <1>2, <1>3, <1>4, <1>5

\* It goes on to the next place, with the buffer it has.
LEMMA CallGoesOn ==
  ASSUME IInv, NEW t \in Senders, out[t].buf \in Bufs, NEW p \in {"burst", "free"},
         out' = [out EXCEPT ![t].at = p]
  PROVE  /\ out' \in [Senders -> Out] /\ \A s \in Senders : CallOK(out'[s])
         /\ \A x : Sending(x) => Sending(x)'
  <1>1. PICK c \in Bufs : c = out[t].buf
    OBVIOUS
  <1>2. PICK o \in Out : o.at = p /\ o.buf = c
    <2>1. [at |-> p, buf |-> c] \in Out
      BY DEF Out, OutPlaces
    <2> QED
      BY <2>1
  <1>3. CallOK(o)
    BY <1>2 DEF CallOK
  <1>4. out' = [out EXCEPT ![t] = o]
    <2>1. out[t] \in Out
      BY DEF IInv, MbufsTypeOK
    <2>2. [out[t] EXCEPT !.at = p] = o
      BY <1>1, <1>2, <2>1 DEF Out
    <2> QED
      BY <2>2
  <1>5. /\ out' \in [Senders -> Out] /\ out'[t] = o
        /\ \A s \in Senders : CallOK(out'[s])
        /\ \A x : Sending(x) => Sending(x)' \/ x = out[t].buf
    BY <1>3, <1>4, CallStep
  <1>6. Sending(c)'
    BY <1>2, <1>5 DEF Sending
  <1> QED
    BY <1>1, <1>5, <1>6

\* send_p leaves the cores alone; what its steps owe is said of one buffer.
LEMMA SendKept ==
  ASSUME KeptInv, UNCHANGED <<ringVars, hand>>, lost \subseteq lost',
         \A b \in Bufs : InPool(b) \/ Sending(b) \/ Sent(b) \/ On(done, b)
                           => InPool(b)' \/ Sending(b)' \/ Sent(b)' \/ On(done, b)' \/ b \in lost'
  PROVE  KeptInv'
  <1>1. \A b \in Bufs, k \in Slaves : OnCore(k, b) => OnCore(k, b)'
    BY DEF OnCore, On, ringVars
  <1> QED
    BY <1>1 DEF KeptInv

\* A call starts, without a buffer: a handler's or a command's.
LEMMA CallStarts ==
  ASSUME IInv, NEW t \in Senders, out[t].at = "idle", out' = [out EXCEPT ![t].at = "alloc"],
         UNCHANGED <<pool, ringVars, hand, sendVars, lost>>
  PROVE  /\ out' \in [Senders -> Out]
         /\ \A s \in Senders : CallOK(out'[s])
         /\ KeptInv'
  <1> DEFINE o == [at |-> "alloc", buf |-> Nothing]
  <1>1. out[t] = [at |-> "idle", buf |-> Nothing] /\ out[t] \in Out
    BY DEF IInv, MbufsTypeOK, WorkInv, Out
  <1>2. o \in Out /\ CallOK(o)
    BY DEF Out, OutPlaces, CallOK
  <1>3. out' = [out EXCEPT ![t] = o]
    <2>1. [out[t] EXCEPT !.at = "alloc"] = o
      BY <1>1
    <2> QED
      BY <2>1
  <1> HIDE DEF o
  <1>4. /\ out' \in [Senders -> Out] /\ \A s \in Senders : CallOK(out'[s])
        /\ \A b : Sending(b) => Sending(b)' \/ b = Nothing
    <2>1. out[t].buf = Nothing
      BY <1>1
    <2> QED
      BY <1>2, <1>3, <2>1, CallStep
  <1>5. \A b \in Bufs : b # Nothing
    BY MbufsAssumption
  <1>6. \A b \in Bufs : (InPool(b) => InPool(b)') /\ (Sent(b) => Sent(b)')
                        /\ (On(done, b) => On(done, b)')
    BY DEF InPool, Sent, On, sendVars
  <1>7. KeptInv'
    BY <1>4, <1>5, <1>6, SendKept DEF IInv
  <1> QED
    BY <1>4, <1>7

LEMMA ReplyStep ==
  ASSUME IInv, NEW k \in Slaves, Reply(k) PROVE IInv'
  <1>1. /\ k \in Senders /\ out[k].at = "idle" /\ out' = [out EXCEPT ![k].at = "alloc"]
        /\ replied' = [replied EXCEPT ![k] = TRUE]
        /\ UNCHANGED <<commands, pool, text, ringVars, hand, at, sendVars, lost>>
    BY DEF Reply, AtFrame, Senders
  <1>2. out' \in [Senders -> Out] /\ (\A s \in Senders : CallOK(out'[s])) /\ KeptInv'
    BY <1>1, CallStarts
  <1>3. replied' \in [Slaves -> BOOLEAN]
    BY <1>1 DEF IInv, MbufsTypeOK
  <1>4. MbufsTypeOK'
    BY <1>1, <1>2, <1>3 DEF IInv, MbufsTypeOK, ringVars, sendVars
  <1> QED
    BY <1>1, <1>2, <1>4 DEF IInv, WorkInv, CallOK

LEMMA CommandStep ==
  ASSUME IInv, Command PROVE IInv'
  <1>1. /\ Master \in Senders /\ out[Master].at = "idle"
        /\ out' = [out EXCEPT ![Master].at = "alloc"]
        /\ commands < MaxCommands /\ commands' = commands + 1
        /\ UNCHANGED <<pool, text, ringVars, loopVars, sendVars, lost>>
    BY DEF Command, Senders
  <1>2. out' \in [Senders -> Out] /\ (\A s \in Senders : CallOK(out'[s])) /\ KeptInv'
    BY <1>1, CallStarts DEF loopVars
  <1>3. commands' \in 0 .. MaxCommands
    BY <1>1, MbufsAssumption DEF IInv, MbufsTypeOK
  <1>4. MbufsTypeOK'
    BY <1>1, <1>2, <1>3 DEF IInv, MbufsTypeOK, ringVars, loopVars, sendVars
  <1> QED
    BY <1>1, <1>2, <1>4 DEF IInv, WorkInv, CallOK, loopVars

\* The buffer a sender holds from now on left the pool.
LEMMA AllocStep ==
  ASSUME IInv, NEW t \in Senders, Alloc(t) PROVE IInv'
  <1>1. /\ out[t].at = "alloc" /\ out[t].buf = Nothing
        /\ UNCHANGED <<commands, text, ringVars, loopVars, sendVars, lost>>
    BY DEF Alloc, IInv, WorkInv
  <1>2. \A b \in Bufs : b # Nothing /\ (Sent(b) => Sent(b)') /\ (On(done, b) => On(done, b)')
    BY <1>1, MbufsAssumption DEF Sent, On, sendVars
  <1>3. ASSUME NEW o \in Out, CallOK(o), out' = [out EXCEPT ![t] = o],
               pool' \in [Bufs -> Nat],
               \A b \in Bufs : InPool(b) => InPool(b)' \/ b = o.buf
        PROVE  IInv'
    <2>1. /\ out' \in [Senders -> Out] /\ (\A s \in Senders : CallOK(out'[s]))
          /\ \A b : Sending(b) => Sending(b)' \/ b = Nothing
          /\ Sending(o.buf)'
      BY <1>1, <1>3, CallStep
    <2>2. KeptInv'
      BY <1>1, <1>2, <1>3, <2>1, SendKept DEF IInv, loopVars
    <2>3. MbufsTypeOK'
      BY <1>1, <1>3, <2>1 DEF IInv, MbufsTypeOK, ringVars, loopVars, sendVars
    <2> QED
      BY <1>1, <2>1, <2>2, <2>3 DEF IInv, WorkInv, CallOK, loopVars
  <1>4. ASSUME NEW b \in Bufs, Get(b), out' = [out EXCEPT ![t] = [at |-> "copy", buf |-> b]]
        PROVE  IInv'
    <2> DEFINE o == [at |-> "copy", buf |-> b]
    <2>1. o \in Out /\ CallOK(o) /\ o.buf = b
      BY DEF Out, OutPlaces, CallOK
    <2>2. /\ pool' \in [Bufs -> Nat]
          /\ \A x \in Bufs : x # b /\ InPool(x) => InPool(x)'
      BY <1>4, GetStep DEF IInv
    <2> QED
      BY <1>3, <1>4, <2>1, <2>2
  <1>5. ASSUME out' = [out EXCEPT ![t] = NoSend], UNCHANGED pool PROVE IInv'
    <2>1. NoSend \in Out /\ CallOK(NoSend)
      BY DEF Out, OutPlaces, CallOK, NoSend
    <2>2. pool' \in [Bufs -> Nat] /\ \A b \in Bufs : InPool(b) => InPool(b)'
      BY <1>5 DEF InPool, IInv, MbufsTypeOK
    <2> QED
      BY <1>3, <1>5, <2>1, <2>2
  <1> QED
    BY <1>4, <1>5 DEF Alloc

LEMMA CopyStep ==
  ASSUME IInv, NEW t \in Senders, Copy(t) PROVE IInv'
  <1> DEFINE b == out[t].buf
  <1>1. /\ out[t].at = "copy" /\ b \in Bufs /\ out[t] = [at |-> "copy", buf |-> b]
        /\ text' = [text EXCEPT ![b] = t]
        /\ out' = [out EXCEPT ![t].at = "burst"]
        /\ UNCHANGED <<commands, pool, ringVars, loopVars, sendVars, lost>>
    BY DEF Copy, IInv, MbufsTypeOK, WorkInv, Out
  <1>4. /\ out' \in [Senders -> Out] /\ \A s \in Senders : CallOK(out'[s])
        /\ \A x : Sending(x) => Sending(x)'
    BY <1>1, CallGoesOn
  <1>5. text' \in [Bufs -> Texts]
    BY <1>1 DEF IInv, MbufsTypeOK, Texts
  <1>6. MbufsTypeOK'
    BY <1>1, <1>4, <1>5 DEF IInv, MbufsTypeOK, ringVars, loopVars, sendVars
  <1>7. \A x \in Bufs : (InPool(x) => InPool(x)') /\ (Sent(x) => Sent(x)')
                        /\ (On(done, x) => On(done, x)')
    BY <1>1 DEF InPool, Sent, On, sendVars
  <1>8. KeptInv'
    BY <1>1, <1>4, <1>7, SendKept DEF IInv, loopVars
  <1> QED
    BY <1>1, <1>4, <1>6, <1>8 DEF IInv, WorkInv, CallOK, loopVars

\* The driver gives back the buffer of the frame that was sent first.
LEMMA ReclaimStep ==
  ASSUME IInv, Reclaim PROVE IInv'
  <1>1. /\ done \in Seq(Bufs) /\ done # <<>> /\ Put(Head(done)) /\ done' = Tail(done)
        /\ UNCHANGED <<text, ringVars, loopVars, senders, tx>>
    BY DEF Reclaim, IInv, MbufsTypeOK
  <1>2. PICK c \in Bufs : c = Head(done)
    BY <1>1, Dropped
  <1>3. /\ done' \in Seq(Bufs) /\ Len(done') = Len(done) - 1 /\ Len(done) \in Nat
        /\ \A x : On(done, x) => x = c \/ On(done', x)
    BY <1>1, <1>2, Dropped
  <1>4. /\ pool' \in [Bufs -> Nat] /\ lost' \subseteq Bufs /\ lost \subseteq lost'
        /\ \A x \in Bufs : InPool(x) => InPool(x)'
        /\ InPool(c)' \/ c \in lost'
    <2>1. Put(c) /\ MbufsTypeOK
      BY <1>1, <1>2 DEF IInv
    <2> QED
      BY <2>1, PutStep
  <1>5. Len(tx') + Len(done') <= TxSize
    BY <1>1, <1>3, MbufsAssumption DEF IInv, MbufsTypeOK
  <1>6. MbufsTypeOK'
    BY <1>1, <1>3, <1>4, <1>5 DEF IInv, MbufsTypeOK, ringVars, loopVars, senders
  <1>7. \A x \in Bufs : (Sending(x) => Sending(x)') /\ (Sent(x) => Sent(x)')
                        /\ (On(done, x) => On(done, x)' \/ x = c)
    BY <1>1, <1>3 DEF Sending, Sent, senders
  <1>8. KeptInv'
    BY <1>1, <1>4, <1>7, SendKept DEF IInv, loopVars
  <1> QED
    BY <1>1, <1>6, <1>8 DEF IInv, WorkInv, loopVars, senders

\* A sender that is done puts its buffer, wherever else that is.
LEMMA RawFreeStep ==
  ASSUME IInv, NEW t \in Senders, RawFree(t) PROVE IInv'
  <1>1. /\ out[t].at = "free" /\ Put(out[t].buf) /\ out' = [out EXCEPT ![t] = NoSend]
        /\ UNCHANGED <<commands, text, ringVars, loopVars, sendVars>>
    BY DEF RawFree
  <1>2. PICK c \in Bufs : c = out[t].buf
    BY <1>1 DEF IInv, WorkInv
  <1>3. NoSend \in Out /\ CallOK(NoSend)
    BY DEF Out, OutPlaces, CallOK, NoSend
  <1>4. /\ out' \in [Senders -> Out] /\ \A s \in Senders : CallOK(out'[s])
        /\ \A x : Sending(x) => Sending(x)' \/ x = c
    BY <1>1, <1>2, <1>3, CallStep
  <1>5. /\ pool' \in [Bufs -> Nat] /\ lost' \subseteq Bufs /\ lost \subseteq lost'
        /\ \A x \in Bufs : InPool(x) => InPool(x)'
        /\ InPool(c)' \/ c \in lost'
    <2>1. Put(c) /\ MbufsTypeOK
      BY <1>1, <1>2 DEF IInv
    <2> QED
      BY <2>1, PutStep
  <1>6. MbufsTypeOK'
    BY <1>1, <1>4, <1>5 DEF IInv, MbufsTypeOK, ringVars, loopVars, sendVars
  <1>7. \A x \in Bufs : (Sent(x) => Sent(x)') /\ (On(done, x) => On(done, x)')
    BY <1>1 DEF Sent, On, sendVars
  <1>8. KeptInv'
    BY <1>1, <1>4, <1>5, <1>7, SendKept DEF IInv, loopVars
  <1> QED
    BY <1>1, <1>4, <1>6, <1>8 DEF IInv, WorkInv, CallOK, loopVars

\* The ring takes the frame if it has room, or lets it go; the sender goes on.
LEMMA BurstStep ==
  ASSUME IInv, NEW t \in Senders, Burst(t) PROVE IInv'
  <1> DEFINE b == out[t].buf
             f == [buf |-> b, meant |-> t]
             Frames == [buf : Bufs, meant : Senders]
  <1>1. /\ out[t].at = "burst" /\ b \in Bufs /\ out[t] = [at |-> "burst", buf |-> b]
        /\ out' = [out EXCEPT ![t].at = "free"]
        /\ UNCHANGED <<commands, pool, text, ringVars, loopVars, done, lost>>
    BY DEF Burst, IInv, MbufsTypeOK, WorkInv, Out
  <1>4. /\ out' \in [Senders -> Out] /\ \A s \in Senders : CallOK(out'[s])
        /\ \A x : Sending(x) => Sending(x)'
    BY <1>1, CallGoesOn
  <1>5. /\ tx' \in Seq(Frames) /\ Len(tx') + Len(done) <= TxSize
        /\ \A x : Sent(x) => Sent(x)'
    <2>1. tx \in Seq(Frames) /\ f \in Frames
      BY <1>1 DEF IInv, MbufsTypeOK
    <2>2. CASE ~Full /\ tx' = Append(tx, f)
      <3> HIDE DEF f
      <3>1. tx' \in Seq(Frames) /\ Len(tx') = Len(tx) + 1 /\ Len(tx) \in Nat
        BY <2>1, <2>2
      <3>2. Len(done) \in Nat /\ Len(tx) + Len(done) < TxSize
        BY <2>1, <2>2, MbufsAssumption DEF Full, IInv, MbufsTypeOK
      <3>3. \A x : Sent(x) => Sent(x)'
        BY <2>1, <2>2, SentAppended DEF Sent
      <3> QED
        BY <3>1, <3>2, <3>3, MbufsAssumption
    <2>3. CASE UNCHANGED tx
      BY <2>1, <2>3 DEF Sent, IInv, MbufsTypeOK
    <2> QED
      BY <2>2, <2>3 DEF Burst
  <1>6. MbufsTypeOK'
    BY <1>1, <1>4, <1>5 DEF IInv, MbufsTypeOK, ringVars, loopVars
  <1>7. \A x \in Bufs : (InPool(x) => InPool(x)') /\ (On(done, x) => On(done, x)')
    BY <1>1 DEF InPool, On
  <1>8. KeptInv'
    BY <1>1, <1>4, <1>5, <1>7, SendKept DEF IInv, loopVars
  <1> QED
    BY <1>1, <1>4, <1>6, <1>8 DEF IInv, WorkInv, CallOK, loopVars

\* The buffer of a frame that goes out is held by the driver from then on.
LEMMA TransmitStep ==
  ASSUME IInv, Transmit PROVE IInv'
  <1> DEFINE Frames == [buf : Bufs, meant : Senders]
  <1>1. /\ tx \in Seq(Frames) /\ tx # <<>> /\ tx' = Tail(tx)
        /\ done \in Seq(Bufs) /\ done' = Append(done, Head(tx).buf)
        /\ UNCHANGED <<pool, text, ringVars, loopVars, senders, lost>>
    BY DEF Transmit, IInv, MbufsTypeOK
  <1>2. PICK c \in Bufs : c = Head(tx).buf
    <2>1. Head(tx) \in Frames
      BY <1>1, Dropped
    <2> QED
      BY <2>1
  <1>3. /\ done' \in Seq(Bufs) /\ Len(done') = Len(done) + 1 /\ Len(done) \in Nat
        /\ \A x : On(done, x) => On(done', x)
        /\ On(done', c)
    BY <1>1, <1>2, Appended
  <1>4. tx' \in Seq(Frames) /\ Len(tx') = Len(tx) - 1 /\ Len(tx) \in Nat
    BY <1>1
  <1>5. ASSUME NEW x, Sent(x) PROVE Sent(x)' \/ x = c
    <2>1. PICK i \in DOMAIN tx : tx[i].buf = x
      BY <1>5 DEF Sent
    <2>2. CASE i = 1
      BY <1>1, <1>2, <2>1, <2>2
    <2>3. CASE i # 1
      BY <1>1, <2>1, <2>3, SentDropped DEF Sent
    <2> QED
      BY <2>2, <2>3
  <1>6. Len(tx') + Len(done') <= TxSize
    BY <1>3, <1>4, MbufsAssumption DEF IInv, MbufsTypeOK
  <1>7. MbufsTypeOK'
    BY <1>1, <1>3, <1>4, <1>6 DEF IInv, MbufsTypeOK, ringVars, loopVars, senders
  <1>8. \A x \in Bufs : (InPool(x) => InPool(x)') /\ (Sending(x) => Sending(x)')
    BY <1>1 DEF InPool, Sending, senders
  <1>9. KeptInv'
    BY <1>1, <1>3, <1>5, <1>8, SendKept DEF IInv, loopVars
  <1> QED
    BY <1>1, <1>7, <1>9 DEF IInv, WorkInv, loopVars, senders

-----------------------------------------------------------------------------
(* The theorems *)

\* The rings are armed with buffers of the pool, and the pool has the others.
LEMMA InitIInv == Init => IInv
  <1> SUFFICES ASSUME Init PROVE IInv
    OBVIOUS
  <1>1. PICK f \in Injection(Slaves \X (1 .. RxSize), Bufs) :
          /\ armed = [k \in Slaves |-> [i \in 1 .. RxSize |-> f[<<k, i>>]]]
          /\ pool = [b \in Bufs |-> IF b \in Range(f) THEN 0 ELSE 1]
    BY DEF Init
  <1>2. f \in [Slaves \X (1 .. RxSize) -> Bufs]
    BY DEF Injection, IsInjective
  <1>3. \A k \in Slaves, i \in 1 .. RxSize : f[<<k, i>>] \in Bufs
    BY <1>2
  <1>4. \A k \in Slaves : armed[k] \in Seq(Bufs) /\ Len(armed[k]) = RxSize
    <2> SUFFICES ASSUME NEW k \in Slaves PROVE armed[k] \in Seq(Bufs) /\ Len(armed[k]) = RxSize
      OBVIOUS
    <2>1. RxSize \in Nat
      BY MbufsAssumption
    <2>2. armed[k] = [i \in 1 .. RxSize |-> f[<<k, i>>]]
      BY <1>1
    <2>3. armed[k] \in [1 .. RxSize -> Bufs]
      BY <1>3, <2>2
    <2>4. armed[k] \in Seq(Bufs)
      BY <2>1, <2>3
    <2>5. Len(armed[k]) = RxSize
      BY <2>1, <2>3, <2>4
    <2> QED
      BY <2>4, <2>5
  <1>5. /\ text = [b \in Bufs |-> Nothing]
        /\ filled = [k \in Slaves |-> <<>>] /\ hand = [k \in Slaves |-> <<>>]
        /\ at = [k \in Slaves |-> "burst"] /\ replied = [k \in Slaves |-> FALSE]
        /\ commands = 0 /\ out = [t \in Senders |-> NoSend]
        /\ tx = <<>> /\ done = <<>> /\ lost = {}
    BY DEF Init
  <1>6. RingsOK
    BY <1>1, <1>4, <1>5, MbufsAssumption DEF RingsOK
  <1>7. pool \in [Bufs -> Nat] /\ text \in [Bufs -> Texts]
    BY <1>1, <1>5 DEF Texts
  <1>8. /\ hand \in [Slaves -> Seq(Bufs)] /\ \A k \in Slaves : Len(hand[k]) <= MaxBurst
    BY <1>5, MbufsAssumption
  <1>9. /\ out \in [Senders -> Out] /\ commands \in 0 .. MaxCommands
    BY <1>5, MbufsAssumption DEF Out, OutPlaces, NoSend
  <1>10. MbufsTypeOK
    BY <1>5, <1>6, <1>7, <1>8, <1>9, MbufsAssumption DEF MbufsTypeOK, RingsOK
  <1>11. WorkInv
    BY <1>5 DEF WorkInv, NoSend
  <1>12. ASSUME NEW b \in Bufs PROVE InPool(b) \/ \E k \in Slaves : OnCore(k, b)
    <2>1. CASE b \in Range(f)
      <3>1. PICK d \in Slaves \X (1 .. RxSize) : f[d] = b
        BY <1>2, <2>1 DEF Range
      <3>2. PICK k \in Slaves, i \in 1 .. RxSize : f[<<k, i>>] = b
        BY <3>1
      <3>3. i \in DOMAIN armed[k] /\ armed[k][i] = b
        BY <1>1, <3>2
      <3> QED
        BY <3>3 DEF OnCore, On
    <2>2. CASE b \notin Range(f)
      BY <1>1, <2>2 DEF InPool
    <2> QED
      BY <2>1, <2>2
  <1> QED
    BY <1>10, <1>11, <1>12 DEF IInv, KeptInv

LEMMA SendPStep ==
  ASSUME IInv, NEW t \in Senders, send_p(t) PROVE IInv'
  BY AllocStep, CopyStep, BurstStep, RawFreeStep DEF send_p

LEMMA NextIInv == IInv /\ [Next]_vars => IInv'
  <1> SUFFICES ASSUME IInv, [Next]_vars PROVE IInv'
    OBVIOUS
  <1>1. ASSUME NEW k \in Slaves, FrameArrives(k) PROVE IInv'
    BY <1>1, FrameArrivesStep
  <1>2. ASSUME NEW k \in Slaves, tcp_rx_packets(k) PROVE IInv'
    <2>1. k \in Senders
      BY DEF Senders
    <2> QED
      BY <1>2, <2>1, TakeFrameStep, BurstEndsStep, SkipStep, ReplyStep, FreeFrameStep,
         SendPStep DEF tcp_rx_packets
  <1>3. CASE Command
    BY <1>3, CommandStep
  <1>4. CASE send_p(Master)
    BY <1>4, SendPStep DEF Senders
  <1>5. CASE Reclaim
    BY <1>5, ReclaimStep
  <1>6. CASE Transmit
    BY <1>6, TransmitStep
  <1>7. CASE UNCHANGED vars
    <2>1. MbufsTypeOK'
      BY <1>7 DEF IInv, MbufsTypeOK, vars, ringVars, loopVars, senders, sendVars
    <2>2. \A x \in Bufs : (InPool(x) => InPool(x)') /\ (Sending(x) => Sending(x)')
                          /\ (Sent(x) => Sent(x)') /\ (On(done, x) => On(done, x)')
      BY <1>7 DEF InPool, Sending, Sent, On, vars, senders, sendVars
    <2>3. KeptInv'
      BY <1>7, <2>2, SendKept DEF IInv, vars, ringVars, loopVars
    <2> QED
      BY <1>7, <2>1, <2>3 DEF IInv, WorkInv, vars, loopVars, senders
  <1> QED
    BY <1>1, <1>2, <1>3, <1>4, <1>5, <1>6, <1>7 DEF Next

\* The inductive invariant holds in every reachable state.
THEOREM AlwaysIInv == Spec => []IInv
  BY InitIInv, NextIInv, PTL DEF Spec

\* Every variable has its type, and neither a receive ring, a burst nor the transmit
\* ring ever holds more than it has room for.
THEOREM MbufsTypeCorrect == Spec => []MbufsTypeOK
  <1>1. IInv => MbufsTypeOK
    BY DEF IInv
  <1> QED
    BY <1>1, AlwaysIInv, PTL

\* A buffer that is nowhere was left by a continue or put into a full pool: no
\* interleaving of senders, loops and driver loses one otherwise.
THEOREM LeaksCorrect == Spec => []LeaksOnlyFiltered
  <1>1. IInv => LeaksOnlyFiltered
    <2> SUFFICES ASSUME IInv, NEW b \in Bufs, Nowhere(b) PROVE b \in lost
      BY DEF LeaksOnlyFiltered
    <2>1. ~InPool(b)
      BY DEF Nowhere
    <2>2. ~Sending(b)
      BY DEF Nowhere, BeingSent, Sending
    <2>3. ~Sent(b)
      BY DEF Nowhere, InFlight, Sent
    <2>4. ~On(done, b)
      BY DEF Nowhere, In, On
    <2>5. \A k \in Slaves : ~OnCore(k, b)
      BY DEF Nowhere, In, On, OnCore
    <2> QED
      BY <2>1, <2>2, <2>3, <2>4, <2>5 DEF IInv, KeptInv
  <1> QED
    BY <1>1, AlwaysIInv, PTL

=============================================================================
