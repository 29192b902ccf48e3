--------------------------- MODULE ControlProofs ---------------------------
(***************************************************************************)
(* Proofs about Control: its types, the bound of the line buffer among     *)
(* them, that main() leaves no poll loop behind, that lines are run as     *)
(* they were typed and that it implements Panel, for any number of cores   *)
(* and clients, any lines and any sizes of the buffers.                    *)
(***************************************************************************)
EXTENDS Control, SequenceTheorems, TLAPS

\* The bytes that were read and not handled yet are bytes that have arrived.
PanelInv ==
  /\ sent \in [Clients -> Nat] /\ taken \in [Clients -> Nat]
  /\ at \in {"data", "bytes", "control"} => cur \in [fd : Clients, ctl : BOOLEAN]
  /\ at = "bytes" => taken[cur.fd] + left <= sent[cur.fd]

\* A core that does not poll was told to stop, and may not be launched again.
StopInv ==
  /\ \A k \in Cores : lcore[k] # "RUNNING" => dp_quit[k]
  /\ at = "exited" => \A k \in Cores : lcore[k] = "WAIT"

IInv == ControlTypeOK /\ PanelInv /\ StopInv

-----------------------------------------------------------------------------

\* What the session says of the input.
LEMMA InputType ==
  ASSUME ControlTypeOK
  PROVE  /\ Input \in [Clients -> Seq(Byte)]
         /\ \A c \in Clients : Len(Input[c]) \in Nat
         /\ \A c \in Clients, i \in Nat : 0 < i /\ i <= Len(Input[c]) => Input[c][i] \in Byte
  BY ControlAssumption DEF ControlTypeOK, Session, Input

\* The byte the loop is at.
LEMMA ByteType ==
  ASSUME IInv, at = "bytes", left > 0
  PROVE  /\ NextByte \in Byte
         /\ NextByte.line \in Lines
         /\ taken[cur.fd] + 1 <= sent[cur.fd]
  <1>1. /\ cur.fd \in Clients /\ left \in Nat
        /\ taken[cur.fd] \in Nat /\ sent[cur.fd] \in Nat
        /\ taken[cur.fd] + left <= sent[cur.fd]
        /\ sent[cur.fd] <= Len(Input[cur.fd])
    BY ControlAssumption DEF IInv, PanelInv, ControlTypeOK
  <1>2. NextByte \in Byte
    BY <1>1, InputType DEF NextByte, IInv
  <1> QED
    BY <1>1, <1>2 DEF Byte

\* It holds when config_init has launched the loops.
THEOREM InitIInv == Init => IInv
  <1> SUFFICES ASSUME Init PROVE IInv
    OBVIOUS
  <1>1. \A c \in Clients : Len(Input[c]) \in Nat
    BY ControlAssumption DEF Init, Session, Input
  <1>2. /\ msg_in \in Seq(Byte) /\ Len(msg_in) <= MaxLen
        /\ cur \in [fd : Clients, ctl : BOOLEAN] \cup {None}
        /\ session \in Sessions /\ left \in 0 .. BufSize /\ handler \in 0 .. NumCores
    BY ControlAssumption DEF Init
  <1>3. /\ \A c \in Clients : taken[c] <= sent[c] /\ sent[c] <= Len(Input[c])
        /\ sent \in [Clients -> Nat] /\ taken \in [Clients -> Nat]
    BY <1>1 DEF Init
  <1> QED
    BY <1>2, <1>3 DEF Init, IInv, ControlTypeOK, PanelInv, StopInv

-----------------------------------------------------------------------------
(* One lemma for each action: it keeps the invariant. *)

LEMMA ConnInitStep ==
  ASSUME IInv, ConnInit, UNCHANGED session PROVE IInv'
  BY DEF IInv, ControlTypeOK, PanelInv, StopInv, Input, ConnInit,
        panelVars, processVars, clientVars

LEMMA InstallHandlersStep ==
  ASSUME IInv, InstallHandlers, UNCHANGED session PROVE IInv'
  BY DEF IInv, ControlTypeOK, PanelInv, StopInv, Input, InstallHandlers,
        panelVars, processVars, clientVars

LEMMA AcceptNothingStep ==
  ASSUME IInv, AcceptNothing, UNCHANGED session PROVE IInv'
  BY DEF IInv, ControlTypeOK, PanelInv, StopInv, Input, AcceptNothing,
        panelVars, processVars, clientVars

LEMMA AcceptStep ==
  ASSUME IInv, NEW c \in Clients, Accept(c), UNCHANGED session PROVE IInv'
  <1>1. /\ at' \in {"msg", "killed"} /\ ran' = {}
        /\ UNCHANGED <<panelVars, processVars, sent, taken, hung, done, refused>>
    BY DEF Accept
  <1>2. fd' \in [Clients -> {"none", "backlog", "open", "closed"}]
    BY DEF Accept, IInv, ControlTypeOK
  <1>3. Input' = Input
    BY DEF Input
  <1>4. ControlTypeOK'
    BY <1>1, <1>2, <1>3 DEF IInv, ControlTypeOK, panelVars, processVars
  <1> QED
    BY <1>1, <1>4 DEF IInv, PanelInv, StopInv, panelVars, processVars

LEMMA NoEventStep ==
  ASSUME IInv, NoEvent, UNCHANGED session PROVE IInv'
  BY DEF IInv, ControlTypeOK, PanelInv, StopInv, Input, NoEvent, NextTurn,
        panelVars, processVars, clientVars

LEMMA TakeEventStep ==
  ASSUME IInv, NEW c \in Clients, TakeEvent(c), UNCHANGED session PROVE IInv'
  BY DEF IInv, ControlTypeOK, PanelInv, StopInv, Input, TakeEvent,
        panelVars, processVars, clientVars

LEMMA PromptStep ==
  ASSUME IInv, Prompt, UNCHANGED session PROVE IInv'
  BY DEF IInv, ControlTypeOK, PanelInv, StopInv, Input, Prompt, CanKill,
        panelVars, processVars, clientVars

LEMMA ControlEventsStep ==
  ASSUME IInv, ControlEvents, UNCHANGED session PROVE IInv'
  BY DEF IInv, ControlTypeOK, PanelInv, StopInv, Input, ControlEvents, Deregister, NextTurn,
        panelVars, processVars, clientVars

LEMMA WaitLcoresStep ==
  ASSUME IInv, WaitLcores, UNCHANGED session PROVE IInv'
  BY DEF IInv, ControlTypeOK, PanelInv, StopInv, Input, WaitLcores,
        panelVars, processVars, clientVars

LEMMA CoreStopsStep ==
  ASSUME IInv, NEW k \in Cores, CoreStops(k), UNCHANGED session PROVE IInv'
  BY DEF IInv, ControlTypeOK, PanelInv, StopInv, Input, CoreStops,
        panelVars, processVars, clientVars

LEMMA SignalStep ==
  ASSUME IInv, Signal, UNCHANGED session PROVE IInv'
  <1> DEFINE Kept == UNCHANGED <<panelVars, clientVars, ran, done, refused, dp_quit, lcore>>
  <1>1. Kept /\ at' \in {at, "killed"} /\ cp_quit' \in BOOLEAN /\ handler' \in 0 .. NumCores
    <2>1. CASE UNCHANGED processVars /\ at' = "killed"
      BY <2>1 DEF Signal, IInv, ControlTypeOK, processVars
    <2>2. CASE cp_quit' = TRUE /\ handler' = 1 /\ UNCHANGED <<at, dp_quit, lcore>>
      BY <2>2, ControlAssumption DEF Signal
    <2> QED
      BY <2>1, <2>2 DEF Signal
  <1>2. Input' = Input
    BY DEF Input
  <1>3. ControlTypeOK'
    BY <1>1, <1>2 DEF IInv, ControlTypeOK, panelVars, clientVars
  <1> QED
    BY <1>1, <1>3 DEF IInv, PanelInv, StopInv, panelVars, clientVars

LEMMA HandlerStepStep ==
  ASSUME IInv, HandlerStep, UNCHANGED session PROVE IInv'
  <1>1. /\ handler # 0 /\ handler \in 0 .. NumCores /\ at # "exited"
        /\ dp_quit \in [Cores -> BOOLEAN]
        /\ dp_quit' = [dp_quit EXCEPT ![handler] = TRUE]
        /\ handler' = HandlerNext
        /\ UNCHANGED <<at, panelVars, cp_quit, lcore, clientVars, ran, done, refused, session>>
    BY DEF HandlerStep, Ended, IInv, ControlTypeOK
  <1>2. handler' \in 0 .. NumCores
    BY <1>1, ControlAssumption DEF HandlerNext
  <1>3. dp_quit' \in [Cores -> BOOLEAN] /\ \A k \in Cores : dp_quit[k] => dp_quit'[k]
    BY <1>1
  <1>4. ControlTypeOK'
    BY <1>1, <1>2, <1>3 DEF IInv, ControlTypeOK, Input, panelVars, clientVars
  <1>5. PanelInv'
    BY <1>1 DEF IInv, PanelInv, panelVars, clientVars
  <1>6. StopInv'
    BY <1>1, <1>3 DEF IInv, StopInv
  <1> QED
    BY <1>4, <1>5, <1>6 DEF IInv

LEMMA ConnectStep ==
  ASSUME IInv, NEW c \in Clients, Connect(c), UNCHANGED session PROVE IInv'
  BY DEF IInv, ControlTypeOK, PanelInv, StopInv, Input, Connect,
        panelVars, processVars, clientVars

LEMMA ArriveStep ==
  ASSUME IInv, NEW c \in Clients, Arrive(c), UNCHANGED session PROVE IInv'
  <1>1. PICK n \in (sent[c] + 1) .. Len(Input[c]) : sent' = [sent EXCEPT ![c] = n]
    BY DEF Arrive
  <1>2. /\ UNCHANGED <<session, at, panelVars, processVars, fd, taken, hung, ran, done, refused>>
        /\ Input' = Input
    BY DEF Arrive, Input
  <1>3. /\ sent \in [Clients -> Nat] /\ taken \in [Clients -> Nat]
        /\ \A d \in Clients : taken[d] <= sent[d] /\ sent[d] <= Len(Input[d]) /\ Len(Input[d]) \in Nat
    BY InputType DEF IInv, PanelInv, ControlTypeOK
  <1>4. /\ sent' \in [Clients -> Nat]
        /\ \A d \in Clients : sent[d] <= sent'[d] /\ sent'[d] <= Len(Input[d])
    BY <1>1, <1>3
  <1>5. ControlTypeOK'
    BY <1>2, <1>3, <1>4 DEF IInv, ControlTypeOK, panelVars, processVars
  <1>6. PanelInv'
    <2>1. ASSUME at = "bytes" PROVE taken[cur.fd] + left <= sent'[cur.fd]
      <3>1. /\ cur.fd \in Clients /\ left \in Nat /\ taken[cur.fd] + left <= sent[cur.fd]
        BY <2>1, ControlAssumption DEF IInv, PanelInv, ControlTypeOK
      <3> QED
        BY <3>1, <1>3, <1>4
    <2> QED
      BY <1>2, <1>3, <1>4, <2>1 DEF IInv, PanelInv, panelVars
  <1> QED
    BY <1>2, <1>5, <1>6 DEF IInv, StopInv, processVars

LEMMA HangupStep ==
  ASSUME IInv, NEW c \in Clients, Hangup(c), UNCHANGED session PROVE IInv'
  BY DEF IInv, ControlTypeOK, PanelInv, StopInv, Input, Hangup,
        panelVars, processVars, clientVars

LEMMA ReadStep ==
  ASSUME IInv, Read, UNCHANGED session PROVE IInv'
  <1> DEFINE waiting == sent[cur.fd] - taken[cur.fd]
  <1>1. /\ cur.fd \in Clients
        /\ sent[cur.fd] \in Nat /\ taken[cur.fd] \in Nat /\ taken[cur.fd] <= sent[cur.fd]
    BY DEF IInv, PanelInv, ControlTypeOK, Read
  <1>2. /\ left' \in 0 .. BufSize
        /\ at' \in {"control", "bytes"}
        /\ taken[cur.fd] + left' <= sent[cur.fd]
        /\ UNCHANGED <<cur, msg_in, processVars, clientVars, ran, done, refused>>
    BY <1>1, ControlAssumption DEF Read, Smaller
  <1>3. Input' = Input
    BY DEF Input
  <1>4. ControlTypeOK'
    BY <1>2, <1>3 DEF IInv, ControlTypeOK, processVars, clientVars
  <1> QED
    BY <1>2, <1>4 DEF IInv, PanelInv, StopInv, processVars, clientVars, Read

\* The three ways the loop body ends.
LEMMA ByteHandled ==
  ASSUME IInv, at = "bytes", left > 0, NEW m \in Seq(Byte), Len(m) <= MaxLen,
         GoOn(m) \/ GiveUp \/ Die,
         UNCHANGED <<session, cur, sent>>
  PROVE  /\ PanelInv'
         /\ at' \in {"bytes", "control", "killed"}
         /\ left' \in 0 .. BufSize
         /\ msg_in' \in Seq(Byte) /\ Len(msg_in') <= MaxLen
         /\ \A c \in Clients : taken'[c] <= sent'[c] /\ sent'[c] <= Len(Input'[c])
  <1>1. /\ cur \in [fd : Clients, ctl : BOOLEAN] /\ cur.fd \in Clients
        /\ sent \in [Clients -> Nat] /\ taken \in [Clients -> Nat]
        /\ taken[cur.fd] + left <= sent[cur.fd]
        /\ left \in 0 .. BufSize
        /\ msg_in \in Seq(Byte) /\ Len(msg_in) <= MaxLen
        /\ \A c \in Clients : taken[c] <= sent[c] /\ sent[c] <= Len(Input[c])
    BY DEF IInv, PanelInv, ControlTypeOK
  <1>2. Input' = Input
    BY DEF Input
  <1>3. CASE GoOn(m)
    <2>1. left' = left - 1 /\ taken' = [taken EXCEPT ![cur.fd] = taken[cur.fd] + 1]
          /\ msg_in' = m /\ at' = at
      BY <1>3 DEF GoOn
    <2>2. taken' \in [Clients -> Nat] /\ taken'[cur.fd] + left' <= sent[cur.fd]
          /\ left' \in 0 .. BufSize
      BY <1>1, <2>1, ControlAssumption
    <2>3. \A c \in Clients : taken'[c] <= sent[c]
      BY <1>1, <2>1, <2>2
    <2> QED
      BY <1>1, <1>2, <2>1, <2>2, <2>3 DEF PanelInv
  <1>4. CASE GiveUp
    <2>1. left' = 0 /\ taken' = [taken EXCEPT ![cur.fd] = taken[cur.fd] + left]
          /\ msg_in' = msg_in /\ at' = "control"
      BY <1>4 DEF GiveUp
    <2>2. taken' \in [Clients -> Nat] /\ left' \in 0 .. BufSize
      BY <1>1, <2>1, ControlAssumption
    <2>3. \A c \in Clients : taken'[c] <= sent[c]
      BY <1>1, <2>1, <2>2
    <2> QED
      BY <1>1, <1>2, <2>1, <2>2, <2>3 DEF PanelInv
  <1>5. CASE Die
    BY <1>1, <1>2, <1>5 DEF Die, PanelInv
  <1> QED
    BY <1>3, <1>4, <1>5

\* The buffer is within its bound when it is emptied.
LEMMA EmptyText == <<>> \in Seq(Byte) /\ Len(<<>>) <= MaxLen
  BY ControlAssumption

\* A write leaves the loop body in one of the three ways.
LEMMA WriteEnds == ASSUME AfterWrite PROVE GoOn(<<>>) \/ GiveUp \/ Die
  BY DEF AfterWrite

LEMMA StoreByteStep ==
  ASSUME IInv, StoreByte, UNCHANGED session PROVE IInv'
  <1> DEFINE m == Append(msg_in, NextByte)
  <1>1. m \in Seq(Byte) /\ Len(m) <= MaxLen
    BY ByteType, ControlAssumption DEF StoreByte, HasRoom, IInv, ControlTypeOK
  <1>2. /\ at = "bytes" /\ left > 0 /\ GoOn(m) /\ ran' = {}
        /\ UNCHANGED <<cur, processVars, fd, sent, hung, done, refused>>
    BY DEF StoreByte
  <1>3. /\ PanelInv' /\ at' \in {"bytes", "control", "killed"} /\ left' \in 0 .. BufSize
        /\ msg_in' \in Seq(Byte) /\ Len(msg_in') <= MaxLen
        /\ \A c \in Clients : taken'[c] <= sent'[c] /\ sent'[c] <= Len(Input'[c])
    BY <1>1, <1>2, ByteHandled
  <1>4. ControlTypeOK'
    BY <1>2, <1>3 DEF IInv, ControlTypeOK, processVars
  <1> QED
    BY <1>2, <1>3, <1>4 DEF IInv, StopInv, processVars

LEMMA TooLongStep ==
  ASSUME IInv, TooLong, UNCHANGED session PROVE IInv'
  <1>2. /\ at = "bytes" /\ left > 0 /\ (GoOn(<<>>) \/ GiveUp \/ Die) /\ ran' = {}
        /\ refused' = refused \cup {NextByte.line}
        /\ UNCHANGED <<cur, processVars, fd, sent, hung, done>>
    BY WriteEnds DEF TooLong
  <1>3. /\ PanelInv' /\ at' \in {"bytes", "control", "killed"} /\ left' \in 0 .. BufSize
        /\ msg_in' \in Seq(Byte) /\ Len(msg_in') <= MaxLen
        /\ \A c \in Clients : taken'[c] <= sent'[c] /\ sent'[c] <= Len(Input'[c])
    BY <1>2, EmptyText, ByteHandled
  <1>4. ControlTypeOK'
    BY <1>2, <1>3, ByteType DEF IInv, ControlTypeOK, processVars
  <1> QED
    BY <1>2, <1>3, <1>4 DEF IInv, StopInv, processVars

LEMMA RunLineStep ==
  ASSUME IInv, RunLine, UNCHANGED session PROVE IInv'
  <1>1. /\ at = "bytes" /\ left > 0
        /\ ran' = {[text |-> msg_in, line |-> NextByte.line]}
        /\ done' = done \cup Reads(msg_in)
        /\ UNCHANGED <<cur, fd, sent, hung, refused>>
        /\ GoOn(<<>>) \/ GiveUp \/ Die
        /\ UNCHANGED processVars \/ Launch \/ Quit
    BY WriteEnds DEF RunLine
  <1>2. /\ PanelInv' /\ at' \in {"bytes", "control", "killed"} /\ left' \in 0 .. BufSize
        /\ msg_in' \in Seq(Byte) /\ Len(msg_in') <= MaxLen
        /\ \A c \in Clients : taken'[c] <= sent'[c] /\ sent'[c] <= Len(Input'[c])
    BY <1>1, EmptyText, ByteHandled
  <1>3. /\ cp_quit' \in BOOLEAN /\ dp_quit' \in [Cores -> BOOLEAN]
        /\ lcore' \in [Cores -> {"WAIT", "RUNNING", "FINISHED"}]
        /\ handler' = handler
    BY <1>1 DEF IInv, ControlTypeOK, processVars, Launch, Quit
  <1>4. \A k \in Cores : lcore'[k] # "RUNNING" => dp_quit'[k]
    BY <1>1 DEF IInv, ControlTypeOK, StopInv, processVars, Launch, Quit
  <1>5. Reads(msg_in) \subseteq Lines
    BY DEF Reads
  <1>6. \A r \in ran' : r.text \in Seq(Byte) /\ r.line \in Lines
    BY <1>1, ByteType DEF IInv, ControlTypeOK
  <1>7. ControlTypeOK'
    BY <1>1, <1>2, <1>3, <1>5, <1>6 DEF IInv, ControlTypeOK
  <1> QED
    BY <1>2, <1>4, <1>7 DEF IInv, StopInv

-----------------------------------------------------------------------------

\* Each action keeps the invariant.
THEOREM NextIInv == IInv /\ [Next]_<<session, vars>> => IInv'
  <1> SUFFICES ASSUME IInv, [Next]_<<session, vars>> PROVE IInv'
    OBVIOUS
  <1>1. CASE UNCHANGED <<session, vars>>
    BY <1>1 DEF IInv, ControlTypeOK, PanelInv, StopInv, Input, vars
  <1>2. CASE Main /\ UNCHANGED session
    BY <1>2, ConnInitStep, InstallHandlersStep, AcceptNothingStep, AcceptStep, NoEventStep,
       TakeEventStep, ReadStep, StoreByteStep, TooLongStep, RunLineStep, PromptStep,
       ControlEventsStep, WaitLcoresStep
    DEF Main
  <1>3. CASE Step /\ ~Main /\ UNCHANGED session
    BY <1>3, CoreStopsStep, SignalStep, HandlerStepStep, ConnectStep, ArriveStep, HangupStep
    DEF Step
  <1> QED
    BY <1>1, <1>2, <1>3 DEF Next

\* Hence it always holds.
THEOREM AlwaysIInv == Spec => []IInv
  <1>1. Init => IInv
    BY InitIInv
  <1>2. IInv /\ [Next]_<<session, vars>> => IInv'
    BY NextIInv
  <1> QED
    BY <1>1, <1>2, PTL DEF Spec

\* The line buffer is never longer than msg_in_len_max, no read hands out more bytes
\* than have arrived, and every variable keeps its type.
THEOREM ControlTypeCorrect == Spec => []ControlTypeOK
  <1>1. IInv => ControlTypeOK
    BY DEF IInv
  <1> QED
    BY <1>1, AlwaysIInv, PTL

\* main() returns with all cores stopped: whatever commands, signals and slaves do,
\* a core that was launched again would still poll, and has been told to stop.
THEOREM StopsCorrect == Spec => []StopsCleanly
  <1>1. IInv => StopsCleanly
    BY DEF IInv, StopInv, StopsCleanly
  <1> QED
    BY <1>1, AlwaysIInv, PTL
-----------------------------------------------------------------------------
(***************************************************************************)
(* Calm clients: the buffer holds the beginning of one line, and of        *)
(* several clients nothing is left in it when main() turns to another.     *)
(***************************************************************************)

\* The first i bytes of client c are whole lines.
Ends(c, i) == i = 0 \/ (i \in 1 .. Len(Input[c]) /\ Input[c][i].newline)

\* The number of the byte before the line of c that is being collected.
Began(c) == taken[c] - Len(msg_in)

\* The buffer holds what c has typed since its last newline.
Collected(c) ==
  /\ Began(c) \in Nat /\ Ends(c, Began(c))
  /\ \A i \in 1 .. Len(msg_in) : msg_in[i] = Input[c][Began(c) + i] /\ ~msg_in[i].newline

\* Only those clients connect that the session names, and nothing is run before
\* the loop of main().
GuestInv ==
  /\ \A c \in Clients : fd[c] # "none" => c \in session.clients
  /\ at \in {"data", "bytes", "control"} => cur.fd \in session.clients
  /\ at \in {"boot", "signals"} => ran = {}

\* A single client: the buffer is its own all the time.
AloneInv == at # "killed" => \A c \in session.clients \cap Clients : Collected(c)

\* Several: what has arrived and what was handled ends with a line, but for the
\* client at work, of which all that was read ends with one.
WholeInv ==
  /\ \A c \in Clients : Ends(c, sent[c])
  /\ at # "killed" => \A c \in Clients : (at = "bytes" /\ c = cur.fd) \/ Ends(c, taken[c])
  /\ at \notin {"bytes", "killed"} => msg_in = <<>>
  /\ at = "bytes" => /\ left + taken[cur.fd] # 0 /\ Ends(cur.fd, taken[cur.fd] + left)
                     /\ Collected(cur.fd)

CalmInv == GuestInv /\ (Calm => (Alone => AloneInv) /\ (Whole => WholeInv))

LEMMA InTheLoop ==
  ASSUME IInv, CalmInv, Calm, at = "bytes"
  PROVE  Collected(cur.fd)
  <1>1. cur.fd \in session.clients \cap Clients
    BY DEF IInv, PanelInv, CalmInv, GuestInv
  <1>2. CASE Alone
    BY <1>1, <1>2 DEF CalmInv, AloneInv
  <1>3. CASE Whole
    BY <1>3 DEF CalmInv, WholeInv
  <1> QED
    BY <1>2, <1>3 DEF Calm

\* What a session says does not change.
LEMMA SameSession ==
  ASSUME UNCHANGED session
  PROVE  /\ Input' = Input /\ (Calm' <=> Calm) /\ (Alone' <=> Alone) /\ (Whole' <=> Whole)
         /\ (LinesFit' <=> LinesFit)
         /\ \A c, i : Ends(c, i)' <=> Ends(c, i)
  <1>1. /\ Input' = Input /\ (Calm' <=> Calm) /\ (Alone' <=> Alone) /\ (Whole' <=> Whole)
        /\ (LinesFit' <=> LinesFit)
    BY DEF Calm, LinesFit, ReadsFit, Alone, Whole, Input, IsRow, LinesOf
  <1>2. \A c, i : Ends(c, i)' <=> Ends(c, i)
    BY DEF Ends, Input
  <1> QED
    BY <1>1, <1>2

LEMMA CollectedKept ==
  ASSUME NEW c, Collected(c), UNCHANGED <<session, taken, msg_in>>
  PROVE  Collected(c)'
  <1>1. Began(c)' = Began(c) /\ Input' = Input
    BY DEF Began, Input
  <1> QED
    BY <1>1 DEF Collected, Ends

\* The byte the loop is at and the row it is of.
LEMMA RowFacts ==
  ASSUME IInv, Collected(cur.fd), LinesFit, at = "bytes", left > 0
  PROVE  \E n \in Nat :
           /\ IsRow(cur.fd, NextByte.line, Began(cur.fd) + 1, n)
           /\ taken[cur.fd] + 1 <= n /\ n - (Began(cur.fd) + 1) <= MaxLen
           /\ n \in 1 .. Len(Input[cur.fd])
           /\ NextByte.newline <=> n = taken[cur.fd] + 1
  <1> DEFINE c == cur.fd
             t == taken[cur.fd]
             b == Began(cur.fd)
             s == Input[c]
             l == NextByte.line
  <1>1. /\ c \in Clients /\ t \in Nat /\ left \in Nat /\ sent[c] \in Nat /\ Len(s) \in Nat
        /\ t + left <= sent[c] /\ sent[c] <= Len(s) /\ Len(msg_in) \in Nat
    BY InputType, ControlAssumption DEF IInv, PanelInv, ControlTypeOK
  <1>2. /\ b \in Nat /\ Ends(c, b) /\ t = b + Len(msg_in)
        /\ \A i \in 1 .. Len(msg_in) : ~s[b + i].newline
    <2>1. /\ Began(cur.fd) \in Nat /\ Ends(cur.fd, Began(cur.fd))
          /\ \A i \in 1 .. Len(msg_in) :
               msg_in[i] = Input[cur.fd][Began(cur.fd) + i] /\ ~msg_in[i].newline
      BY DEF Collected
    <2>2. taken[cur.fd] = Began(cur.fd) + Len(msg_in)
      BY <1>1, <2>1 DEF Began
    <2>3. \A i \in 1 .. Len(msg_in) : ~Input[cur.fd][Began(cur.fd) + i].newline
      BY <2>1
    <2> QED
      BY <2>1, <2>2, <2>3
  <1>3. t + 1 \in 1 .. Len(s) /\ s[t + 1] = NextByte
    <2>1. s[t + 1] = NextByte
      BY DEF NextByte
    <2> HIDE DEF c, t, s
    <2>2. t + 1 \in 1 .. Len(s)
      BY <1>1
    <2> QED
      BY <2>1, <2>2
  <1> HIDE DEF c, t, b, s, l
  <1>4. l \in LinesOf(c)
    BY <1>3 DEF LinesOf, s, l
  <1>5. PICK n \in 1 .. Len(s) : \E m \in 1 .. n : IsRow(c, l, m, n) /\ n - m <= MaxLen
    BY <1>1, <1>4 DEF LinesFit, s
  <1>6. PICK m \in 1 .. n : IsRow(c, l, m, n) /\ n - m <= MaxLen
    BY <1>5
  <1>7. /\ \A i \in 1 .. Len(s) : /\ s[i].line = l <=> i \in m .. n
                                  /\ i \in m .. n => (s[i].newline <=> i = n)
        /\ s[n].newline
    BY <1>6 DEF IsRow, s
  <1>8. t + 1 \in m .. n
    BY <1>3, <1>7 DEF l
  \* Between the last newline and the byte there is none: the row begins there.
  <1>9. b < m
    <2>1. ASSUME b >= m PROVE FALSE
      <3>1. b \in 1 .. Len(s) /\ s[b].newline /\ b \in m .. n /\ b # n
        BY <1>1, <1>2, <1>3, <1>5, <1>6, <1>8, <2>1 DEF Ends, s
      <3> QED
        BY <1>7, <3>1
    <2> QED
      BY <1>2, <1>6, <2>1
  <1>10. m = b + 1
    <2>1. ASSUME b + 1 < m PROVE FALSE
      <3>1. m - 1 \in 1 .. Len(s) /\ m - 1 \in (b + 1) .. t
        BY <1>1, <1>2, <1>3, <1>6, <1>8, <2>1
      <3>2. ~s[m - 1].newline
        <4>1. m - 1 - b \in 1 .. Len(msg_in) /\ b + (m - 1 - b) = m - 1
          BY <1>1, <1>2, <1>6, <3>1
        <4> QED
          BY <1>2, <4>1
      \* The byte before belongs to a row too, which would go on into this one.
      <3>3. s[m - 1].line \in LinesOf(c)
        BY <3>1 DEF LinesOf, s
      <3>4. PICK q \in 1 .. Len(s) : \E p \in 1 .. q : IsRow(c, s[m - 1].line, p, q)
        BY <1>1, <3>3 DEF LinesFit, s
      <3>5. PICK p \in 1 .. q : IsRow(c, s[m - 1].line, p, q)
        BY <3>4
      <3>6. \A i \in 1 .. Len(s) : /\ s[i].line = s[m - 1].line <=> i \in p .. q
                                   /\ i \in p .. q => (s[i].newline <=> i = q)
        BY <3>5 DEF IsRow, s
      <3>7. m - 1 \in p .. q /\ m - 1 # q
        BY <3>1, <3>2, <3>6
      <3>8. m \in p .. q /\ m \in 1 .. Len(s)
        BY <1>5, <1>6, <3>4, <3>5, <3>7
      <3>9. s[m].line = s[m - 1].line
        BY <3>6, <3>8
      <3>10. s[m].line = l
        BY <1>6, <1>7, <3>8
      <3>11. m - 1 \in m .. n
        BY <1>7, <3>1, <3>9, <3>10
      <3> QED
        BY <1>6, <3>11
    <2> QED
      BY <1>2, <1>6, <1>9, <2>1
  <1>11. NextByte.newline <=> n = t + 1
    BY <1>3, <1>7, <1>8
  <1>12. /\ n \in Nat /\ n \in 1 .. Len(s) /\ IsRow(c, l, b + 1, n)
         /\ t + 1 <= n /\ n - (b + 1) <= MaxLen
    BY <1>1, <1>5, <1>6, <1>8, <1>10
  <1> QED
    BY <1>11, <1>12 DEF c, t, b, s, l

\* A byte is handled: what is collected then is m, of which the last is that byte,
\* or nothing when the byte ends a row.
Handles(m) == /\ GoOn(m)
              /\ \/ m = <<>> /\ NextByte.newline
                 \/ m = Append(msg_in, NextByte) /\ ~NextByte.newline

LEMMA ByteCollected ==
  ASSUME IInv, Collected(cur.fd), at = "bytes", left > 0, UNCHANGED <<session, cur>>,
         NEW m \in Seq(Byte), Handles(m)
  PROVE  /\ Collected(cur.fd)' /\ msg_in' = m /\ left' = left - 1 /\ at' = "bytes"
         /\ taken' = [taken EXCEPT ![cur.fd] = taken[cur.fd] + 1]
         /\ Began(cur.fd)' = (taken[cur.fd] + 1) - Len(m)
  <1> DEFINE c == cur.fd
             t == taken[cur.fd]
             b == Began(cur.fd)
             s == Input[cur.fd]
  <1>1. /\ c \in Clients /\ t \in Nat /\ Len(s) \in Nat /\ t + 1 \in 1 .. Len(s)
        /\ msg_in \in Seq(Byte) /\ Len(msg_in) \in Nat /\ taken \in [Clients -> Nat]
    <2>1. /\ sent \in [Clients -> Nat] /\ taken \in [Clients -> Nat] /\ c \in Clients
          /\ sent[c] <= Len(Input[c]) /\ msg_in \in Seq(Byte)
      BY DEF IInv, PanelInv, ControlTypeOK
    <2>2. t + 1 <= sent[c]
      BY ByteType
    <2>3. Len(Input[c]) \in Nat
      BY <2>1, InputType DEF IInv
    <2> HIDE DEF c
    <2> QED
      BY <2>1, <2>2, <2>3 DEF c
  <1>2. /\ msg_in' = m /\ left' = left - 1 /\ at' = "bytes" /\ cur' = cur
        /\ taken' = [taken EXCEPT ![c] = t + 1]
    BY DEF GoOn, Handles
  <1>3. taken'[c] = t + 1
    BY <1>1, <1>2
  <1>4. /\ b \in Nat /\ Ends(c, b) /\ t = b + Len(msg_in) /\ s[t + 1] = NextByte
        /\ \A i \in 1 .. Len(msg_in) : msg_in[i] = s[b + i] /\ ~msg_in[i].newline
    <2>1. /\ b \in Nat /\ Ends(c, b)
          /\ \A i \in 1 .. Len(msg_in) : msg_in[i] = s[b + i] /\ ~msg_in[i].newline
      BY DEF Collected
    <2>2. s[t + 1] = NextByte
      BY DEF NextByte
    <2>3. b = t - Len(msg_in)
      BY DEF Began
    <2> HIDE DEF b, t
    <2>4. t = b + Len(msg_in)
      BY <1>1, <2>1, <2>3
    <2> QED
      BY <2>1, <2>2, <2>4
  <1>5. Began(cur.fd)' = (t + 1) - Len(m)
    <2>1. Began(cur.fd)' = taken'[cur'.fd] - Len(msg_in')
      BY DEF Began
    <2> QED
      BY <1>2, <1>3, <2>1
  <1> HIDE DEF c, t, b, s
  <1>6. PICK e : e = (t + 1) - Len(m)
    OBVIOUS
  <1>7. /\ e \in Nat /\ Ends(c, e)
        /\ \A i \in 1 .. Len(m) : m[i] = s[e + i] /\ ~m[i].newline
    <2>2. CASE m = <<>> /\ NextByte.newline
      <3>1. e = t + 1 /\ Len(m) = 0
        BY <1>1, <1>6, <2>2
      <3> QED
        BY <1>1, <1>4, <2>2, <3>1 DEF Ends, s, c
    <2>3. CASE m = Append(msg_in, NextByte) /\ ~NextByte.newline
      <3>1. /\ Len(m) = Len(msg_in) + 1 /\ m[Len(msg_in) + 1] = NextByte
            /\ \A i \in 1 .. Len(msg_in) : m[i] = msg_in[i]
        BY <1>1, <2>3, ByteType
      <3>2. e = b /\ b + (Len(msg_in) + 1) = t + 1
        BY <1>1, <1>4, <1>6, <3>1
      <3>3. \A i \in 1 .. Len(m) : i \in 1 .. Len(msg_in) \/ i = Len(msg_in) + 1
        BY <1>1, <3>1
      <3>4. \A i \in 1 .. Len(m) : m[i] = s[b + i] /\ ~m[i].newline
        BY <1>4, <2>3, <3>1, <3>2, <3>3
      <3> QED
        BY <1>4, <3>2, <3>4
    <2> QED
      BY <2>2, <2>3 DEF Handles
  <1>8. Input' = Input /\ \A d, i : Ends(d, i)' <=> Ends(d, i)
    BY SameSession
  <1>9. Collected(cur.fd)'
    <2>1. Began(cur.fd)' = e
      BY <1>5, <1>6
    <2>2. Ends(cur.fd, Began(cur.fd))'
      BY <1>2, <1>7, <1>8, <2>1 DEF Ends, c
    <2> QED
      BY <1>2, <1>7, <1>8, <2>1, <2>2 DEF Collected, s
  <1> QED
    BY <1>2, <1>5, <1>9 DEF c, t

\* What the loop body does with a byte when nothing is too long and no write fails.
LEMMA HandledCalm ==
  ASSUME IInv, CalmInv, Calm, StoreByte \/ TooLong \/ RunLine, UNCHANGED session
  PROVE  /\ at = "bytes" /\ left > 0 /\ UNCHANGED <<cur, sent>> /\ ~TooLong
         /\ \/ Die /\ RunLine
            \/ \E m \in Seq(Byte) : Handles(m)
  <1>1. /\ at = "bytes" /\ left > 0 /\ UNCHANGED <<session, cur, sent>>
        /\ msg_in \in Seq(Byte) /\ NextByte \in Byte
    BY ByteType DEF StoreByte, TooLong, RunLine, IInv, ControlTypeOK
  <1>2. ASSUME TooLong PROVE FALSE
    <2>1. ~NextByte.newline /\ ~(Len(msg_in) < MaxLen)
      BY <1>2 DEF TooLong, HasRoom
    <2>2. PICK n \in Nat : /\ taken[cur.fd] + 1 <= n /\ n - (Began(cur.fd) + 1) <= MaxLen
                           /\ NextByte.newline <=> n = taken[cur.fd] + 1
      BY <1>1, RowFacts, InTheLoop DEF Calm
    <2>3. /\ taken[cur.fd] \in Nat /\ Len(msg_in) \in Nat /\ MaxLen \in Nat
          /\ Began(cur.fd) = taken[cur.fd] - Len(msg_in)
      BY <1>1, ControlAssumption DEF IInv, PanelInv, ControlTypeOK, Began
    <2>4. n # taken[cur.fd] + 1
      BY <2>1, <2>2
    <2> DEFINE b == Began(cur.fd)
               k == Len(msg_in)
               t == taken[cur.fd]
    <2>5. /\ t \in Nat /\ k \in Nat /\ MaxLen \in Nat /\ b = t - k
          /\ n \in Nat /\ t + 1 <= n /\ n - (b + 1) <= MaxLen /\ n # t + 1 /\ ~(k < MaxLen)
      BY <2>1, <2>2, <2>3, <2>4
    <2> HIDE DEF b, k, t
    <2> QED
      BY <2>5
  <1>3. CASE StoreByte
    <2>1. Append(msg_in, NextByte) \in Seq(Byte) /\ Handles(Append(msg_in, NextByte))
      BY <1>1, <1>3 DEF StoreByte, Handles
    <2> QED
      BY <1>1, <1>2, <2>1
  <1>4. CASE RunLine
    <2>1. GoOn(<<>>) \/ Die
      BY <1>4 DEF RunLine, AfterWrite, Calm, CanFail
    <2>2. NextByte.newline /\ <<>> \in Seq(Byte)
      BY <1>4 DEF RunLine
    <2>3. Die \/ Handles(<<>>)
      BY <2>1, <2>2 DEF Handles
    <2> QED
      BY <1>1, <1>2, <1>4, <2>2, <2>3
  <1> QED
    BY <1>2, <1>3, <1>4

-----------------------------------------------------------------------------
(* Each part of the invariant of calm clients is kept. *)

\* What an action of main() or of anybody does to descriptors, place and event.
LEMMA GuestStep ==
  ASSUME IInv, GuestInv, Step, UNCHANGED session
  PROVE  GuestInv'
  <1>1. \A c \in Clients : fd'[c] # "none" => c \in session.clients
    <2>0. fd \in [Clients -> {"none", "backlog", "open", "closed"}]
      BY DEF IInv, ControlTypeOK
    <2>1. ASSUME NEW c \in Clients, Connect(c)
          PROVE  \A d \in Clients : fd'[d] # "none" => d \in session.clients
      BY <2>0, <2>1 DEF Connect, GuestInv
    <2>2. ASSUME NEW c \in Clients, Accept(c)
          PROVE  \A d \in Clients : fd'[d] # "none" => d \in session.clients
      BY <2>0, <2>2 DEF Accept, GuestInv
    <2>3. CASE ControlEvents
      <3>1. cur.fd \in session.clients
        BY <2>3 DEF ControlEvents, GuestInv
      <3> QED
        BY <2>0, <2>3, <3>1 DEF ControlEvents, Deregister, GuestInv
    <2>4. CASE fd' = fd
      BY <2>4 DEF GuestInv
    <2> QED
      BY <2>1, <2>2, <2>3, <2>4
      DEF Step, Main, ConnInit, InstallHandlers, AcceptNothing, NoEvent, TakeEvent, Read,
          StoreByte, TooLong, RunLine, Prompt, WaitLcores, CoreStops, Signal, HandlerStep,
          Arrive, Hangup, clientVars
  <1>2. at' \in {"data", "bytes", "control"} => cur'.fd \in session.clients
    <2>1. ASSUME NEW c \in Clients, TakeEvent(c) PROVE cur'.fd \in session.clients
      BY <2>1 DEF TakeEvent, Readable, GuestInv
    <2>2. CASE cur' = cur /\ (at' \in {"data", "bytes", "control"} => at \in {"data", "bytes", "control"})
      BY <2>2 DEF GuestInv
    <2>3. CASE at' \notin {"data", "bytes", "control"}
      BY <2>3
    <2> QED
      BY <2>1, <2>2, <2>3
      DEF Step, Main, ConnInit, InstallHandlers, AcceptNothing, Accept, NoEvent, NextTurn, Read,
          StoreByte, TooLong, RunLine, GoOn, GiveUp, Die, AfterWrite, Prompt, ControlEvents,
          WaitLcores, CoreStops, Signal, HandlerStep, Connect, Arrive, Hangup, panelVars
  <1>3. at' \in {"boot", "signals"} => ran' = {}
    BY DEF GuestInv, Step, Main, ConnInit, InstallHandlers, AcceptNothing, Accept, NoEvent, NextTurn,
           TakeEvent, Read, StoreByte, TooLong, RunLine, GoOn, GiveUp, Die, AfterWrite, Prompt,
           ControlEvents, WaitLcores, CoreStops, Signal, HandlerStep, Connect, Arrive, Hangup
  <1> QED
    BY <1>1, <1>2, <1>3 DEF GuestInv

\* Actions other than the loop body leave buffer and bytes alone; nothing goes on in
\* a process that was killed.
LEMMA BufferLeft ==
  ASSUME Step, ~(StoreByte \/ TooLong \/ RunLine)
  PROVE  UNCHANGED <<taken, msg_in>>
  BY DEF Step, Main, ConnInit, InstallHandlers, AcceptNothing, Accept, NoEvent, TakeEvent, Read,
         Prompt, ControlEvents, WaitLcores, CoreStops, Signal, HandlerStep,
         Connect, Arrive, Hangup, panelVars, clientVars

LEMMA NotKilled == ASSUME Step PROVE at # "killed"
  BY DEF Step, Main, Ended, ConnInit, InstallHandlers, AcceptNothing, Accept, NoEvent, TakeEvent,
         Read, StoreByte, TooLong, RunLine, Prompt, ControlEvents, WaitLcores, CoreStops, Signal,
         HandlerStep, Connect, Arrive, Hangup

LEMMA AloneStep ==
  ASSUME IInv, CalmInv, Calm, Alone, Step, UNCHANGED session
  PROVE  AloneInv'
  <1>1. \A c \in session.clients \cap Clients : Collected(c)
    BY NotKilled DEF CalmInv, AloneInv
  <1>2. CASE StoreByte \/ TooLong \/ RunLine
    <2>1. CASE Die
      BY <2>1 DEF Die, AloneInv
    <2>2. ASSUME NEW m \in Seq(Byte), Handles(m) PROVE AloneInv'
      <3>1. /\ at = "bytes" /\ left > 0 /\ UNCHANGED <<cur, sent>>
            /\ cur.fd \in session.clients \cap Clients
        BY <1>2, HandledCalm DEF IInv, PanelInv, CalmInv, GuestInv
      <3>2. Collected(cur.fd)'
        BY <1>1, <2>2, <3>1, ByteCollected
      <3>3. \A c \in session.clients : c = cur.fd /\ c = cur'.fd
        BY <3>1 DEF Alone
      <3> QED
        BY <3>2, <3>3 DEF AloneInv
    <2> QED
      BY <1>2, <2>1, <2>2, HandledCalm
  <1>3. CASE ~(StoreByte \/ TooLong \/ RunLine)
    <2>1. \A c \in session.clients \cap Clients : Collected(c)'
      BY <1>1, <1>3, BufferLeft, CollectedKept
    <2> QED
      BY <2>1 DEF AloneInv
  <1> QED
    BY <1>2, <1>3

\* A step that leaves the input and the buffer alone.
LEMMA QuietWhole ==
  ASSUME WholeInv, UNCHANGED <<session, sent, taken, msg_in>>,
         \/ at' = at /\ UNCHANGED <<cur, left>>
         \/ at \notin {"bytes", "killed"} /\ at' # "bytes"
         \/ at' = "killed"
  PROVE  WholeInv'
  <1>1. Input' = Input /\ \A c, i : Ends(c, i)' <=> Ends(c, i)
    BY SameSession
  <1>2. CASE at' = at /\ UNCHANGED <<cur, left>>
    <2>1. at' = "bytes" => Collected(cur.fd)'
      <3>1. ASSUME at' = "bytes" PROVE Collected(cur.fd)'
        <4>1. Collected(cur.fd) /\ Began(cur.fd)' = Began(cur.fd) /\ cur' = cur
          BY <1>2, <3>1 DEF WholeInv, Began
        <4> QED
          BY <1>1, <4>1 DEF Collected, Ends
      <3> QED
        BY <3>1
    <2>2. at' = "bytes" => Ends(cur.fd, taken[cur.fd] + left)'
      BY <1>1, <1>2 DEF WholeInv, Ends
    <2>3. \A c \in Clients : Ends(c, sent[c])' /\ (Ends(c, taken[c])' <=> Ends(c, taken[c]))
      BY <1>1 DEF WholeInv, Ends
    <2> QED
      BY <1>2, <2>1, <2>2, <2>3 DEF WholeInv
  <1>3. CASE at' # "bytes" /\ (at' = "killed" \/ at \notin {"bytes", "killed"})
    <2>1. \A c \in Clients : Ends(c, sent[c])' /\ (Ends(c, taken[c])' <=> Ends(c, taken[c]))
      BY <1>1 DEF WholeInv, Ends
    <2> QED
      BY <1>3, <2>1 DEF WholeInv
  <1> QED
    BY <1>2, <1>3

LEMMA ReadWhole ==
  ASSUME IInv, WholeInv, Calm, Whole, Read, UNCHANGED session
  PROVE  WholeInv'
  <1> DEFINE c == cur.fd
             waiting == sent[cur.fd] - taken[cur.fd]
  <1>1. /\ c \in Clients /\ sent[c] \in Nat /\ taken[c] \in Nat /\ taken[c] <= sent[c]
        /\ sent[c] <= Len(Input[c]) /\ Len(Input[c]) <= BufSize /\ Len(Input[c]) \in Nat
        /\ BufSize \in Nat /\ at = "data"
    BY InputType, ControlAssumption DEF IInv, PanelInv, ControlTypeOK, Read, Whole, ReadsFit
  <1>2. /\ Smaller(waiting, BufSize) = waiting
        /\ UNCHANGED <<session, cur, msg_in, sent, taken>>
    BY <1>1 DEF Read, Smaller, clientVars
  <1>3. /\ left' = waiting
        /\ at' = IF waiting = 0 THEN "control" ELSE "bytes"
    BY <1>2 DEF Read, Calm, CanFail
  <1>4. CASE waiting = 0
    BY <1>1, <1>2, <1>3, <1>4, QuietWhole
  <1>5. CASE waiting # 0
    <2>1. Input' = Input /\ \A d, i : Ends(d, i)' <=> Ends(d, i)
      BY SameSession
    <2>2. msg_in = <<>> /\ \A d \in Clients : Ends(d, taken[d]) /\ Ends(d, sent[d])
      BY <1>1 DEF WholeInv
    <2>3. at' = "bytes" /\ cur' = cur /\ sent' = sent /\ taken' = taken /\ msg_in' = <<>>
      BY <1>2, <1>3, <1>5, <2>2
    <2>4. left' + taken'[c] # 0 /\ taken'[c] + left' = sent[c]
      BY <1>1, <1>2, <1>3, <1>5
    <2> HIDE DEF waiting
    <2>5. Began(cur.fd)' = taken[c]
      <3>1. Began(cur.fd)' = taken'[cur'.fd] - Len(msg_in')
        BY DEF Began
      <3>2. Len(msg_in') = 0 /\ taken'[cur'.fd] = taken[c]
        BY <2>3
      <3> QED
        BY <1>1, <3>1, <3>2
    <2>6. Collected(cur.fd)'
      <3>1. Ends(cur.fd, Began(cur.fd))'
        BY <1>1, <2>1, <2>2, <2>3, <2>5 DEF Ends
      <3> QED
        BY <1>1, <2>3, <2>5, <3>1 DEF Collected
    <2>7. Ends(cur.fd, taken[cur.fd] + left)'
      BY <1>1, <2>1, <2>2, <2>3, <2>4 DEF Ends
    <2>8. \A d \in Clients : Ends(d, sent[d])' /\ Ends(d, taken[d])'
      BY <2>1, <2>2, <2>3 DEF Ends
    <2>9. left' + taken'[cur'.fd] # 0
      BY <2>3, <2>4
    <2> QED
      BY <2>3, <2>6, <2>7, <2>8, <2>9 DEF WholeInv
  <1> QED
    BY <1>4, <1>5

LEMMA ArriveWhole ==
  ASSUME IInv, WholeInv, Whole, NEW c \in Clients, Arrive(c), UNCHANGED session
  PROVE  WholeInv'
  <1>1. PICK n \in (sent[c] + 1) .. Len(Input[c]) :
          Input[c][n].newline /\ sent' = [sent EXCEPT ![c] = n]
    BY DEF Arrive, Whole
  <1>2. UNCHANGED <<session, at, cur, left, msg_in, taken>>
    BY DEF Arrive, panelVars
  <1>3. Input' = Input /\ \A d, i : Ends(d, i)' <=> Ends(d, i)
    BY SameSession
  <1>4. Ends(c, n)
    BY <1>1, InputType DEF Ends, IInv, PanelInv
  <1>5. \A d \in Clients : Ends(d, sent'[d])
    BY <1>1, <1>4 DEF WholeInv, IInv, PanelInv
  <1>6. \A d \in Clients : Ends(d, sent[d])' /\ (Ends(d, taken[d])' <=> Ends(d, taken[d]))
    BY <1>2, <1>3, <1>5 DEF Ends
  <1>7. at' = "bytes" => Collected(cur.fd)' /\ Ends(cur.fd, taken[cur.fd] + left)'
    <2>1. ASSUME at' = "bytes" PROVE Collected(cur.fd)'
      <3>1. Collected(cur.fd) /\ Began(cur.fd)' = Began(cur.fd) /\ cur' = cur
        BY <1>2, <2>1 DEF WholeInv, Began
      <3> QED
        BY <1>2, <1>3, <3>1 DEF Collected, Ends
    <2>2. ASSUME at' = "bytes" PROVE Ends(cur.fd, taken[cur.fd] + left)'
      BY <1>2, <1>3, <2>2 DEF WholeInv, Ends
    <2> QED
      BY <2>1, <2>2
  <1> QED
    BY <1>2, <1>6, <1>7 DEF WholeInv

LEMMA HandledWhole ==
  ASSUME IInv, WholeInv, at = "bytes", left > 0, UNCHANGED <<session, cur, sent>>,
         NEW m \in Seq(Byte), Handles(m)
  PROVE  WholeInv'
  <1> DEFINE c == cur.fd
             t == taken[cur.fd]
  <1>1. /\ c \in Clients /\ t \in Nat /\ left \in Nat /\ taken \in [Clients -> Nat]
    BY ControlAssumption DEF IInv, PanelInv, ControlTypeOK
  <1>2. /\ Collected(c) /\ Ends(c, t + left) /\ \A d \in Clients : Ends(d, sent[d])
        /\ \A d \in Clients : d = c \/ Ends(d, taken[d])
    BY DEF WholeInv
  <1>3. /\ Collected(cur.fd)' /\ left' = left - 1 /\ at' = "bytes"
        /\ taken' = [taken EXCEPT ![c] = t + 1]
    BY <1>2, ByteCollected
  <1> HIDE DEF c, t
  <1>4. taken'[c] = t + 1 /\ \A d \in Clients : d # c => taken'[d] = taken[d]
    BY <1>1, <1>3
  <1>5. left' + taken'[c] # 0 /\ taken'[c] + left' = t + left
    BY <1>1, <1>3, <1>4
  <1>6. Input' = Input /\ (\A d, i : Ends(d, i)' <=> Ends(d, i)) /\ cur'.fd = c
    BY SameSession DEF c
  <1>7. \A d \in Clients : Ends(d, sent[d])' /\ (d = cur'.fd \/ Ends(d, taken[d])')
    BY <1>2, <1>4, <1>6 DEF Ends
  <1>8. Ends(cur.fd, taken[cur.fd] + left)'
    BY <1>2, <1>5, <1>6 DEF Ends
  <1>9. left' + taken'[cur'.fd] # 0
    BY <1>5, <1>6
  <1> QED
    BY <1>3, <1>7, <1>8, <1>9 DEF WholeInv

\* The loop has handled what was read: the last byte was a newline, nothing is left.
LEMMA PromptWhole ==
  ASSUME IInv, WholeInv, Prompt, UNCHANGED session
  PROVE  WholeInv'
  <1> DEFINE c == cur.fd
             t == taken[cur.fd]
             b == Began(cur.fd)
             k == Len(msg_in)
  <1>1. /\ c \in Clients /\ t \in Nat /\ k \in Nat /\ msg_in \in Seq(Byte)
        /\ at = "bytes" /\ left = 0
    BY ControlAssumption DEF IInv, PanelInv, ControlTypeOK, Prompt
  <1>2. /\ UNCHANGED <<session, sent, taken, msg_in>>
        /\ at' = "control" \/ at' = "killed"
    BY DEF Prompt, panelVars, clientVars
  <1>3. /\ left + t # 0 /\ Ends(c, t + left) /\ Collected(c)
        /\ \A d \in Clients : Ends(d, sent[d]) /\ (d = c \/ Ends(d, taken[d]))
    BY <1>1 DEF WholeInv
  <1>4. b \in Nat /\ b = t - k /\ \A i \in 1 .. k : ~Input[c][b + i].newline
    BY <1>3 DEF Collected, Began
  <1> HIDE DEF c, t, b, k
  <1>5. t # 0 /\ Ends(c, t)
    BY <1>1, <1>3
  <1>6. k = 0
    <2>1. ASSUME k # 0 PROVE FALSE
      <3>1. k \in 1 .. k /\ b + k = t
        BY <1>1, <1>4, <2>1
      <3>2. ~Input[c][t].newline
        BY <1>4, <3>1
      <3> QED
        BY <1>5, <3>2 DEF Ends
    <2> QED
      BY <2>1
  <1>7. msg_in = <<>>
    BY <1>1, <1>6, EmptySeq DEF k
  <1>8. Input' = Input /\ \A d, i : Ends(d, i)' <=> Ends(d, i)
    BY <1>2, SameSession
  <1>9. \A d \in Clients : Ends(d, sent[d])' /\ Ends(d, taken[d])'
    <2>1. \A d \in Clients : Ends(d, sent[d]) /\ Ends(d, taken[d])
      BY <1>3, <1>5 DEF c, t
    <2> QED
      BY <1>2, <1>8, <2>1 DEF Ends
  <1> QED
    BY <1>2, <1>7, <1>9 DEF WholeInv

LEMMA WholeStep ==
  ASSUME IInv, CalmInv, Calm, Whole, Step, UNCHANGED session
  PROVE  WholeInv'
  <1>0. WholeInv
    BY DEF CalmInv
  <1>1. CASE StoreByte \/ TooLong \/ RunLine
    <2>1. at = "bytes" /\ left > 0 /\ UNCHANGED <<session, cur, sent>>
      BY <1>1, HandledCalm
    <2>2. CASE Die
      BY <1>0, <2>1, <2>2, QuietWhole DEF Die
    <2>3. ASSUME NEW m \in Seq(Byte), Handles(m) PROVE WholeInv'
      BY <1>0, <2>1, <2>3, HandledWhole
    <2> QED
      BY <1>1, <2>2, <2>3, HandledCalm
  <1>2. CASE Read
    BY <1>0, <1>2, ReadWhole
  <1>3. CASE Prompt
    BY <1>0, <1>3, PromptWhole
  <1>4. ASSUME NEW c \in Clients, Arrive(c) PROVE WholeInv'
    BY <1>0, <1>4, ArriveWhole
  <1>5. CASE
          \/ ConnInit \/ InstallHandlers \/ AcceptNothing \/ (\E c \in Clients : Accept(c))
          \/ NoEvent \/ (\E c \in Clients : TakeEvent(c)) \/ ControlEvents \/ WaitLcores
          \/ (\E k \in Cores : CoreStops(k)) \/ Signal \/ HandlerStep
          \/ (\E c \in Clients : Connect(c) \/ Hangup(c))
    <2>1. UNCHANGED <<session, sent, taken, msg_in>>
      BY <1>5
      DEF ConnInit, InstallHandlers, AcceptNothing, Accept, NoEvent, TakeEvent, ControlEvents,
          WaitLcores, CoreStops, Signal, HandlerStep, Connect, Hangup, panelVars, clientVars
    <2>2. \/ at' = at /\ UNCHANGED <<cur, left>>
          \/ at \notin {"bytes", "killed"} /\ at' # "bytes"
          \/ at' = "killed"
      BY <1>5
      DEF ConnInit, InstallHandlers, AcceptNothing, Accept, NoEvent, TakeEvent, ControlEvents,
          WaitLcores, CoreStops, Signal, HandlerStep, Connect, Hangup, panelVars, NextTurn
    <2> QED
      BY <1>0, <2>1, <2>2, QuietWhole
  <1> QED
    BY <1>1, <1>2, <1>3, <1>4, <1>5 DEF Step, Main

LEMMA StartsCalm == Init => IInv /\ CalmInv
  <1> SUFFICES ASSUME Init PROVE CalmInv
    BY InitIInv
  <1>1. /\ at = "boot" /\ msg_in = <<>> /\ ran = {}
        /\ fd = [c \in Clients |-> "none"]
        /\ sent = [c \in Clients |-> 0] /\ taken = [c \in Clients |-> 0]
    BY DEF Init
  <1>2. \A c \in Clients : Began(c) = 0
    BY <1>1 DEF Began
  <1>3. \A c \in Clients : Collected(c)
    BY <1>1, <1>2 DEF Collected, Ends
  <1> QED
    BY <1>1, <1>3 DEF CalmInv, GuestInv, AloneInv, WholeInv, Ends

LEMMA NextCalm ==
  ASSUME IInv, CalmInv, [Next]_<<session, vars>>
  PROVE  IInv' /\ CalmInv'
  <1>1. IInv'
    BY NextIInv
  <1>2. CASE UNCHANGED <<session, vars>>
    <2>1. UNCHANGED <<session, at, cur, left, fd, sent, taken, msg_in, ran>>
      BY <1>2 DEF vars
    <2>2. GuestInv'
      BY <2>1 DEF CalmInv, GuestInv
    <2>3. AloneInv => AloneInv'
      BY <2>1, CollectedKept DEF AloneInv
    <2>4. WholeInv => WholeInv'
      BY <2>1, QuietWhole
    <2>5. (Calm' <=> Calm) /\ (Alone' <=> Alone) /\ (Whole' <=> Whole)
      BY <2>1, SameSession
    <2> QED
      BY <1>1, <2>2, <2>3, <2>4, <2>5 DEF CalmInv
  <1>3. CASE Next
    <2>1. Step /\ UNCHANGED session
      BY <1>3 DEF Next
    <2>2. GuestInv'
      BY <2>1, GuestStep DEF CalmInv
    <2>3. (Calm' <=> Calm) /\ (Alone' <=> Alone) /\ (Whole' <=> Whole)
      BY <2>1, SameSession
    <2>4. Calm /\ Alone => AloneInv'
      BY <2>1, AloneStep
    <2>5. Calm /\ Whole => WholeInv'
      BY <2>1, WholeStep
    <2> QED
      BY <1>1, <2>2, <2>3, <2>4, <2>5 DEF CalmInv
  <1> QED
    BY <1>2, <1>3

-----------------------------------------------------------------------------
(* What is run. *)

\* What is collected is what lies between the last newline and the next byte.
LEMMA TextIs ==
  ASSUME IInv, NEW c \in Clients, Collected(c)
  PROVE  /\ msg_in = SubSeq(Input[c], Began(c) + 1, taken[c])
         /\ taken[c] = Began(c) + Len(msg_in)
         /\ \A i \in (Began(c) + 1) .. taken[c] : ~Input[c][i].newline
  <1> DEFINE s == Input[c]
             b == Began(c)
             t == taken[c]
             k == Len(msg_in)
  <1>1. /\ t \in Nat /\ k \in Nat /\ msg_in \in Seq(Byte) /\ Len(s) \in Nat /\ t <= Len(s)
    <2>1. /\ taken \in [Clients -> Nat] /\ sent \in [Clients -> Nat] /\ msg_in \in Seq(Byte)
          /\ taken[c] <= sent[c] /\ sent[c] <= Len(Input[c])
      BY DEF IInv, PanelInv, ControlTypeOK
    <2>2. Len(Input[c]) \in Nat
      BY InputType DEF IInv
    <2> QED
      BY <2>1, <2>2
  <1>2. /\ b \in Nat /\ b = t - k
        /\ \A i \in 1 .. k : msg_in[i] = s[b + i] /\ ~msg_in[i].newline
    BY DEF Collected, Began
  <1>3. \A i \in Nat : 0 < i /\ i <= Len(s) => s[i] \in Byte
    BY InputType DEF IInv
  <1>4. k = Len(msg_in)
    OBVIOUS
  <1> HIDE DEF s, b, t, k
  <1>5. t = b + k
    BY <1>1, <1>2
  <1>6. \A i \in (b + 1) .. t : i - b \in 1 .. k /\ b + (i - b) = i
    BY <1>1, <1>2, <1>5
  <1>7. \A i \in (b + 1) .. t : ~s[i].newline
    BY <1>2, <1>6
  <1>8. msg_in = SubSeq(s, b + 1, t)
    <2>1. \A i \in (b + 1) .. t : s[i] \in Byte
      BY <1>1, <1>2, <1>3
    <2>2. b + 1 \in Int /\ t \in Int
      BY <1>1, <1>2
    <2>3. /\ SubSeq(s, b + 1, t) \in Seq(Byte)
          /\ Len(SubSeq(s, b + 1, t)) = IF b + 1 <= t THEN t - (b + 1) + 1 ELSE 0
          /\ \A i \in 1 .. t - (b + 1) + 1 : SubSeq(s, b + 1, t)[i] = s[(b + 1) + i - 1]
      BY <2>1, <2>2, SubSeqProperties
    <2>4. t - (b + 1) + 1 = k /\ (b + 1 <= t <=> k # 0)
      BY <1>1, <1>2, <1>5
    <2>5. Len(SubSeq(s, b + 1, t)) = k
      BY <1>1, <2>3, <2>4
    <2>6. \A i \in 1 .. k : (b + 1) + i - 1 = b + i
      BY <1>1, <1>2
    <2>7. \A i \in 1 .. k : msg_in[i] = SubSeq(s, b + 1, t)[i]
      BY <1>2, <2>3, <2>4, <2>6
    <2> QED
      BY <1>1, <1>4, <2>3, <2>5, <2>7, SeqEqual
  <1> QED
    BY <1>5, <1>7, <1>8 DEF s, b, t, k

\* The text a newline ends is its row without it.
LEMMA RunsItsLine ==
  ASSUME IInv, CalmInv, Calm, RunLine
  PROVE  NextByte.line \in Reads(msg_in)
  <1> DEFINE c == cur.fd
             t == taken[cur.fd]
             k == Len(msg_in)
             l == NextByte.line
             b == Began(cur.fd)
  <1>1. /\ at = "bytes" /\ left > 0 /\ NextByte.newline /\ Collected(c)
        /\ c \in Clients /\ t \in Nat /\ k \in Nat /\ l \in Lines /\ Len(Input[c]) \in Nat
    <2>1. at = "bytes" /\ left > 0 /\ NextByte.newline
      BY DEF RunLine
    <2>2. c \in Clients /\ taken \in [Clients -> Nat] /\ msg_in \in Seq(Byte)
      BY <2>1 DEF IInv, PanelInv, ControlTypeOK
    <2>3. Len(Input[c]) \in Nat
      BY <2>2, InputType DEF IInv
    <2> QED
      BY <2>1, <2>2, <2>3, ByteType, InTheLoop
  <1>2. t + 1 \in 1 .. Len(Input[c]) /\ IsRow(c, l, b + 1, t + 1)
    BY <1>1, RowFacts DEF Calm
  <1>3. b \in Nat /\ t = b + k /\ msg_in = SubSeq(Input[c], b + 1, t)
    BY <1>1, TextIs DEF Collected
  <1>4. k = Len(msg_in)
    OBVIOUS
  <1> HIDE DEF c, t, k, l, b
  <1>5. (t + 1) - k = b + 1 /\ (t + 1) - 1 = t /\ t + 1 \in (k + 1) .. Len(Input[c])
    BY <1>1, <1>2, <1>3
  <1>6. /\ t + 1 \in (Len(msg_in) + 1) .. Len(Input[c])
        /\ IsRow(c, l, (t + 1) - Len(msg_in), t + 1)
        /\ msg_in = SubSeq(Input[c], (t + 1) - Len(msg_in), (t + 1) - 1)
    BY <1>2, <1>3, <1>4, <1>5
  <1> QED
    BY <1>1, <1>6 DEF Reads, l

\* Nobody but RunLine sets ran, and the next turn of main() clears it.
LEMMA RanCleared ==
  ASSUME Step, ~RunLine
  PROVE  ran' = ran \/ ran' = {}
  BY DEF Step, Main, ConnInit, InstallHandlers, AcceptNothing, Accept, NoEvent, TakeEvent, Read,
         StoreByte, TooLong, Prompt, ControlEvents, WaitLcores, CoreStops, Signal, HandlerStep,
         Connect, Arrive, Hangup

\* What cli_process is given is exactly the line whose newline was handled, though all
\* clients share one buffer, for any clients and any lines that fit it, however
\* the arrival of lines, the events and the hang-ups interleave.
THEOREM CommandsCorrect == Spec => []CommandsIntact
  <1>1. Init => IInv /\ CalmInv /\ CommandsIntact
    BY StartsCalm DEF Init, CommandsIntact
  <1>2. IInv /\ CalmInv /\ CommandsIntact /\ [Next]_<<session, vars>>
          => IInv' /\ CalmInv' /\ CommandsIntact'
    <2> SUFFICES ASSUME IInv, CalmInv, CommandsIntact, [Next]_<<session, vars>>
                 PROVE  IInv' /\ CalmInv' /\ CommandsIntact'
      OBVIOUS
    <2>1. IInv' /\ CalmInv'
      BY NextCalm
    <2>2. CommandsIntact' <=> \A r \in ran' : Calm => r.line \in Reads(r.text)
      <3>1. session' = session
        BY DEF Next
      <3> QED
        BY <3>1 DEF CommandsIntact, Calm, LinesFit, ReadsFit, Alone, Whole, Input, IsRow,
                    LinesOf, Reads
    <2>3. CASE ran' = ran \/ ran' = {}
      BY <2>1, <2>2, <2>3 DEF CommandsIntact
    <2>4. CASE RunLine
      <3>1. ran' = {[text |-> msg_in, line |-> NextByte.line]}
        BY <2>4 DEF RunLine
      <3>2. Calm => NextByte.line \in Reads(msg_in)
        BY <2>4, RunsItsLine
      <3>3. \A r \in ran' : Calm => r.line \in Reads(r.text)
        BY <3>1, <3>2
      <3> QED
        BY <2>1, <2>2, <3>3
    <2> QED
      BY <2>3, <2>4, RanCleared DEF Next, vars
  <1> QED
    BY <1>1, <1>2, PTL DEF Spec

-----------------------------------------------------------------------------
(* Control implements Panel. *)

\* The last newline is the one after which there is none.
LEMMA LastIs ==
  ASSUME NEW c, NEW h \in Nat, NEW e \in 0 .. h, e = 0 \/ Input[c][e].newline,
         \A i \in (e + 1) .. h : ~Input[c][i].newline
  PROVE  LastNewline(c, h) = e
  <1> DEFINE S == {0} \cup {i \in 1 .. h : Input[c][i].newline}
  <1>1. S \subseteq Nat /\ e \in S
    OBVIOUS
  <1>2. \A y \in S : e >= y
    <2> SUFFICES ASSUME NEW y \in S, ~(e >= y) PROVE FALSE
      OBVIOUS
    <2>1. y \in (e + 1) .. h /\ Input[c][y].newline
      OBVIOUS
    <2> QED
      BY <2>1
  <1> HIDE DEF S
  <1>3. \A x \in S : (\A y \in S : x >= y) => x = e
    <2> SUFFICES ASSUME NEW x \in S, \A y \in S : x >= y PROVE x = e
      OBVIOUS
    <2>1. x >= e /\ e >= x /\ x \in Nat /\ e \in Nat
      BY <1>1, <1>2
    <2> QED
      BY <2>1
  <1>4. Max(S) = e
    BY <1>1, <1>2, <1>3 DEF Max
  <1> QED
    BY <1>4 DEF LastNewline, S

\* The bytes of a client that were handled, before and after a step.
LEMMA HandledFacts ==
  ASSUME IInv, CalmInv, Calm, Step, UNCHANGED session
  PROVE  /\ \A d : Handled(d) = taken[d]
         /\ ~(StoreByte \/ RunLine) => \A d : Handled(d)' = taken[d]
         /\ StoreByte \/ RunLine =>
              \A d \in Clients : Handled(d)' = IF d = cur.fd THEN taken[d] + 1 ELSE taken[d]
  <1>1. \A d : Handled(d) = taken[d]
    BY NotKilled DEF Handled
  <1>2. ASSUME ~(StoreByte \/ RunLine) PROVE \A d : Handled(d)' = taken[d]
    <2>1. ~(StoreByte \/ TooLong \/ RunLine)
      BY <1>2, HandledCalm
    <2>2. taken' = taken
      BY <2>1, BufferLeft
    <2>3. at' = "killed" => ran' = {}
      BY <2>1, NotKilled
      DEF CalmInv, GuestInv, Step, Main, ConnInit, InstallHandlers, AcceptNothing, Accept, NoEvent,
          NextTurn, TakeEvent, Read, Prompt, ControlEvents, WaitLcores, CoreStops, Signal,
          HandlerStep, Connect, Arrive, Hangup
    <2> QED
      BY <2>2, <2>3 DEF Handled
  <1>3. ASSUME StoreByte \/ RunLine
        PROVE  \A d \in Clients : Handled(d)' = IF d = cur.fd THEN taken[d] + 1 ELSE taken[d]
    <2>1. at = "bytes" /\ left > 0 /\ cur' = cur /\ taken \in [Clients -> Nat]
      BY <1>3, HandledCalm DEF IInv, PanelInv
    <2>2. CASE Die /\ RunLine
      <3>1. at' = "killed" /\ taken' = taken /\ ran' # {}
        BY <2>2 DEF Die, RunLine
      <3> QED
        BY <2>1, <3>1 DEF Handled
    <2>3. ASSUME NEW m \in Seq(Byte), Handles(m)
          PROVE  \A d \in Clients : Handled(d)' = IF d = cur.fd THEN taken[d] + 1 ELSE taken[d]
      <3>1. at' = "bytes" /\ taken' = [taken EXCEPT ![cur.fd] = taken[cur.fd] + 1]
        BY <2>1, <2>3 DEF Handles, GoOn
      <3> QED
        BY <2>1, <3>1 DEF Handled
    <2> QED
      BY <1>3, <2>2, <2>3, HandledCalm
  <1> QED
    BY <1>1, <1>2, <1>3

UpTo == [c \in Clients |-> LastNewline(c, Handled(c))]

\* Every step of Control runs the next line of one client, or nothing.
LEMMA StepsOfPanel ==
  ASSUME IInv, CalmInv, Calm, Step, UNCHANGED session
  PROVE  \/ ran' = ran /\ UpTo' = UpTo
         \/ Promise!Quiet
         \/ \E c \in Clients : Promise!RunLine(c)
  <1>1. \A c, h : LastNewline(c, h)' = LastNewline(c, h)
    BY DEF LastNewline, Input
  <1>2. UpTo = [c \in Clients |-> LastNewline(c, taken[c])]
    BY HandledFacts DEF UpTo
  <1>3. CASE ~(StoreByte \/ RunLine)
    <2>1. UpTo' = UpTo
      BY <1>1, <1>2, <1>3, HandledFacts DEF UpTo
    <2>2. ran' = ran \/ ran' = {}
      BY <1>3, RanCleared
    <2> QED
      BY <2>1, <2>2 DEF Promise!Quiet, UpTo
  <1>4. CASE StoreByte \/ RunLine
    <2> DEFINE c == cur.fd
               t == taken[cur.fd]
               b == Began(cur.fd)
    <2>1. at = "bytes" /\ left > 0 /\ Collected(cur.fd) /\ cur.fd \in Clients
      BY <1>4, HandledCalm, InTheLoop DEF IInv, PanelInv
    <2>2. /\ t \in Nat /\ b \in Nat /\ b <= t /\ Len(Input[c]) \in Nat /\ t + 1 \in 1 .. Len(Input[c])
          /\ b = 0 \/ Input[c][b].newline
          /\ \A i \in (b + 1) .. t : ~Input[c][i].newline
          /\ msg_in = SubSeq(Input[c], b + 1, t)
          /\ Input[c][t + 1] = NextByte
      <3>1. /\ taken \in [Clients -> Nat] /\ sent \in [Clients -> Nat] /\ msg_in \in Seq(Byte)
            /\ sent[cur.fd] <= Len(Input[cur.fd]) /\ t + 1 <= sent[c] /\ Len(Input[c]) \in Nat
        BY <2>1, InputType, ByteType DEF IInv, PanelInv, ControlTypeOK
      <3>2. b \in Nat /\ t = b + Len(msg_in) /\ Len(msg_in) \in Nat /\ Ends(c, b)
        <4>1. taken[cur.fd] = Began(cur.fd) + Len(msg_in)
          BY <2>1, TextIs
        <4>2. Began(cur.fd) \in Nat /\ Ends(cur.fd, Began(cur.fd))
          BY <2>1 DEF Collected
        <4> QED
          BY <3>1, <4>1, <4>2
      <3>3. /\ msg_in = SubSeq(Input[c], b + 1, t)
            /\ \A i \in (b + 1) .. t : ~Input[c][i].newline
        BY <2>1, TextIs
      <3>4. Input[c][t + 1] = NextByte
        BY DEF NextByte
      <3>5. b = 0 \/ Input[c][b].newline
        BY <3>2 DEF Ends
      <3> HIDE DEF b
      <3>6. t \in Nat /\ t + 1 \in 1 .. Len(Input[c]) /\ b <= t
        BY <2>1, <3>1, <3>2
      <3> QED
        BY <3>1, <3>2, <3>3, <3>4, <3>5, <3>6
    <2>3. UpTo' = [d \in Clients |-> IF d = cur.fd THEN LastNewline(d, taken[d] + 1) ELSE UpTo[d]]
      BY <1>1, <1>2, <1>4, HandledFacts DEF UpTo
    <2>4. UpTo[c] = b /\ c \in Clients
      <3> HIDE DEF b
      <3>1. b \in 0 .. t
        BY <2>2
      <3>2. LastNewline(c, t) = b
        BY <2>2, <3>1, LastIs
      <3> QED
        BY <1>2, <2>1, <3>2
    <2> HIDE DEF c, t, b
    <2>5. CASE StoreByte
      <3>1. ~Input[c][t + 1].newline /\ ran' = {}
        BY <2>2, <2>5 DEF StoreByte
      <3>2. b \in 0 .. (t + 1) /\ \A i \in (b + 1) .. (t + 1) : i \in (b + 1) .. t \/ i = t + 1
        BY <2>2
      <3>3. \A i \in (b + 1) .. (t + 1) : ~Input[c][i].newline
        BY <2>2, <3>1, <3>2
      <3>4. LastNewline(c, t + 1) = b
        <4> DEFINE h == t + 1
        <4>1. /\ h \in Nat /\ b \in 0 .. h /\ (b = 0 \/ Input[c][b].newline)
              /\ \A i \in (b + 1) .. h : ~Input[c][i].newline
          BY <2>2, <3>2, <3>3
        <4> HIDE DEF h
        <4>2. LastNewline(c, h) = b
          BY <4>1, LastIs
        <4> QED
          BY <4>2 DEF h
      <3>5. \A d \in Clients : UpTo'[d] = UpTo[d]
        BY <2>3, <2>4, <3>4 DEF c, t
      <3>6. UpTo' = UpTo
        BY <2>3, <3>5 DEF UpTo
      <3> QED
        BY <3>1, <3>6 DEF Promise!Quiet, UpTo
    <2>6. CASE RunLine
      <3>1. /\ Input[c][t + 1].newline /\ Input[c][t + 1].line = NextByte.line
            /\ ran' = {[text |-> msg_in, line |-> NextByte.line]}
        BY <2>2, <2>6 DEF RunLine
      <3>2. t + 1 \in 0 .. (t + 1) /\ \A i \in (t + 1 + 1) .. (t + 1) : FALSE
        BY <2>2
      <3>3. LastNewline(c, t + 1) = t + 1
        <4> DEFINE h == t + 1
        <4>1. /\ h \in Nat /\ h \in 0 .. h /\ Input[c][h].newline
              /\ \A i \in (h + 1) .. h : ~Input[c][i].newline
          <5>1. h \in Nat /\ h \in 0 .. h /\ \A i \in (h + 1) .. h : FALSE
            BY <2>2, <3>2
          <5>2. Input[c][h].newline
            BY <3>1
          <5> HIDE DEF h
          <5> QED
            BY <5>1, <5>2
        <4> HIDE DEF h
        <4>2. LastNewline(c, h) = h
          BY <4>1, LastIs
        <4> QED
          BY <4>2 DEF h
      <3>4. UpTo' = [UpTo EXCEPT ![c] = t + 1]
        BY <2>3, <3>3 DEF c, t, UpTo
      <3>5. t + 1 \in (b + 1) .. Len(Input[c]) /\ (t + 1) - 1 = t
        BY <2>2
      <3>6. /\ \A i \in (b + 1) .. ((t + 1) - 1) : ~Input[c][i].newline
            /\ ran' = {[text |-> SubSeq(Input[c], b + 1, (t + 1) - 1),
                        line |-> Input[c][t + 1].line]}
        BY <2>2, <3>1, <3>5
      <3>7. \E n \in (UpTo[c] + 1) .. Len(Input[c]) :
              /\ Input[c][n].newline
              /\ \A i \in (UpTo[c] + 1) .. (n - 1) : ~Input[c][i].newline
              /\ UpTo' = [UpTo EXCEPT ![c] = n]
              /\ ran' = {[text |-> SubSeq(Input[c], UpTo[c] + 1, n - 1),
                          line |-> Input[c][n].line]}
        BY <2>4, <3>1, <3>4, <3>5, <3>6
      <3>8. Promise!RunLine(c)
        BY <3>7 DEF Promise!RunLine, UpTo
      <3> QED
        BY <2>4, <3>8
    <2> QED
      BY <1>4, <2>5, <2>6
  <1> QED
    BY <1>3, <1>4

\* Control keeps the promise of Panel: each client's lines are run in the order they were
\* typed, none skipped, none twice, for a single client however its bytes
\* arrive, and for any number of clients whose lines arrive whole.
THEOREM PanelCorrect == Spec => RunsInOrder
  <1>1. Init => IInv /\ CalmInv /\ Promise!Init
    <2> SUFFICES ASSUME Init PROVE Promise!Init
      BY StartsCalm
    <2>1. \A c \in Clients : Handled(c) = 0
      BY DEF Init, Handled
    <2>2. \A c \in Clients : LastNewline(c, 0) = 0
      <3>1. 0 \in 0 .. 0 /\ \A i \in (0 + 1) .. 0 : FALSE
        OBVIOUS
      <3> QED
        BY <3>1, LastIs
    <2>3. UpTo = [c \in Clients |-> 0]
      BY <2>1, <2>2 DEF UpTo
    <2> QED
      BY <2>3 DEF Init, Promise!Init, UpTo
  <1>2. IInv /\ CalmInv /\ [Next]_<<session, vars>>
          => IInv' /\ CalmInv' /\ [Promise!Next]_<<Input, Calm, UpTo, ran>>
    <2> SUFFICES ASSUME IInv, CalmInv, [Next]_<<session, vars>>
                 PROVE  IInv' /\ CalmInv' /\ [Promise!Next]_<<Input, Calm, UpTo, ran>>
      OBVIOUS
    <2>1. session' = session /\ Input' = Input /\ (Calm' <=> Calm)
      BY SameSession DEF Next
    <2>2. Calm' = Calm
      BY <2>1 DEF Calm, LinesFit, ReadsFit, Alone, Whole, Input, IsRow, LinesOf
    <2>3. CASE UNCHANGED vars
      <3>1. UpTo' = UpTo /\ ran' = ran
        BY <2>1, <2>3 DEF vars, UpTo, LastNewline, Handled, Input
      <3> QED
        BY <2>1, <2>2, <3>1, NextCalm
    <2>4. CASE Step /\ ~Calm
      BY <2>1, <2>2, <2>4, NextCalm DEF Promise!Next
    <2>5. CASE Step /\ Calm
      <3>1. \/ ran' = ran /\ UpTo' = UpTo
            \/ Promise!Quiet
            \/ \E c \in Clients : Promise!RunLine(c)
        BY <2>1, <2>5, StepsOfPanel
      <3> QED
        BY <2>1, <2>2, <3>1, NextCalm DEF Promise!Next
    <2> QED
      BY <2>3, <2>4, <2>5 DEF Next, vars
  <1> QED
    BY <1>1, <1>2, PTL DEF Spec, RunsInOrder, Promise!Spec, UpTo

=============================================================================
