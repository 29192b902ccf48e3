------------------------------ MODULE Control ------------------------------
(***************************************************************************)
(* The control panel and the life of the process: main()'s loop over the   *)
(* telnet clients of conn.c, the command interpreter of cli.c as far as it *)
(* touches this state, the signal handler, and the poll loops the commands *)
(* start and stop.                                                         *)
(*                                                                         *)
(* main() is one thread; each of its actions is one iteration of a loop or *)
(* one system call.  Clients, signals and the slave cores interleave with  *)
(* it.  What "close", "send" and "connect" do to a connection is in Tcp;   *)
(* here they are commands that print a reply.                              *)
(***************************************************************************)
EXTENDS Naturals, Sequences, FiniteSets, FiniteSetsExt

CONSTANTS NumCores,     \* slave lcores
          Clients,      \* telnet clients
          Lines,        \* names of the lines they type
          Sessions,     \* what may happen in a run
          MaxLen,       \* msg_in_len_max
          BufSize,      \* buf_size: the most one read takes
          None          \* no event is being handled

Cores == 1 .. NumCores

\* Kinds of commands: no reply (comments, empty lines, "ddio", "stop"); a reply
\* and nothing else here (also unknown commands); "start"; "exit"; and one that ends
\* the process: an address that string_to_ip refuses with exit(1), or a "connect"
\* that lacks arguments, for which NULL is scanned.
Commands == {"quiet", "reply", "start", "exit", "fatal"}

\* A byte of a line, or the newline that ends it.
Byte == [line : Lines, newline : BOOLEAN]

\* Who connects, what each client types and the kind of command of each line;
\* whether input arrives line by line; whether epoll_ctl may fail and write may find
\* the socket full; whether a SIGINT or SIGTERM may come.
Session == [clients : SUBSET Clients, input : [Clients -> Seq(Byte)],
            meaning : [Lines -> Commands],
            wholeLines : BOOLEAN, fallible : BOOLEAN, signals : BOOLEAN]

ASSUME ControlAssumption ==
  /\ NumCores \in Nat \ {0}
  /\ Sessions \subseteq Session
  /\ MaxLen \in Nat \ {0} /\ BufSize \in Nat \ {0}

VARIABLES
  session,   \* the one of Sessions this run is
  at,        \* where main() is
  cur,       \* the event conn_poll_for_msg handles: [fd, ctl]
  left,      \* bytes of conn->buf still to handle
  msg_in,    \* conn->msg_in up to msg_in_len
  cp_quit,   \* c->cp_quit
  dp_quit,   \* dp_quit of each core's struct tcp
  lcore,     \* the state rte_eal keeps of each slave
  handler,   \* exit_stats: 0 not running, k about to stop core k
  fd,        \* each client's descriptor
  sent,      \* bytes that have arrived from each client
  taken,     \* bytes of them the server has handled or dropped
  hung,      \* clients that closed their end
  ran,       \* the text given to cli_process in the last step, and the line it ended
  done,      \* lines that were run as they were typed
  refused    \* lines of which "Command too long." was said

\* What may change; the session never does.
vars == <<at, cur, left, msg_in, cp_quit, dp_quit, lcore, handler,
          fd, sent, taken, hung, ran, done, refused>>
Input   == session.input
Meaning == session.meaning

clientVars  == <<fd, sent, taken, hung>>
processVars == <<cp_quit, dp_quit, lcore, handler>>
panelVars   == <<cur, left, msg_in>>

ControlTypeOK ==
  /\ session \in Sessions
  /\ at \in {"boot", "signals", "conn", "msg", "data", "bytes", "control",
             "wait", "exited", "killed", "failed"}
  /\ cur \in [fd : Clients, ctl : BOOLEAN] \cup {None}
  /\ left \in 0 .. BufSize
  /\ msg_in \in Seq(Byte) /\ Len(msg_in) <= MaxLen
  /\ cp_quit \in BOOLEAN
  /\ dp_quit \in [Cores -> BOOLEAN]
  /\ lcore \in [Cores -> {"WAIT", "RUNNING", "FINISHED"}]
  /\ handler \in 0 .. NumCores
  /\ fd \in [Clients -> {"none", "backlog", "open", "closed"}]
  /\ \A c \in Clients : taken[c] <= sent[c] /\ sent[c] <= Len(Input[c])
  /\ hung \subseteq Clients
  /\ \A r \in ran : r.text \in Seq(Byte) /\ r.line \in Lines
  /\ done \subseteq Lines /\ refused \subseteq Lines

\* config_init has launched the poll loop on every slave.
Init ==
  /\ session \in Sessions
  /\ at = "boot"
  /\ cur = None /\ left = 0 /\ msg_in = <<>>
  /\ cp_quit = FALSE /\ dp_quit = [k \in Cores |-> FALSE]
  /\ lcore = [k \in Cores |-> "RUNNING"]
  /\ handler = 0
  /\ fd = [c \in Clients |-> "none"]
  /\ sent = [c \in Clients |-> 0] /\ taken = [c \in Clients |-> 0]
  /\ hung = {}
  /\ ran = {} /\ done = {} /\ refused = {}

Ended == at \in {"exited", "killed", "failed"}

-----------------------------------------------------------------------------
(* Starting *)

\* conn_init; when it returns NULL, main returns and the poll loops are not told.
ConnInit ==
  /\ at = "boot"
  /\ at' \in {"signals"} \cup (IF session.fallible THEN {"failed"} ELSE {})
  /\ UNCHANGED <<panelVars, processVars, clientVars, ran, done, refused>>

\* signal(SIGINT, exit_stats) and signal(SIGTERM, exit_stats)
InstallHandlers ==
  /\ at = "signals"
  /\ at' = "conn"
  /\ UNCHANGED <<panelVars, processVars, clientVars, ran, done, refused>>

-----------------------------------------------------------------------------
(* The end of an iteration of main's loop *)

\* The loop condition; leaving the loop frees the panel.
NextTurn == IF cp_quit THEN "wait" ELSE "conn"

\* write() to a client: it succeeds; finds the socket full; or the client is gone
\* and SIGPIPE, which nothing catches, ends the process.
CanFail == session.fallible
CanKill(c) == c \in hung

-----------------------------------------------------------------------------
(* conn_poll_for_conn *)

AcceptNothing ==
  /\ at = "conn"
  /\ \A c \in Clients : fd[c] # "backlog"
  /\ at' = "msg"
  /\ ran' = {}
  /\ UNCHANGED <<panelVars, processVars, clientVars, done, refused>>

\* The client is put into the group, and gets the welcome and the prompt; when
\* accept4 fails it stays in the backlog, when a later call fails it is closed.
Accept(c) ==
  /\ at = "conn"
  /\ fd[c] = "backlog"
  /\ \/ fd' = [fd EXCEPT ![c] = "open"] /\ at' = "msg"
     \/ CanFail /\ fd' \in {fd, [fd EXCEPT ![c] = "closed"]} /\ at' = "msg"
     \/ CanKill(c) /\ at' = "killed" /\ UNCHANGED fd
  /\ ran' = {}
  /\ UNCHANGED <<panelVars, processVars, sent, taken, hung, done, refused>>

-----------------------------------------------------------------------------
(* conn_poll_for_msg *)

\* EPOLLIN, and EPOLLRDHUP or EPOLLHUP.
Readable(c) == fd[c] = "open" /\ (taken[c] < sent[c] \/ c \in hung)

NoEvent ==
  /\ at = "msg"
  /\ \A c \in Clients : ~Readable(c)
  /\ at' = NextTurn
  /\ ran' = {}
  /\ UNCHANGED <<panelVars, processVars, clientVars, done, refused>>

\* epoll_wait reports one descriptor, with the flags of that moment.
TakeEvent(c) ==
  /\ at = "msg"
  /\ Readable(c)
  /\ cur' = [fd |-> c, ctl |-> c \in hung]
  /\ at' = "data"
  /\ UNCHANGED <<left, msg_in, processVars, clientVars, ran, done, refused>>

Smaller(m, n) == IF m <= n THEN m ELSE n

\* read(): at the end of the input it returns 0 and no prompt is written; of a
\* connection that was reset it returns -1.
Read ==
  /\ at = "data"
  /\ LET waiting == sent[cur.fd] - taken[cur.fd]
     IN  \/ /\ left' = Smaller(waiting, BufSize)
            /\ at' = IF waiting = 0 THEN "control" ELSE "bytes"
         \/ /\ CanFail /\ cur.fd \in hung
            /\ left' = 0 /\ at' = "control"
  /\ UNCHANGED <<cur, msg_in, processVars, clientVars, ran, done, refused>>

NextByte == Input[cur.fd][taken[cur.fd] + 1]

\* The loop goes on with the next byte, msg_in being m.
GoOn(m) ==
  /\ msg_in' = m
  /\ left' = left - 1
  /\ taken' = [taken EXCEPT ![cur.fd] = @ + 1]
  /\ UNCHANGED at

\* An early return: the bytes that were read are dropped and msg_in_len stays.
GiveUp ==
  /\ at' = "control"
  /\ left' = 0
  /\ taken' = [taken EXCEPT ![cur.fd] = @ + left]
  /\ UNCHANGED msg_in

Die == at' = "killed" /\ UNCHANGED <<left, msg_in, taken>>

\* Mutant: msg_in_len is not reset.
AfterWrite_keeps == GoOn(msg_in)
\* Mutant: the rest of the buffer is dropped after the first reply.
AfterWrite_returns ==
  /\ at' = "control" /\ left' = 0 /\ msg_in' = <<>>
  /\ taken' = [taken EXCEPT ![cur.fd] = @ + left]

\* The loop after a write to the client: msg_in_len = 0 comes after it.
AfterWrite ==
  \/ GoOn(<<>>)
  \/ CanFail /\ GiveUp
  \/ CanKill(cur.fd) /\ Die

\* Mutant: room for one byte more.
HasRoom_closed == Len(msg_in) <= MaxLen

HasRoom == Len(msg_in) < MaxLen

StoreByte ==
  /\ at = "bytes" /\ left > 0
  /\ ~NextByte.newline /\ HasRoom
  /\ GoOn(Append(msg_in, NextByte))
  /\ ran' = {}
  /\ UNCHANGED <<cur, processVars, fd, sent, hung, done, refused>>

\* The byte that does not fit is dropped, and the next one starts a new command.
TooLong ==
  /\ at = "bytes" /\ left > 0
  /\ ~NextByte.newline /\ ~HasRoom
  /\ AfterWrite
  /\ refused' = refused \cup {NextByte.line}
  /\ ran' = {}
  /\ UNCHANGED <<cur, processVars, fd, sent, hung, done>>

LinesOf(c) == {Input[c][i].line : i \in 1 .. Len(Input[c])}

\* Line l of client c is its bytes from the m-th to the n-th, the newline.
IsRow(c, l, m, n) ==
  /\ Input[c][n] = [line |-> l, newline |-> TRUE]
  /\ \A i \in 1 .. Len(Input[c]) :
       /\ Input[c][i].line = l <=> i \in m .. n
       /\ i \in m .. n => (Input[c][i].newline <=> i = n)

\* The lines a text is, as they were typed; a text that is none may mean anything.
Reads(text) ==
  {l \in Lines :
     \E c \in Clients : \E n \in (Len(text) + 1) .. Len(Input[c]) :
       IsRow(c, l, n - Len(text), n) /\ text = SubSeq(Input[c], n - Len(text), n - 1)}
Means(text) == IF Reads(text) = {} THEN Commands ELSE {Meaning[l] : l \in Reads(text)}

\* Mutant: "start" takes back an earlier "exit".
Launch_again == /\ lcore' = [k \in Cores |-> IF lcore[k] = "WAIT" THEN "RUNNING" ELSE lcore[k]]
                /\ dp_quit' = [k \in Cores |-> FALSE]
                /\ UNCHANGED <<cp_quit, handler>>

\* "start": rte_eal_remote_launch refuses a core that is not waiting.
Launch == /\ lcore' = [k \in Cores |-> IF lcore[k] = "WAIT" THEN "RUNNING" ELSE lcore[k]]
          /\ UNCHANGED <<cp_quit, dp_quit, handler>>

\* "exit"
Quit == /\ dp_quit' = [k \in Cores |-> TRUE]
        /\ cp_quit' = TRUE
        /\ UNCHANGED <<lcore, handler>>

\* cli_process on the text collected so far, and the write of its reply.
RunLine ==
  /\ at = "bytes" /\ left > 0
  /\ NextByte.newline
  /\ \/ "quiet"  \in Means(msg_in) /\ GoOn(<<>>)  /\ UNCHANGED processVars
     \/ "reply"  \in Means(msg_in) /\ AfterWrite  /\ UNCHANGED processVars
     \/ "fatal"  \in Means(msg_in) /\ Die         /\ UNCHANGED processVars
     \/ "start"  \in Means(msg_in) /\ AfterWrite  /\ Launch
     \/ "exit"   \in Means(msg_in) /\ GoOn(<<>>)  /\ Quit
  /\ ran' = {[text |-> msg_in, line |-> NextByte.line]}
  /\ done' = done \cup Reads(msg_in)
  /\ UNCHANGED <<cur, fd, sent, hung, refused>>

Prompt ==
  /\ at = "bytes" /\ left = 0
  /\ \/ at' = "control"
     \/ CanKill(cur.fd) /\ at' = "killed"
  /\ ran' = {}
  /\ UNCHANGED <<panelVars, processVars, clientVars, done, refused>>

\* Mutant: a client that has hung up stays in the group.
Deregister_never == fd

\* epoll_ctl(EPOLL_CTL_DEL) and close()
Deregister == IF cur.ctl THEN [fd EXCEPT ![cur.fd] = "closed"] ELSE fd

ControlEvents ==
  /\ at = "control"
  /\ fd' = Deregister
  /\ cur' = None
  /\ at' = NextTurn
  /\ ran' = {}
  /\ UNCHANGED <<left, msg_in, processVars, sent, taken, hung, done, refused>>

\* rte_eal_mp_wait_lcore, and return 0
WaitLcores ==
  /\ at = "wait"
  /\ \A k \in Cores : lcore[k] # "RUNNING"
  /\ lcore' = [k \in Cores |-> "WAIT"]
  /\ at' = "exited"
  /\ UNCHANGED <<panelVars, cp_quit, dp_quit, handler, clientVars, ran, done, refused>>

Main ==
  \/ ConnInit \/ InstallHandlers
  \/ AcceptNothing \/ (\E c \in Clients : Accept(c))
  \/ NoEvent \/ (\E c \in Clients : TakeEvent(c))
  \/ Read \/ StoreByte \/ TooLong \/ RunLine \/ Prompt
  \/ ControlEvents \/ WaitLcores

-----------------------------------------------------------------------------
(* Everybody else *)

\* tcp_rx_packets leaves its loop.
CoreStops(k) ==
  /\ ~Ended
  /\ lcore[k] = "RUNNING" /\ dp_quit[k]
  /\ lcore' = [lcore EXCEPT ![k] = "FINISHED"]
  /\ UNCHANGED <<at, panelVars, cp_quit, dp_quit, handler, clientVars, ran, done, refused>>

\* A signal: before the handlers are installed it ends the process.
Signal ==
  /\ session.signals /\ ~Ended /\ ~cp_quit
  /\ \/ at \in {"boot", "signals"} /\ at' = "killed" /\ UNCHANGED processVars
     \/ /\ at \notin {"boot", "signals"} /\ handler = 0
        /\ cp_quit' = TRUE /\ handler' = 1
        /\ UNCHANGED <<at, dp_quit, lcore>>
  /\ UNCHANGED <<panelVars, clientVars, ran, done, refused>>

\* Mutant: the handler's loop ends one core early.
HandlerNext_short == IF handler + 1 < NumCores THEN handler + 1 ELSE 0

HandlerNext == IF handler < NumCores THEN handler + 1 ELSE 0

\* exit_stats goes through the cores, on whatever thread took the signal.
HandlerStep ==
  /\ handler # 0 /\ ~Ended
  /\ dp_quit' = [dp_quit EXCEPT ![handler] = TRUE]
  /\ handler' = HandlerNext
  /\ UNCHANGED <<at, panelVars, cp_quit, lcore, clientVars, ran, done, refused>>

Connect(c) ==
  /\ c \in session.clients /\ fd[c] = "none" /\ at \notin {"boot", "wait"} /\ ~Ended
  /\ fd' = [fd EXCEPT ![c] = "backlog"]
  /\ UNCHANGED <<at, panelVars, processVars, sent, taken, hung, ran, done, refused>>

\* Some of what the client types arrives; with wholeLines, one more line.
Arrive(c) ==
  /\ fd[c] \in {"backlog", "open"} /\ c \notin hung /\ ~Ended
  /\ \E n \in (sent[c] + 1) .. Len(Input[c]) :
       /\ session.wholeLines => Input[c][n].newline
       /\ sent' = [sent EXCEPT ![c] = n]
  /\ UNCHANGED <<at, panelVars, processVars, fd, taken, hung, ran, done, refused>>

Hangup(c) ==
  /\ fd[c] \in {"backlog", "open"} /\ c \notin hung /\ ~Ended
  /\ hung' = hung \cup {c}
  /\ UNCHANGED <<at, panelVars, processVars, fd, sent, taken, ran, done, refused>>

Step == \/ Main
        \/ \E k \in Cores : CoreStops(k)
        \/ Signal \/ HandlerStep
        \/ \E c \in Clients : Connect(c) \/ Arrive(c) \/ Hangup(c)

Next == Step /\ UNCHANGED session

\* main() and the slaves run on cores of their own.  epoll reports ready
\* descriptors, and the backlog hands out connections, in turn.
Fairness ==
  /\ WF_vars(Main)
  /\ WF_vars(HandlerStep)
  /\ \A k \in Cores : WF_vars(CoreStops(k))
  /\ \A c \in Clients : SF_vars(Accept(c)) /\ SF_vars(TakeEvent(c))

Spec == Init /\ [][Next]_<<session, vars>> /\ Fairness

-----------------------------------------------------------------------------
(* Properties *)

\* The lines of all clients fit msg_in.
LinesFit ==
  \A c \in Clients : \A l \in LinesOf(c) :
    \E n \in 1 .. Len(Input[c]) : \E m \in 1 .. n : IsRow(c, l, m, n) /\ n - m <= MaxLen

\* All that a client types fits one read.
ReadsFit == \A c \in Clients : Len(Input[c]) <= BufSize

\* A single client may type as it likes.  The buffer is shared: of several, each
\* line has to arrive, and be read, whole.
Alone == \A c, d \in session.clients : c = d
Whole == session.wholeLines /\ ReadsFit

\* When lines keep their meaning.  (Lines of several clients that arrive piece by
\* piece, or are read so, are mixed; after a failed write the next line joins
\* the old; and of a line that is too long the tail is run.)
Calm == ~session.fallible /\ LinesFit /\ (Alone \/ Whole)

\* What is run when a newline is handled is exactly the line it ends: the buffer,
\* which all clients share, never mixes lines nor repeats one.
CommandsIntact == \A r \in ran : Calm => r.line \in Reads(r.text)

\* The bytes of c that were handled; a command that ends the process was handled.
Handled(c) == IF at = "killed" /\ ran # {} /\ c = cur.fd THEN taken[c] + 1 ELSE taken[c]

\* The last newline among the first h bytes of c.
LastNewline(c, h) == Max({0} \cup {i \in 1 .. h : Input[c][i].newline})

Promise == INSTANCE Panel WITH typed <- Input, orderly <- Calm, run <- ran,
                               upTo <- [c \in Clients |-> LastNewline(c, Handled(c))]

\* Each client's lines are run in the order they were typed, none skipped and none
\* twice (module Panel).
RunsInOrder == Promise!Spec

\* A line that has arrived is run, unless the process is asked to end.  (Of a client
\* that hangs up only one more read is made.)
Newline(c, l) == CHOOSE i \in 1 .. Len(Input[c]) : Input[c][i] = [line |-> l, newline |-> TRUE]

Arrived(l) == \E c \in Clients : l \in LinesOf(c) /\ sent[c] >= Newline(c, l)

LinesRun == \A l \in Lines : Arrived(l) /\ Calm /\ ReadsFit ~> l \in done \/ cp_quit \/ Ended

\* The descriptor of a client that has gone is closed.
HangupsClosed ==
  \A c \in Clients :
    c \in hung /\ fd[c] = "open" ~> fd[c] = "closed" \/ cp_quit \/ Ended

\* "exit", SIGINT and SIGTERM end the process, whatever main() and the cores are
\* doing at that moment and whatever else is still in the buffer.
QuitEnds == cp_quit ~> Ended

\* When main() returns from its loop no core polls any more, and none of them can
\* be made to poll again.
StopsCleanly ==
  at = "exited" => \A k \in Cores : lcore[k] = "WAIT" /\ dp_quit[k]

\* "Command too long." (conn.c:19): a line of which that was said is not run.
TooLongNotRun ==
  \A r \in ran : \A i \in 1 .. Len(r.text) : r.text[i].line \notin refused

=============================================================================
