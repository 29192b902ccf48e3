# tcp_dpdk: models, checks and proofs

tcp_dpdk is a small TCP stack in user space over DPDK: every slave lcore polls
one NIC queue and runs the TCP handlers on what it receives; the master lcore
serves telnet clients, whose commands open, use and close connections. This
directory holds TLA+ modules of that program, the TLC configurations that
model-check them, and theorems about them that TLAPS checks.

Paths below are those of the repository, with the directory `src/` in front
(`src/src/tcp/tcp.c`). `tcp.c:97` means line 97 of that file. The DPDK
version the code builds against (19.11) and the way it is compiled (gcc `-O0 -g`,
from the Makefile) are taken as given.

1. [The system](#1-the-system)
2. [The modules](#2-the-modules)
3. [What the runs show](#3-what-the-runs-show)
4. [Fairness](#4-fairness)
5. [What is proved](#5-what-is-proved)
6. [What the models found](#6-what-the-models-found)
7. [What is not modelled](#7-what-is-not-modelled)
8. [Plan](#8-plan)
9. [How to run](#9-how-to-run)

## 1. The system

| part | code | state | operations |
|---|---|---|---|
| sequence-number arithmetic | `tcp.c:204-235` | none | `wrapping_lt`, `is_between_wrapped`, `segment_check` |
| TCP endpoint | `tcp/*.c`, `headers/tcp/tcp.h` | per core: `struct tcp` with a hash table from `struct quad` to `struct connection`, and `dp_quit`; per connection: state, two sequence spaces, header templates | `tcp_rx_packets`, nine handlers, `tcp_tx_packets`, `active_connect`, `active_close`, `active_send_data`, `dump_connection` |
| control panel | `config/conn.c` | listening socket, epoll group, one receive buffer and one line buffer for all clients | `conn_init`, `conn_poll_for_conn`, `conn_poll_for_msg` |
| command interpreter | `cli/cli.c` | `cp_quit` | `cli_process`: connect, close, send, start, exit, flow, dump, help, ... |
| process life cycle | `main.c`, `config/config.c` | the state EAL keeps of each lcore | launching, the main loop, `exit_stats` on signals, `rte_eal_mp_wait_lcore` |
| packet transmission | `nic/nic.c` | one mbuf pool, one TX queue | `send_p` |
| configuration | `config/config.c` | `struct config` | `config_init`, `port_init` |
| parser, utilities | `cli/parser.c`, `utility/utility.c` | none | tokenising, address conversion, hex dump |

How the parts meet. `main` calls `config_init`, which creates a `struct tcp`
for each slave and launches `tcp_rx_packets` on it. From then on the slaves and
the master share, **without locks**: the hash tables and the connections they
point to (slaves handle segments, the master runs commands), the mbuf pool and TX
queue 0 (everybody calls `send_p`), and the flags `dp_quit` and `cp_quit` (the
master and the signal handler write them, the loops read them). RSS decides
which slave sees a flow. A telnet client's bytes go through `data_event_handle`
into `msg_in`, and at a newline into `cli_process`.

What each part has to get right, and what makes it hard:

* **Arithmetic.** Comparisons must agree with the order on the circle, across the
  2^32 wrap, at the half-way point, and for windows of 0 and 1.
* **Endpoint, one connection.** The handlers step `snd_nxt` back and forth when
  a SYN is repeated, keep flags in a template that is reused by the next send, and
  assign a state twice in one handler; `una` and `snd_nxt` are not maintained
  the way RFC 793 does. Segments come duplicated, late, out of window and in the
  wrong state, `close` comes at any moment. There are no timers: what the host
  sends is sent once.
* **Endpoint, table and memory.** An entry has to be deleted, under the key it
  was filed with, before the structure is freed. The key has four bytes of padding
  that nothing initialises. The table may be full, and nobody looks at the result
  of adding. `connect` files on core 0 whatever RSS will do.
* **Endpoint, end to end.** Nothing acknowledged that was not printed, no byte shown
  before those in front of it, handshakes and closes that come to an end. The handlers do not
  tell old data from new, a FIN with data from a bare one, or a reset from any other segment.
* **Control panel.** One line buffer for all clients, with early returns on failed
  writes between running a line and resetting the buffer; data and hang-up in one
  epoll event; a line longer than the buffer.
* **Process.** The signal handler stops `main` first and the cores one by one,
  while the rest of a buffer of commands, `start` among them, still runs.

* **Threads.** A receive loop and a command work on the same entry and the same
  structure at once, and an lcore may free, or hand out again, what another one
  found a moment before.
* **Buffers.** `send_p` gives a buffer back that the driver still owns, so a buffer
  may be in several places; the loop body leaves others behind; one pool feeds
  receiving and sending.

`PROJECT.json` lists the hazards one by one with the line at which each bites
and the properties that watch it; those with no property carry the reason.

## 2. The modules

```
SeqSpace ------------------- MCSeqSpace            (arithmetic)
   |   \                         |
   |    SeqSpaceLemmas ---- SeqSpaceProofs
   |            \
  Tcp -- MCTcp   TcpProofs                         (endpoint, one step per segment)
   | \_ Cycle == INSTANCE Lifecycle                (its abstract specification)
  TcpNet -- MCTcpNet   TcpNetProofs                (endpoint + peer + network)
                            \_ TcpStreamProofs     (the order of the peer's stream)

TcpThreads -- MCTcpThreads, TcpThreadsProofs       (endpoint, statement by statement)
     \_ Owned == INSTANCE Ownership                (its abstract specification)

Mbufs -- MbufsProofs                               (buffers, send_p, the driver)

Control -- MCControl, ControlProofs                (panel + interpreter + process)
     \_ Promise == INSTANCE Panel                  (its abstract specification)
```

`Tcp` and `TcpThreads` are two views of the same code. `Tcp` has the numbers, the
flags and the output, and takes a handler or a command as one step. `TcpThreads`
leaves the numbers out and has the steps of the handlers and commands apart.

**SeqSpace** has the three comparisons of `tcp.c`. `HalfSpace` stands for
`1 << 31`; `Plus` and `Minus` are `uint32_t` arithmetic. The only assumption is
that the largest window plus one number on each side fits in half of the
circle, which 65535 does. An instance is a circle of 8 or 16 numbers; the
theorems are for every circle.

**Tcp** is the endpoint. `table[k]` is the hash table of core `k`, `conn` the
allocated structures by address; the fields of `Connection` are those some handler
reads. Each action is one segment handled by one core (`Receive` has one
disjunct for each handler, with the dispatcher's lookup and state test as its
guard, `InState`) or one command. `Transmit` is `tcp_tx_packets`: it builds the
segment from `snd_nxt`, `rcv_nxt` and the flag template, then adds one for SYN and
one for FIN and clears the two flags. The calls a handler makes are in its
action: `handle_tcp_listen` allocates, sends and files; the LAST_ACK action has
the handler's deletion and the dispatcher's deletion and `rte_free`. `tx` and
`printed` hold the output of the last step only, so that properties can relate
what a step did to what it sent.

A segment's `len` is the `size` the dispatcher computes, an `int` that is negative when the
headers are longer than `total_length` says the datagram is (`tcp.c:73`): `segment_check` takes
it for data, nothing is printed of it (`Shown`), and the receive edge goes back (`DataEnd`).
The handlers that echo what they got hand this size on to a copy of as many bytes, as a
`size_t`; that copy is not modelled. Nor is the copy of `active_send_data` into the
connection's `payload` (`tcp.c:293-295`): the field is the last of the structure and has 100
bytes (`tcp.h:124`), nothing bounds the loop, and nothing reads what it stores. `SendLens` are
lengths that fit; what a longer one does to the memory behind the structure is outside of the modules.

Two details of the environment carry properties:

* *Padding.* `key_len` is `sizeof(struct quad)`, 16 bytes, four of them padding.
  A key is a pair of address fields and padding. A core's `q` lives in the frame
  of `tcp_rx_packets`, which is never left, and its padding is never written: it
  keeps some value (`rxPad`). The padding of a command's `q` is
  any value at each call. Uninitialised memory is thus a nondeterministic choice.
* *RSS.* `Steer` assigns each flow a core; only that core receives it.

`rte_malloc` hands out any free address of `ConnIds`. Running out of `ConnIds`
is a bound of the instance, not a NULL return (the code would dereference NULL at
once; there is no behaviour to specify). `HashEntries`, 128 in the code, does bound
the table, and `AddKey` does nothing when it is full.

`handle_tcp_fin_wait2` and `handle_tcp_close_wait` have no action: no filed
connection is ever in those states between two segments, which is not an
assumption but property `DispatchedStates`, checked and proved. The early return of
`handle_tcp_syn_sent` after its `segment_check` is never taken
(`SynSentCheckPasses`, proved), as the question in its comment suspects.

**Lifecycle** is the abstract specification of `Tcp`: each slot of each table
goes through `NONE`, the two handshakes, `ESTABLISHED`, `LAST_ACK` or
`FIN_WAIT1`, and back. It has the edges the code has, which are not those of RFC
793: `close` is possible in every state, after the peer's FIN too; the first
acceptable segment after `close` ends the connection.

**TcpNet** composes one core and one flow of `Tcp` with a peer and a network.
Both are outside of the repository. The peer is written by RFC 793: it opens or listens; sends
one byte per segment, the last one before its FIN or with it; repeats its oldest
unacknowledged segment, cut as it was, whenever its timer fires, on every network, lossy or
not; answers what lies outside of its window with an acknowledgement, and cuts off what it
already has; and answers with a reset what it cannot place: anything at all when it is closed, an
acknowledgement when it listens, a wrong one while it opens. It stays in TIME_WAIT to answer.
The network keeps the order of segments and, if the scenario is lossy, drops any of them.
`shown` is the set of positions in the peer's stream that were printed, `peer.fin` the number
of sequence numbers the FIN takes (2 with a byte), `peer.reset` remembers that the peer has refused something.
A `scenario`, chosen in the initial state, says who opens, which commands the user gives, over
which network and within which bounds, so that one run covers them all.

**TcpThreads** takes the receive loops and the command line apart. A step is one
call of `rte_hash` or of the allocator, or one assignment to `tcpState`; `rx[k]` and
`cli` say where each thread is and what it holds in its local variables, which may
be stale:

| place of a receive loop | code |
|---|---|
| `poll`, `listen`, `found` | before, and after, the lookup of `tcp.c:80` |
| `add` | `tcp.c:84-87`, with the connection `handle_tcp_listen` made |
| a state | in the handler the dispatcher chose by it |
| `closing` | between the two assignments of `tcp_establish.c:21-27` |
| `unfile` | `tcp_fin_wait1.c:20-26`, FIN_WAIT2 stored, the entry not yet deleted |
| `closed`, `free`, `again` | `tcp_last_ack.c:12-14`, then `tcp.c:99-101`: delete, free, delete once more |

A handler may take any branch that some segment makes it take. `active_connect`
is the lookup, the allocation (with the SYN) and the add; `close` searches the
tables one by one, then stores FIN_WAIT1 in what it found. A store into freed memory
is lost, and one into memory that was handed out again changes the new connection:
that is what the allocator makes of it, and the properties have to hold with it.
`Steer` may send a key to no core (0), as RSS does with a queue that is not polled.

**Ownership** is what the threads promise each other about an address: it is taken
by one, filled, shared through a table once, unshared, and then given back.
`Replace` is there because the add of `connect` may take the place of an entry (see
section 6).

**Mbufs** has the buffers. A buffer may be in several places at once, so `pool`
counts the entries of the pool that lead to each buffer, and rings and bursts are
sequences. `hand[k]` is `bufs[]` of a receive loop from the frame it is at, `out[t]`
the call of `send_p` a sender is in, with its places allocation, copy,
`rte_eth_tx_burst` and `rte_mbuf_raw_free`. `text` is what a buffer holds, so that
what is sent can be compared with what was meant. The driver, the pool and the wire
are external: the ring is armed with buffers of the pool, `rte_eth_rx_burst` hands
out a frame when it gets a buffer to put in its place, `rte_eth_tx_burst` frees the
buffers of sent frames when it needs room, and may lose a frame when two lcores are
in it at once. The ring behind the pool has a size, `Room`, and a put that finds it
full is dropped silently: doubles can fill it, in principle. A frame for another
address is left in `lost` by the `continue` of `tcp.c:48-58`.

**Control** is `main()`'s thread, one action for each iteration of a loop or
system call, with the clients, signals and slave cores interleaved in between.
`at` is the place in the code:

| `at` | code |
|---|---|
| `boot`, `signals` | `main.c:41-52` |
| `conn` | `conn_poll_for_conn`, called by the main loop |
| `msg` | `epoll_wait` in `conn_poll_for_msg` |
| `data`, `bytes` | the read and the byte loop of `data_event_handle` |
| `control` | `control_event_handle` |
| `wait` | `rte_eal_mp_wait_lcore` |
| `exited`, `killed`, `failed` | `main` returned 0; SIGPIPE, an early signal or `exit(1)`; `conn_init` returned NULL |

A byte is the pair of the line it belongs to and whether it is the newline, so
that a text can be compared with the lines that were typed; what a text means
is a function of the line, and a text that is no line may mean anything. `Means`
is where Control is coupled to the interpreter: the commands that work on
connections only reply here, and are actions of `Tcp` and `TcpThreads`; a command
of kind `fatal` is one whose address does not parse (`exit(1)` of
`utility.c:39-45`) or whose address is missing (`cli.c:381`). A `session`, chosen in
the initial state, says what the clients type, whether bytes arrive in pieces,
whether calls fail and whether signals come.

**Panel** is what the clients are promised: the lines each types are run one by one in
the order they were typed, each once and as typed, whatever the others do meanwhile.
It has no sockets, no shared buffer and no process. `Control` implements it for calm
clients (`Calm`, section 3): what was run of a client reaches to the last newline among
its bytes that were handled (`LastNewline`, `Handled`).

## 3. What the runs show

All passing runs turn deadlock checking off, except that of `MCSeqSpace`,
because the systems really do stop: the process ends, an endpoint whose
structures were all leaked (finished closes are never freed, `tcp_fin_wait1.c:25`)
has nothing left to allocate, a peer whose stream is closed is silent, and a pool
whose buffers were all lost serves nobody.

| run | instance | question |
|---|---|---|
| `seq_space` | circle of 16, windows 0..5, every triple of positions | Do the comparisons agree with the definitions by walking along the circle, and does sliding across the wrap change nothing? |
| `tcp_numbers` | circle of 8, one core, one flow, two connections; flags SYN, SYN+ACK, ACK, FIN+ACK, RST with numbers before, at and after the edges, windows 0 and 2, with and without data | `TypeOK`, `DispatchedStates`; handshake numbers survive any repetition (`HandshakeEdges`); every SYN sent is that of a handshake in progress (`SynOnlyInHandshake`); the receive edge and printed data are always acknowledged by the same step, the edge of a segment of negative size too (`EdgeIsAcked`); 89,825 states |
| `tcp_tables` | two cores, one flow steered to the second, two padding values, tables of one entry, three connections | `TableSound`, `OnlyDeadOrphans`, `DeafNeverEstablished`, refinement of `Lifecycle`; 154,556 states |
| `net` | circle of 16 with the peer's first number 14 (its stream wraps), eight scenarios; 47,404 states | nothing is shown before what precedes it; nothing acknowledged that was not sent or not printed; a handshake is reset only if the peer did not listen (`OnlyRefusals`); handshakes, data, `connect`, `close` and the peer's close come to an end |
| `threads` | two cores, a key steered to each (`connect` can use both, on core 1's table), three connections, tables of one entry; 259,355 states | no dangling entry, nothing held is freed or handed out again, no connection goes deaf, only `close` interferes with a handler; refinement of `Ownership` |
| `mbufs` | two buffers, one slave, rings of one descriptor, bursts of up to two, room for four entries in the pool, two commands; 83,750 states | only skipped frames lose their buffer; the loop keeps receiving until one is lost |
| `control` | three sessions. Two clients with two whole lines each (one empty, one `start`, one `exit`) and hang-ups at any time. A single client whose four lines, more than one read takes, come in pieces. One client whose bytes come in pieces: a line too long for the buffer, `exit`, a fatal command; calls fail, pipes break, signals come at any moment. Two cores; 43,960 states | the buffer never overflows; lines run exactly as typed, in order, and all of them (`RunsInOrder`, `LinesRun`); descriptors are closed; quitting ends the process and leaves no core polling |

The scenarios of `net`:

| peer | user | network | bytes, unacknowledged, in flight |
|---|---|---|---|
| opens and closes | watches | ordered | 4, 4, 4 |
| opens and closes | sends | ordered | 2, 2, 2 |
| opens and closes | sends, closes | ordered | 2, 2, 2 |
| listens | connects, sends, closes | ordered | 2, 2, 2 |
| opens, perhaps after it has refused the user | connects, sends, closes | ordered | 1, 1, 2 |
| opens and closes | watches | lossy | 2, 1, 2 |
| opens and closes, perhaps after it has refused the user | connects (perhaps at the same moment), sends | lossy | 2, 1, 2 |
| listens | connects, sends | lossy | 2, 1, 2 |

In all of them the peer repeats itself at any moment.

Why the bounds are enough. A small circle has every relation the comparisons can
tell apart (behind, at, inside, at the end, beyond, half-way, wrapped), and the
theorems about `SeqSpace` and `Tcp` remove this bound altogether. Two allocated
structures suffice for an old and a new connection of one key, three for one leaked
besides; a table of one entry is full when the second arrives. In `threads` three
addresses let a `close` hold one that is freed and handed out again while another
thread makes a new one; the theorems remove the bound. `cap` bounds
the segments in flight when somebody starts a new exchange (answers are never
held back), `bytes` and `UserBytes` the two streams, `window` what the
peer has unacknowledged. `UserBytes + 4 < HalfSpace` is a bound with a meaning: see
the remark on `una` in section 6. In `Mbufs`, one buffer more than the receive ring
needs is the least with which the loop and `send_p` compete, and the pool is empty
again and again; the real figures are 655,280 buffers, rings of 2048 and 1024,
bursts of 1000, and room for 2^20 entries. `MaxCommands` only bounds the number of
commands. Two slaves with so small a pool would show nothing: one of them could take
every buffer that comes back. In `Control`, `MaxLen = 2` leaves room for lines
shorter than, as long as and longer than the buffer, and `BufSize` makes a read
end inside a line; a signal comes once, as a second one finds `cp_quit`
set and repeats the same stores.

Conditions the properties need, which they state themselves:

* `StreamPrefix`, `AcksOnlySent`, `AckedWasPrinted` and `CloseCompletes` are claimed as long as
  the peer has reset nothing (`NotReset`): `handle_tcp_syn_sent` does not look at RST and takes
  the refusal of a `connect` for the answer to it. The connection becomes ESTABLISHED, at a
  number the peer never used, and that number is acknowledged (`tcp_syn_sent.c:12-27`). How
  wide this exception is says `OnlyRefusals`: only a `connect` to a peer that does not listen brings
  it about; no loss, repetition or crossing of SYNs does.
* `StreamPrefix` says that no byte is shown before those in front of it. It does not say that
  each is shown once: what the peer repeats is printed again (section 6). Over a lossy network
  it is claimed for `NoClose` and `NoGaps`, as with a loss and more than one segment in flight the
  code prints what comes after a gap.
* `AcksOnlySent` and `AckedWasPrinted` are claimed as long as the user does not
  close (`NoClose`): `handle_tcp_fin_wait1` acknowledges `seq + 1` of whatever segment
  ends the close (`tcp_fin_wait1.c:22`), printed or not, sent or not.
* `AckedWasPrinted` is claimed for a peer that has, over a network that loses segments,
  one number at a time out (`NoGaps`): `segment_check` does not look where data starts,
  and with a byte lost and the next one on its way `handle_tcp_establish` would
  acknowledge both.
* `AckedWasPrinted`, `DataAcked` and `PeerCloseCompletes` except the byte that comes with the FIN:
  `tcp_establish.c:20-27` takes `seq + 1` for the number behind the FIN, so it acknowledges that
  byte, which it does not print, and not the FIN. `Known` and `Sent` count the bytes before the
  FIN; `PeerCloseCompletes` promises that the connection is freed and the peer gets the
  host's FIN in either case, and that the peer's own FIN is acknowledged if it was sent alone.
* `HandshakeCompletes`, `DataAcked` and `PeerCloseCompletes` are claimed for a user who
  only watches (`Undisturbed`): after a `send` the host numbers its next segment like
  the bytes that are not acknowledged yet, and the peer takes it for old data.
* The user of `net` connects before the peer has anything of the connection, and closes once
  nothing is in flight (guards of `HostCommand`); closing earlier hangs (section 6).
* `CommandsIntact`, `RunsInOrder` and `LinesRun` are claimed for `Calm` sessions: writes
  succeed, lines fit `msg_in`, and either one client only connects, whose bytes may arrive
  and be read in any pieces, or lines arrive whole and input fits one read. With a pause
  or the end of a read inside a line, the lines of two clients mix; after a failed write
  the old line is still in the buffer; of a line that is too long the tail is run.
  `LinesRun` also needs that input fits one read, as only one more is made of a client that
  hangs up.
* `KeepsReceiving` is claimed until a buffer is lost: every frame for another
  address takes one away for good, and in the end there are none.

Every property of a passing run has a mutant in `PROJECT.json`: an operator
`X_...`, written beside the operator `X` that it would replace, with a
plausible slip in it. TLC finds each property violated when its mutant takes the
place of the original; mutants are used nowhere else.

## 4. Fairness

`MCSeqSpace`, `Tcp` and `TcpThreads` have none: all their properties are about
safety. (In `TcpThreads` a `connect` or a `close` may really be left hanging, when the
peer's answer comes between two of its steps; there is no liveness to claim.)

`TcpNet`: weak fairness of `HostReceive` (the core polls its queue for ever) and
of the peer's receiving and retransmitting, on every network: a timer fires as long as
something is unacknowledged. Strong fairness of the receipt of each kind of segment that is sent
again and again: it may be lost any number of times, but not every time. Nothing is assumed of the host's
own initiative: commands, new data and closes may never come, and the host has
no timer.

`Mbufs`: weak fairness of each slave's loop as a whole (an lcore runs on, but need
not choose to reply), of the command line's call of `send_p`, of the driver's
reclaiming while somebody is in `rte_eth_tx_burst`, and of the port sending what is in
its ring. Frames and commands may never come.

`Control`: weak fairness of `main()`'s steps, of each core and of a running signal
handler: each has a processor to itself and blocks nowhere else (`epoll_wait` has
a timeout of zero, sockets do not block). Strong fairness of accepting and of
reporting a given client: the backlog is a queue, and epoll moves a descriptor
it reported to the end of its ready list, so a client is not passed over for ever
by the others. Nothing is assumed of clients and signals.

## 5. What is proved

**SeqSpaceProofs**: each property of `seq_space`, for every size of the circle and every
window that fits in half of it, hence for the circle of 2^32. The proofs are
arithmetic on distances; `WindowCorrect` is where the assumption about the window
is used.

**TcpProofs**: each property of the runs of `MCTcp`, for any number of cores, flows,
padding values, table entries and connections, any steering and any set of
segments:

| theorem | property |
|---|---|
| `TypeCorrect` | `TypeOK` |
| `TableCorrect` | `TableSound` |
| `DispatchCorrect` | `DispatchedStates` |
| `OrphansAreDead` | `OnlyDeadOrphans` |
| `HandshakeCorrect` | `HandshakeEdges` |
| `SynCorrect` | `SynOnlyInHandshake` |
| `DeafCorrect` | `DeafNeverEstablished` |
| `EdgeCorrect` | `EdgeIsAcked` |
| `RefinementCorrect` | `Spec => Cycle!Spec` |

They rest on one inductive invariant, `IInv`, the conjunction of `MemoryInv`
(about tables and structures) and `OutputInv` (about the last step's output).
None of the properties is inductive alone: that a deletion by the connection's
own key hits its entry needs `TableSound`; that no second entry is made for a
connection needs that every core looks keys up with its own padding
(`DeafNeverEstablished`); `OnlyDeadOrphans` needs to know which states filed
connections are in; `HandshakeEdges` needs that the template is free of SYN and FIN
between two sends, for otherwise a retransmission would step `snd_nxt` by
another amount. `ConnInv` says the last for each structure.

The proof has four lemmas about memory, one for each thing a step can do to
a connection (update it in place, create it, drop it from the table, free it;
a fifth for steps that do nothing), lemmas about `Transmit`, and one lemma for
each handler and command that brings it under one of those. `EdgeCorrect` and
`RefinementCorrect` go through the actions once more, with `IInv` as the
hypothesis.

**TcpNetProofs**: `NetTypeCorrect`, `AcksCorrect` (`AcksOnlySent`) and `ResetsCorrect`
(`OnlyRefusals`), for any set of scenarios (stream lengths, windows, losses), any padding
values and table size. `HostMoves` and `PeerMoves` first sum up what a step of either side does to the
receive loop's entry, to the peer's counters and to the queues, one disjunct for each kind of
segment; the proofs about invariants go through these and not through the handlers again.
`NetInv` is `IInv` and what holds of the peer and of the two queues. `AcksOnlySent` alone
is not inductive:

* `Occupies`: what a segment on its way to the host takes up, the peer has used; so
  the edge a handler computes from it (`seq + 1`, `seq + len`) is one the peer has
  reached, however old the segment is, and whether or not its FIN carries a byte;
* `Reached`: so is the edge of each connection past SYN_SENT, which the next segments
  acknowledge;
* `OpeningInv`: `handle_tcp_syn_sent` acknowledges `seq + 1` of whatever it gets, SYN
  or not. While the receive loop's entry is in SYN_SENT and the peer has reset nothing, nothing
  but SYNs can come, each passes the acknowledgement check (`AnswerInRange`), and the entry
  leaves SYN_SENT on the first. This in turn needs that a peer which is still closed has
  sent nothing and has at most one bare SYN coming (`ClosedInv`).

`handle_tcp_fin_wait1` does the same without such a guard: hence `NoClose`, under
which `Reached` says FIN_WAIT1 does not occur.

`RefusalInv` carries `OnlyRefusals`: nothing is on its way to a closed peer but the SYN of a
`connect` (`Refuses`), and while the peer's handshake is on, every acknowledgement on its
way, and every one a handler could still build, is that of its SYN (`AtStart`). So no answer
of the host, to whatever repetition, is one the peer could refuse.

**TcpStreamProofs**: `StreamInOrder` (`StreamPrefix`) and `AckedPrinted`
(`AckedWasPrinted`), on top of `NetInv` and again for any set of scenarios.

*The order of the stream.* `StreamInv` describes the network that loses nothing, with a peer that
repeats whatever it likes:

* `Covered`: every byte the peer has sent before its FIN was shown or is on its way, and is
  on its way before (`Carried`) any segment that lies behind it in the stream. A repeated
  segment takes nothing away from this, so it is kept by the timer; were the queue described as
  a run of consecutive segments, it would not be;
* `SlotOK`: the receive loop's entry takes what comes: it is open before the first byte arrives, as
  up to then all that comes are SYNs and the acknowledgement of the host's own (`OpenerReady`); else
  the stream would lose its first byte to a handler that prints nothing. In ESTABLISHED
  data is taken wherever it starts, so the next byte is taken;
* `Waiting`, `SynsFirst`: bare SYNs are the first thing the peer says, repeated or not. None can
  start a second connection in the middle of a stream, which would print it without its start;
* `Dead`: after a FIN, a close, or an entry that found no place in the table nothing is printed any more.

*What may be forgotten.* `Safe(a)` says that every byte in front of number `a` that was sent
before the FIN has been shown. `AckedInv` says that everything that is or may come to
be an acknowledgement is safe: `una`, the numbers in the answers on their way, the `rcv_nxt`
of each connection that has heard of the peer (`EdgesSafe`), and, where segments may be lost,
the starts of the segments on their way, as a handler takes its edge from
those (`seq + len`) wherever they lie. A new byte starts safe because the peer sends it
only after its predecessor was acknowledged (`NoGaps`). In an ordered network it is
`Covered` that says so. The byte on the FIN is outside of `Safe`, which is how the proof gets past
the acknowledgement of an unprinted byte, and exactly there.

**TcpThreadsProofs**: each property of `threads`, for any number of cores, keys,
entries and connections and any steering: `ThreadsTypeCorrect`, `EntriesCorrect`,
`HeldCorrect`, `NeverDeafCorrect`, `InterventionCorrect`, and `OwnershipCorrect`
(`Spec => Owned!Spec`). The inductive invariant adds to the properties:

* `RxShape`, `CliShape`: what each place says of the local variables; a connection
  the command line is about to add is allocated, and in no table;
* `HeldHere`: what a receive loop holds is in no table but its own core's, and
  after its deletion in none. This is why the free is safe although nothing is
  locked: only the core itself takes its entries out, and between its lookup and
  its free no one else can file the connection again;
* `FiledStates`: a filed connection in a state without a case is one its core is
  at work on. The stale store of a `close` cannot break this, as FIN_WAIT1 has a
  case; were it any other state, `NeverDeaf` would be lost (the mutant
  `active_close_stores`).

`EntriesLive` needs `HeldHere` (a free must not leave an entry behind), `HeldHere`
needs `EntriesLive` (two entries of one connection could not both be deleted), and
the second deletion of `tcp.c:101` is harmless to `EntriesLive` only because it may
remove a foreign entry but never adds one.

**ControlProofs**: `ControlTypeCorrect` (the buffers never overflow), `StopsCorrect`,
`CommandsCorrect` (`CommandsIntact`) and `PanelCorrect` (`Spec => Promise!Spec`) for any clients, lines, sessions, buffer sizes and number of cores. `PanelInv` says that
what is left of a read was really sent, which bounds the byte loop's index;
`StopInv` that a core that does not poll was told to stop, and so is not launched
again: `start` is refused unless the core is in WAIT, where it gets only through
`rte_eal_mp_wait_lcore`, at the very end. `CommandsIntact` and `RunsInOrder` need
`CalmInv`. Its core is `Collected(c)`: the buffer holds, byte for byte, what `c` has
typed between its last newline and the byte to handle next. Of a single client this
is true all the time (`AloneInv`). Of several it is true in the byte loop (`WholeInv`):
main() leaves a client only between two lines (`Ends`), so that the buffer is empty
whenever it is not in that loop, and what one read takes ends with a newline. Then the byte that
is handled belongs to the row that begins right after that newline (`RowFacts`), which
the buffer has room for, so nothing is refused; and the row's own newline finds exactly
the row collected (`TextIs`). `StepsOfPanel` maps the steps: storing a byte moves no
newline, running a line moves to the next one, and all else leaves both alone.

**MbufsProofs**: `MbufsTypeCorrect` (no ring or burst holds more than it has room for)
and `LeaksCorrect`, for any number of buffers and slaves and rings of any size.
`WorkInv` says that a loop at work has a frame and a sender in `send_p` a buffer;
`KeptInv` is `LeaksOnlyFiltered` with the places spelled out, and each step is shown
to keep every buffer in some place: `Moved` for the receive side, `SendKept`
for `send_p` and the driver. It is inductive only because buffers may have doubles:
that a put of a double is dropped at a full pool is counted as a loss.

The assumptions are the named ones of the modules (`SeqAssumption`, `TcpAssumption`,
`NetAssumption`, `ThreadsAssumption`, `ControlAssumption`, `MbufsAssumption`); TLC evaluates each in
a passing run. `NetAssumption` asks for one core, a table with at least one entry, and streams shorter
than the circle.

Model-checked only: liveness (`TcpNet`, `Mbufs`, `Control`), which is out of TLAPS's
reach: `HandshakeCompletes`, `DataAcked`, `PeerCloseCompletes`, `ConnectCompletes`,
`CloseCompletes`, `KeepsReceiving`, `QuitEnds`, `LinesRun` and `HangupsClosed`. Every
safety property of a passing run is a theorem.

## 6. What the models found

Each of these is a run that TLC finds violated, listed under "findings":

| run | what the source says | what it does |
|---|---|---|
| `two_entries` | the key has 12 bytes (`tcp.h:91`), a repeated connect is noticed (`tcp.c:280`) | the key has 16, and one flow may get two entries |
| `closed_early` | "if it is FIN ACK, close directly" (`tcp_fin_wait1.c:24`) | any acceptable segment closes it |
| `too_long` | "Command too long." (`conn.c:19`) | the tail of the refused line is run as a command |
| `entry_replaced` | "altrady has that connection" (`tcp.c:280`) | a SYN handled between the lookup and the add of `connect` makes a connection whose entry the add replaces |
| `sent_as_built` | "Actually send the packet" (`nic.c:74`) | the buffer is given back before it was sent, is filled again, and other contents go out |

Further remarks, met while modelling and not the subject of a run:

* After the free, the key of the segment is deleted once more (`tcp.c:101`): an entry
  that `connect` has added for this key meanwhile goes with it.
* The answer to a SYN that `connect` has sent is dropped as unknown if it is handled
  before the entry is added.
* The header template and `snd_nxt` of a connection are written by the command line
  and the receive loop without a lock. `TcpThreads` does not have them.
* `connect` without an address scans NULL (`cli.c:381`).
* `port` is passed to `rte_eth_rx_burst` uninitialised (`tcp.c:32`).
* Data behind the receive edge is printed again and moves the edge back (`tcp_establish.c:34-36`),
  although the comment at `tcp.c:222-225` quotes that old data is discarded: a byte whose
  acknowledgement was lost, or only slow, is shown twice.
* A segment whose `total_length` is shorter than its headers moves the edge back without any data, and
  its echo, in LISTEN or with a FIN, is a copy of nearly 2^64 bytes (`tcp.c:73`).
* A `send` of more than 100 bytes writes behind the field `payload`, the last of the structure (`tcp.c:293-295`).
* A `connect` that the peer refuses with RST,ACK becomes ESTABLISHED, and the RST is
  acknowledged with `seq + 1`, a number that the peer has never used (`tcp_syn_sent.c:12-27`).
* The range `una-1 .. nxt+1` of `tcp_syn_sent.c:16` holds `una` itself: a segment
  that acknowledges nothing establishes the connection. The handler then stores
  `una = ackn + 1`, which for the ordinary answer is one past `snd_nxt`.
* `una` is set once, in the handshake. After 2^31 bytes of the user's stream no
  acknowledgement is in the range of `tcp_fin_wait1.c:18` and a close never ends.
* `snd_nxt` moves over data when the acknowledgement arrives. Two sends before it
  overlap, and a FIN sent before it takes the number of the first unacknowledged
  byte, is old data to the peer, and leaves the host in FIN_WAIT1.
* FIN_WAIT1 acknowledges `seq + 1` of whatever closes it. For a segment that is a
  bare ACK this acknowledges a byte the peer has not sent.
* A repeated SYN,ACK in ESTABLISHED is not answered; if the ACK of the first was
  lost, the peer stays in SYN_RECV until the user sends something.
* A FIN ahead of missing data is accepted.
* Of data that comes with a FIN nothing is printed, the first byte is acknowledged, and the FIN
  is not (`tcp_establish.c:20-27`). The connection goes to LAST_ACK all the same and is freed on the
  next segment; the peer's FIN is never acknowledged. With a SYN or a FIN, the data is sent back in the
  answer, whose length is that of what was received (`tcp.c:84`, `tcp_establish.c:25`).
* Of a client that hangs up one more read is made: what it has typed beyond `buf_size`
  bytes is never run.
* A second `connect` to the same server uses the same port (8000).
* `msg_in_len` is not reset when a write fails; half a line of
  one client is continued by the next one's; a write to a client that has gone raises SIGPIPE, which
  ends the process; an address that does not parse calls `exit(1)`.
* `start` is refused (`-EBUSY`) whenever the cores run or have finished, which is
  always: they are launched by `config_init`.
* When `conn_init` fails, `main` returns a status it never set and does not stop
  the cores. `conn_free` does not free `buf`.
* `tcp_rx_packets` is declared `_Noreturn` and returns once `dp_quit` is set. At
  `-O0`, as the Makefile builds it, the return is an ordinary one, and the model
  has it so (`CoreStops`).

## 7. What is not modelled

* *Inside a library call.* The calls of `rte_hash`, of the allocator, of the pool
  and of the driver are single steps. `rte_hash` does not promise this without its
  concurrency flags, which the code does not set; what a torn table would do is
  beyond the source. The caches of the pool for each lcore are left out too.
* *The template and the numbers under concurrency.* `TcpThreads` has the table, the
  structures' lifetime and `tcpState`; the numbers are in `Tcp`, where a handler and a
  command do not overlap.
* *The command line's end in Mbufs.* `dp_quit` stops the loops; `Mbufs` runs for ever.
* *Reading the configuration, EAL and port set-up*: a straight line of calls, run once
  before anything is concurrent. Its result (a core, a queue and a table for each
  slave, armed rings, one pool, a promiscuous port, launched loops) is the initial
  state of the modules.
* *The parser, conversions, printing*: pure functions on text without a property of
  the system behind them. The parser is taken from the DPDK examples and only
  `parse_tokenize_string` is called. `string_to_ip`'s `exit(1)` is in `Control`.
* *Checksums, MAC and IP headers*: written on every send and never read by a
  handler, except for the test of the two addresses, which is in `Mbufs`.
* *The notebook under `script/`*: measurements.

## 8. Plan

Done in this order: `SeqSpace` and its proofs; `Tcp`, `Lifecycle`, their runs and
proofs; `TcpNet`; `Control`; `TcpThreads`, `Ownership` and their proofs; `Mbufs` and its
proofs; the proofs about `Control` and `TcpNet`; the order of the stream; `Panel` and the order of the lines.

Left, in order of importance:

1. **The template in TcpThreads**: `flags` and `snd_nxt` as data two threads write.
2. **Mbufs with two slaves** and a pool large enough that neither starves the other.

## 9. How to run

```
tlc -workers 2 -config MCTcpSeq.cfg MCTcp      # any run of PROJECT.json
tlapm TcpProofs.tla                            # and the other *Proofs modules
```
