----------------------------- MODULE TcpThreads -----------------------------
(***************************************************************************)
(* The same tables and connection structures as in Tcp, with the handlers  *)
(* and the commands taken apart: the receive loops of the slave lcores and *)
(* the command line on the master lcore run at the same time and share     *)
(* both without a lock.                                                    *)
(*                                                                         *)
(* A step is a call of rte_hash or of the allocator (assumed to be atomic, *)
(* which is more than rte_hash promises without its concurrency flags) or  *)
(* an assignment to tcpState.  Steps that touch only what no other thread  *)
(* can reach yet are joined to the one before.  Sequence numbers, flags    *)
(* and the segments themselves are left out: a handler may take any branch *)
(* that some segment would make it take.                                   *)
(***************************************************************************)
EXTENDS Naturals, FiniteSets

CONSTANTS NumCores,     \* slave lcores, each with a table and a receive loop
          Keys,         \* keys of the tables
          Steer,        \* the core whose receive loop looks up the key; 0: none does
          HashEntries,  \* hash_params.entries
          ConnIds,      \* addresses of struct connection rte_malloc hands out
          None          \* no connection, no key

Cores == 1 .. NumCores

ASSUME ThreadsAssumption ==
  /\ NumCores \in Nat \ {0}
  /\ Steer \in [Keys -> 0 .. NumCores]
  /\ HashEntries \in Nat
  /\ None \notin ConnIds /\ None \notin Keys

\* What the dispatcher of tcp_rx_packets has a case for and some step stores.
Dispatched == {"SYN_SENT", "SYN_RECV", "ESTABLISHED", "FIN_WAIT1", "LAST_ACK"}
States     == Dispatched \cup {"FIN_WAIT2", "CLOSE_WAIT", "CLOSE"}

Connection == [key : Keys, tcpState : States]

\* Where a receive loop is between two steps of one segment:
\*   poll       it holds no segment
\*   listen     the lookup found nothing
\*   add        handle_tcp_listen has returned a connection
\*   found      the lookup found one, its state has not been read
\*   a state    the handler for that state was called
\*   closing    TCP_CLOSE_WAIT is stored, and the FIN is being sent
\*   unfile     TCP_FIN_WAIT2 is stored, and the entry is to be deleted
\*   closed     TCP_CLOSE is stored, and the entry is to be deleted
\*   free       handle_tcp_last_ack has returned
\*   again      the structure is freed; the key is deleted once more
AtHandler == Dispatched \cup {"closing", "unfile", "closed"}
RxPlaces  == {"poll", "listen", "add", "found", "free", "again"} \cup AtHandler

\* And the command line: between two commands; "connect" has seen no entry, or
\* has a connection to add; "close" goes through the tables, or has found one.
CliPlaces == {"idle", "absent", "add", "search", "close"}

VARIABLES table,  \* _tcp->rteHash of each core
          conn,   \* the allocated struct connection, by address
          rx,     \* each receive loop
          cli     \* the command line

vars == <<table, conn, rx, cli>>

ThreadsTypeOK ==
  /\ table \in [Cores -> [Keys -> ConnIds \cup {None}]]
  /\ DOMAIN conn \subseteq ConnIds
  /\ conn \in [DOMAIN conn -> Connection]
  /\ rx \in [Cores -> [at : RxPlaces, key : Keys \cup {None}, id : ConnIds \cup {None}]]
  /\ cli \in [at : CliPlaces, key : Keys \cup {None}, id : ConnIds \cup {None}, core : Cores]

Polling == [at |-> "poll", key |-> None, id |-> None]
Idle    == [at |-> "idle", key |-> None, id |-> None, core |-> 1]

Init ==
  /\ table = [k \in Cores |-> [key \in Keys |-> None]]
  /\ conn = [id \in {} |-> None]
  /\ rx = [k \in Cores |-> Polling]
  /\ cli = Idle

-----------------------------------------------------------------------------
(* Memory and table *)

Allocated(id) == id \in DOMAIN conn

\* rte_malloc, and the assignments that fill the structure before it is shared.
Malloc(id, key, st) ==
  /\ id \in ConnIds \ DOMAIN conn
  /\ conn' = [x \in DOMAIN conn \cup {id} |->
                IF x = id THEN [key |-> key, tcpState |-> st] ELSE conn[x]]

\* rte_free(id)
Free(id) == conn' = [x \in DOMAIN conn \ {id} |-> conn[x]]

\* id->tcpState = st.  What is stored in freed memory is lost; if the address has
\* been handed out again it is the new connection that gets it.
SetState(id, st) ==
  conn' = [x \in DOMAIN conn |-> IF x = id THEN [conn[x] EXCEPT !.tcpState = st] ELSE conn[x]]

Load(k) == Cardinality({key \in Keys : table[k][key] # None})

\* rte_hash_add_key_data(k's table, key, id); its -ENOSPC is not looked at.
Add(k, key, id) ==
  table' = IF table[k][key] # None \/ Load(k) < HashEntries
           THEN [table EXCEPT ![k][key] = id]
           ELSE table

\* rte_hash_del_key(k's table, key)
Delete(k, key) == table' = [table EXCEPT ![k][key] = None]

-----------------------------------------------------------------------------
(* tcp_rx_packets on core k *)

Goto(k, at) == rx' = [rx EXCEPT ![k].at = at]
Done(k)     == rx' = [rx EXCEPT ![k] = Polling]

\* A segment with this key is in hand, and is looked up.
Lookup(k, key) ==
  /\ rx[k].at = "poll"
  /\ Steer[key] = k
  /\ rx' = [rx EXCEPT ![k] = [at  |-> IF table[k][key] = None THEN "listen" ELSE "found",
                              key |-> key, id |-> table[k][key]]]
  /\ UNCHANGED <<table, conn, cli>>

\* handle_tcp_listen: only a bare SYN makes a connection.
handle_tcp_listen(k) ==
  /\ rx[k].at = "listen"
  /\ \/ \E id \in ConnIds :
          /\ Malloc(id, rx[k].key, "SYN_RECV")
          /\ rx' = [rx EXCEPT ![k].at = "add", ![k].id = id]
     \/ Done(k) /\ UNCHANGED conn
  /\ UNCHANGED <<table, cli>>

AddListener(k) ==
  /\ rx[k].at = "add"
  /\ Add(k, rx[k].key, rx[k].id)
  /\ Done(k)
  /\ UNCHANGED <<conn, cli>>

\* switch (connection->tcpState)
Dispatch(k) ==
  /\ rx[k].at = "found"
  /\ LET st == conn[rx[k].id].tcpState
     IN  IF st \in Dispatched THEN Goto(k, st) ELSE Done(k)
  /\ UNCHANGED <<table, conn, cli>>

\* The handler returns without a change of state: a segment that is refused, data,
\* a repeated SYN.
Nothing(k) ==
  /\ rx[k].at \in Dispatched \ {"LAST_ACK"}
  /\ Done(k)
  /\ UNCHANGED <<table, conn, cli>>

\* handle_tcp_syn_recv and handle_tcp_syn_sent, when the SYN is acknowledged.
Establish(k) ==
  /\ rx[k].at \in {"SYN_RECV", "SYN_SENT"}
  /\ SetState(rx[k].id, "ESTABLISHED")
  /\ Done(k)
  /\ UNCHANGED <<table, cli>>

\* Mutant: the second assignment is missing.
PeerCloses_once(k) ==
  /\ rx[k].at = "ESTABLISHED" /\ SetState(rx[k].id, "CLOSE_WAIT") /\ Done(k)
  /\ UNCHANGED <<table, cli>>

\* handle_tcp_establish with a FIN: two assignments, the FIN is sent between them.
PeerCloses(k) ==
  /\ \/ rx[k].at = "ESTABLISHED" /\ SetState(rx[k].id, "CLOSE_WAIT") /\ Goto(k, "closing")
     \/ rx[k].at = "closing"     /\ SetState(rx[k].id, "LAST_ACK")   /\ Done(k)
  /\ UNCHANGED <<table, cli>>

\* Mutant: the structure is freed where its entry should be deleted.
handle_tcp_fin_wait1_frees(k) ==
  \/ /\ rx[k].at = "FIN_WAIT1"
     /\ SetState(rx[k].id, "FIN_WAIT2") /\ Goto(k, "unfile")
     /\ UNCHANGED <<table, cli>>
  \/ /\ rx[k].at = "unfile"
     /\ Free(rx[k].id) /\ Done(k)
     /\ UNCHANGED <<table, cli>>

\* handle_tcp_fin_wait1: the ACK is sent in between; the key is the connection's.
handle_tcp_fin_wait1(k) ==
  \/ /\ rx[k].at = "FIN_WAIT1"
     /\ SetState(rx[k].id, "FIN_WAIT2") /\ Goto(k, "unfile")
     /\ UNCHANGED <<table, cli>>
  \/ /\ rx[k].at = "unfile"
     /\ Delete(k, conn[rx[k].id].key) /\ Done(k)
     /\ UNCHANGED <<conn, cli>>

\* Mutant: the deletion is left to the dispatcher, which frees first.
handle_tcp_last_ack_keeps(k) ==
  /\ rx[k].at = "LAST_ACK"
  /\ SetState(rx[k].id, "CLOSE") /\ Goto(k, "free")
  /\ UNCHANGED <<table, cli>>

handle_tcp_last_ack(k) ==
  \/ /\ rx[k].at = "LAST_ACK"
     /\ SetState(rx[k].id, "CLOSE") /\ Goto(k, "closed")
     /\ UNCHANGED <<table, cli>>
  \/ /\ rx[k].at = "closed"
     /\ Delete(k, conn[rx[k].id].key) /\ Goto(k, "free")
     /\ UNCHANGED <<conn, cli>>

\* The rest of the LAST_ACK case: the structure is freed, and the key of the
\* segment is deleted, which may by now be that of a new entry.
FreeClosed(k) ==
  \/ /\ rx[k].at = "free"
     /\ Free(rx[k].id) /\ Goto(k, "again")
     /\ UNCHANGED <<table, cli>>
  \/ /\ rx[k].at = "again"
     /\ Delete(k, rx[k].key) /\ Done(k)
     /\ UNCHANGED <<conn, cli>>

Slave(k) ==
  \/ \E key \in Keys : Lookup(k, key)
  \/ handle_tcp_listen(k) \/ AddListener(k)
  \/ Dispatch(k) \/ Nothing(k)
  \/ Establish(k) \/ PeerCloses(k)
  \/ handle_tcp_fin_wait1(k)
  \/ handle_tcp_last_ack(k) \/ FreeClosed(k)

-----------------------------------------------------------------------------
(* The command line, on the master lcore *)

\* "connect": with an entry there is nothing to do; without one a connection is
\* made, its SYN sent, and the entry added in three steps.
active_connect ==
  \/ /\ cli.at = "idle"
     /\ \E key \in Keys : /\ table[1][key] = None
                          /\ cli' = [Idle EXCEPT !.at = "absent", !.key = key]
     /\ UNCHANGED <<table, conn, rx>>
  \/ /\ cli.at = "absent"
     /\ \E id \in ConnIds : /\ Malloc(id, cli.key, "SYN_SENT")
                            /\ cli' = [cli EXCEPT !.at = "add", !.id = id]
     /\ UNCHANGED <<table, rx>>
  \/ /\ cli.at = "add"
     /\ Add(1, cli.key, cli.id)
     /\ cli' = Idle
     /\ UNCHANGED <<conn, rx>>

\* Mutant: one table too many.
MoreTables_one == cli.core <= NumCores

MoreTables == cli.core < NumCores

\* "close" asks one table after the other and closes the first connection found,
\* on which nothing keeps its core from working meanwhile.
Search ==
  \/ /\ cli.at = "idle"
     /\ \E key \in Keys : cli' = [Idle EXCEPT !.at = "search", !.key = key]
     /\ UNCHANGED <<table, conn, rx>>
  \/ /\ cli.at = "search"
     /\ LET id == table[cli.core][cli.key]
        IN  cli' = IF id # None THEN [cli EXCEPT !.at = "close", !.id = id]
                   ELSE IF MoreTables THEN [cli EXCEPT !.core = @ + 1]
                   ELSE Idle
     /\ UNCHANGED <<table, conn, rx>>

\* Mutant: the structure is freed once the FIN is sent.
active_close_frees ==
  /\ cli.at = "close"
  /\ Free(cli.id)
  /\ cli' = Idle
  /\ UNCHANGED <<table, rx>>

\* Mutant: the connection is over once the FIN is sent.
active_close_stores ==
  /\ cli.at = "close"
  /\ SetState(cli.id, "CLOSE")
  /\ cli' = Idle
  /\ UNCHANGED <<table, rx>>

\* The FIN is sent first.
active_close ==
  /\ cli.at = "close"
  /\ SetState(cli.id, "FIN_WAIT1")
  /\ cli' = Idle
  /\ UNCHANGED <<table, rx>>

Next == (\E k \in Cores : Slave(k)) \/ active_connect \/ Search \/ active_close

Spec == Init /\ [][Next]_vars

-----------------------------------------------------------------------------
(* Properties *)

\* An entry leads to an allocated, initialised connection that carries the
\* entry's key, in one table only, whatever the two threads are in the middle of:
\* the segment handlers never follow a dangling entry.
EntriesLive ==
  \A k \in Cores, key \in Keys : table[k][key] # None =>
    /\ Allocated(table[k][key])
    /\ conn[table[k][key]].key = key
    /\ \A j \in Cores, other \in Keys : table[j][other] = table[k][key] => j = k /\ other = key

\* The connection a receive loop works on, from the lookup to the rte_free, is
\* the one it looked up: not freed, not handed out again for another key, and in
\* nobody else's hands but those of a "close".
HeldIsLive ==
  \A k \in Cores : rx[k].at \in AtHandler \cup {"add", "found", "free"} =>
    /\ Allocated(rx[k].id)
    /\ conn[rx[k].id].key = rx[k].key
    /\ \A j \in Cores : rx[j].id = rx[k].id /\ rx[j].at # "again" => j = k
    /\ cli.at = "add" => cli.id # rx[k].id

\* A receive loop that goes to an entry finds a state it has a case for, although
\* the state is stored twice by some handlers and by "close" at any moment: no
\* connection is left deaf with its entry in the table.
NeverDeaf ==
  \A k \in Cores : rx[k].at = "found" => conn[rx[k].id].tcpState \in Dispatched

\* What a handler has read or stored still holds when it goes on, except that a
\* "close" may have stored TCP_FIN_WAIT1 meanwhile, of this connection or of one
\* that had the same address before.
Expected(at) == CASE at \in Dispatched -> at
                  [] at = "add"        -> "SYN_RECV"
                  [] at = "closing"    -> "CLOSE_WAIT"
                  [] at = "unfile"     -> "FIN_WAIT2"
                  [] OTHER             -> "CLOSE"

OnlyCloseIntervenes ==
  \A k \in Cores : rx[k].at \in AtHandler \cup {"add", "free"} =>
    conn[rx[k].id].tcpState \in {Expected(rx[k].at), "FIN_WAIT1"}

\* The promises of module Ownership.
Filed(id)   == \E k \in Cores, key \in Keys : table[k][key] = id
Private(id) == \/ \E k \in Cores : rx[k].at = "add" /\ rx[k].id = id
               \/ cli.at = "add" /\ cli.id = id

Owner == [id \in ConnIds |-> IF ~Allocated(id) THEN "free"
                             ELSE IF Filed(id) THEN "filed"
                             ELSE IF Private(id) THEN "private"
                             ELSE "loose"]

Owned == INSTANCE Ownership WITH Ids <- ConnIds, owner <- Owner

\* However the threads interleave, an address is shared once, after it was filled,
\* and freed only when no table leads to it any more.
ImplementsOwnership == Owned!Spec

-----------------------------------------------------------------------------
(* What a comment says and the code does not do. *)

\* "altrady has that connection" (tcp.c:280): a connection that is in the table is
\* not replaced by another.
EntriesKept ==
  [][\A k \in Cores, key \in Keys :
       table[k][key] # None => table'[k][key] \in {table[k][key], None}]_vars

=============================================================================
