-------------------------- MODULE TcpThreadsProofs --------------------------
(***************************************************************************)
(* Proofs about TcpThreads: the invariants its runs check hold for any     *)
(* number of cores, keys and connections, and the threads implement        *)
(* Ownership.                                                              *)
(***************************************************************************)
EXTENDS TcpThreads, TLAPS

\* What each place of a receive loop says of its key and its connection.
Holding == AtHandler \cup {"add", "found", "free"}
RxLoop  == [at : RxPlaces, key : Keys \cup {None}, id : ConnIds \cup {None}]

RxShape ==
  \A k \in Cores :
    /\ rx[k].at = "poll"   => rx[k].key = None /\ rx[k].id = None
    /\ rx[k].at = "listen" => rx[k].key \in Keys /\ rx[k].id = None
    /\ rx[k].at \in Holding \cup {"again"} => rx[k].key \in Keys /\ rx[k].id \in ConnIds

\* The same of the command line; a connection it is about to add is its own.
CliShape ==
  /\ cli.at \in {"idle", "absent", "search"} => cli.id = None
  /\ cli.at \in {"absent", "add", "search"} => cli.key \in Keys
  /\ cli.at \in {"add", "close"} => cli.id \in ConnIds
  /\ cli.at = "add" =>
       /\ Allocated(cli.id)
       /\ conn[cli.id].key = cli.key
       /\ conn[cli.id].tcpState \in Dispatched
       /\ \A j \in Cores, key \in Keys : table[j][key] # cli.id

\* Only the table of the core that holds a connection may lead to it, and none
\* when it was not added yet or was deleted already.
HeldHere ==
  \A k \in Cores : rx[k].at \in Holding =>
    \A j \in Cores, key \in Keys :
      table[j][key] = rx[k].id => j = k /\ rx[k].at \notin {"add", "free"}

\* A filed connection is in a state with a case, unless its core is at it.
FiledStates ==
  \A k \in Cores, key \in Keys : table[k][key] # None =>
    \/ conn[table[k][key]].tcpState \in Dispatched
    \/ rx[k].id = table[k][key] /\ rx[k].at \in {"closing", "unfile", "closed"}

IInv == /\ ThreadsTypeOK /\ RxShape /\ CliShape
        /\ EntriesLive /\ HeldIsLive /\ HeldHere
        /\ FiledStates /\ OnlyCloseIntervenes /\ NeverDeaf


\* It holds when nothing is allocated and nobody is at work.
THEOREM InitIInv == Init => IInv
  BY ThreadsAssumption, SMT
  DEF Init, IInv, ThreadsTypeOK, RxShape, CliShape, EntriesLive, HeldIsLive, HeldHere, FiledStates,
      OnlyCloseIntervenes, NeverDeaf, Polling, Idle, Holding, AtHandler, Dispatched, RxPlaces,
      CliPlaces, Cores, Allocated

\* A receive loop without a connection holds none or is about to look again.
LEMMA PlaceFacts ==
  ASSUME IInv, NEW j \in Cores
  PROVE  rx[j].id = None \/ rx[j].at = "again" \/ rx[j].at \in Holding
  <1>1. rx[j].at \in {"poll", "listen", "again"} \cup Holding
    BY DEF IInv, ThreadsTypeOK, RxPlaces, Holding
  <1> QED
    BY <1>1 DEF IInv, RxShape

\* What the two ways to leave a place do to the receive loops.
LEMMA GotoEffect ==
  ASSUME rx \in [Cores -> RxLoop], NEW k \in Cores, NEW at \in RxPlaces, Goto(k, at)
  PROVE  /\ rx' \in [Cores -> RxLoop]
         /\ \A j \in Cores : j # k => rx'[j] = rx[j]
         /\ rx'[k].at = at /\ rx'[k].key = rx[k].key /\ rx'[k].id = rx[k].id
  <1>1. rx' = [rx EXCEPT ![k] = [rx[k] EXCEPT !.at = at]]
    BY DEF Goto
  <1>2. /\ [rx[k] EXCEPT !.at = at] \in RxLoop
        /\ [rx[k] EXCEPT !.at = at].at = at
        /\ [rx[k] EXCEPT !.at = at].key = rx[k].key
        /\ [rx[k] EXCEPT !.at = at].id = rx[k].id
    BY DEF RxLoop
  <1> QED
    BY <1>1, <1>2

LEMMA DoneEffect ==
  ASSUME rx \in [Cores -> RxLoop], NEW k \in Cores, Done(k)
  PROVE  /\ rx' \in [Cores -> RxLoop]
         /\ \A j \in Cores : j # k => rx'[j] = rx[j]
         /\ rx'[k].at = "poll" /\ rx'[k].key = None /\ rx'[k].id = None
  <1>1. Polling \in RxLoop /\ Polling.at = "poll" /\ Polling.key = None /\ Polling.id = None
    BY DEF Polling, RxLoop, RxPlaces
  <1> QED
    BY <1>1 DEF Done

\* A segment is looked up: its entry, if there is one, leads to a live connection.
LEMMA LookupStep ==
  ASSUME IInv, NEW k \in Cores, NEW key \in Keys, Lookup(k, key) PROVE IInv'
  <1>1. /\ rx[k].at = "poll" /\ UNCHANGED <<table, conn, cli>>
        /\ \A j \in Cores : j # k => rx'[j] = rx[j]
        /\ rx'[k].at = IF table[k][key] = None THEN "listen" ELSE "found"
        /\ rx'[k].key = key
        /\ rx'[k].id = table[k][key]
        /\ table[k][key] \in ConnIds \cup {None}
        /\ rx' \in [Cores -> [at : RxPlaces, key : Keys \cup {None}, id : ConnIds \cup {None}]]
    BY DEF Lookup, IInv, ThreadsTypeOK, RxPlaces
  <1>2. ThreadsTypeOK'  BY <1>1 DEF IInv, ThreadsTypeOK
  <1>3. RxShape'
    BY <1>1, ThreadsAssumption DEF IInv, RxShape, Holding, AtHandler, Dispatched
  <1>4. CliShape'  BY <1>1 DEF IInv, CliShape, Allocated
  <1>5. EntriesLive'  BY <1>1 DEF IInv, EntriesLive, Allocated
  <1>6. HeldIsLive'
    <2>1. CASE table[k][key] = None
      BY <1>1, <2>1, ThreadsAssumption DEF IInv, RxShape, HeldIsLive, Allocated, Holding, AtHandler, Dispatched
    <2>2. CASE table[k][key] # None
      <3>1. Allocated(table[k][key]) /\ conn[table[k][key]].key = key
        BY <2>2 DEF IInv, EntriesLive
      <3>2. cli.at = "add" => cli.id # table[k][key]
        BY DEF IInv, CliShape
      <3>3. ASSUME NEW j \in Cores, rx[j].id = table[k][key], rx[j].at # "again" PROVE FALSE
        <4>1. rx[j].at \in Holding
          BY <2>2, <3>3, PlaceFacts
        <4>2. k = j
          BY <4>1, <3>3 DEF IInv, HeldHere
        <4> QED
          BY <4>1, <4>2, <1>1 DEF Holding, AtHandler, Dispatched
      <3> QED BY <1>1, <2>2, <3>1, <3>2, <3>3 DEF IInv, HeldIsLive, Allocated, AtHandler, Dispatched
    <2> QED BY <2>1, <2>2
  <1>7. HeldHere'
    <2> SUFFICES ASSUME NEW m \in Cores, rx'[m].at \in Holding, NEW j \in Cores, NEW other \in Keys,
                        table[j][other] = rx'[m].id
                 PROVE  j = m /\ rx'[m].at \notin {"add", "free"}
      BY <1>1 DEF HeldHere
    <2>1. CASE m # k
      BY <1>1, <2>1 DEF IInv, HeldHere
    <2>2. CASE m = k
      <3>1. rx'[k].at = "found" /\ table[j][other] = table[k][key] /\ table[k][key] # None
        BY <1>1, <2>2 DEF Holding, AtHandler, Dispatched
      <3> QED
        BY <3>1, <2>2 DEF IInv, EntriesLive
    <2> QED BY <2>1, <2>2
  <1>8. FiledStates'
    <2> SUFFICES ASSUME NEW j \in Cores, NEW other \in Keys, table[j][other] # None
                 PROVE  \/ conn[table[j][other]].tcpState \in Dispatched
                        \/ rx'[j].id = table[j][other] /\ rx'[j].at \in {"closing", "unfile", "closed"}
      BY <1>1 DEF FiledStates
    <2> QED BY <1>1 DEF IInv, FiledStates
  <1>9. OnlyCloseIntervenes'
    BY <1>1 DEF IInv, OnlyCloseIntervenes, Expected, AtHandler, Dispatched
  <1>10. NeverDeaf'
    BY <1>1 DEF IInv, NeverDeaf, FiledStates
  <1> QED BY <1>2, <1>3, <1>4, <1>5, <1>6, <1>7, <1>8, <1>9, <1>10 DEF IInv

\* The loop is done with a segment that changed nothing.
LEMMA DoneStep ==
  ASSUME IInv, NEW k \in Cores, Done(k), UNCHANGED <<table, conn, cli>>,
         rx[k].at \in Dispatched \cup {"listen"}
  PROVE  IInv'
  <1> USE DEF AtHandler, Dispatched
  <1>1. /\ \A j \in Cores : j # k => rx'[j] = rx[j]
        /\ rx'[k].at = "poll" /\ rx'[k].key = None /\ rx'[k].id = None
        /\ rx' \in [Cores -> [at : RxPlaces, key : Keys \cup {None}, id : ConnIds \cup {None}]]
    BY DEF Done, Polling, IInv, ThreadsTypeOK, RxPlaces
  <1>2. ThreadsTypeOK'  BY <1>1 DEF IInv, ThreadsTypeOK
  <1>3. RxShape'  BY <1>1 DEF IInv, RxShape, Holding
  <1>4. CliShape'  BY DEF IInv, CliShape, Allocated
  <1>5. EntriesLive'  BY DEF IInv, EntriesLive, Allocated
  <1>6. HeldIsLive'
    BY <1>1, ThreadsAssumption DEF IInv, RxShape, HeldIsLive, Allocated, Holding
  <1>7. HeldHere'  BY <1>1 DEF IInv, HeldHere, Holding
  <1>8. FiledStates'
    <2> SUFFICES ASSUME NEW j \in Cores, NEW other \in Keys, table[j][other] # None
                 PROVE  \/ conn[table[j][other]].tcpState \in Dispatched
                        \/ rx'[j].id = table[j][other] /\ rx'[j].at \in {"closing", "unfile", "closed"}
      BY DEF FiledStates
    <2> QED BY <1>1 DEF IInv, FiledStates
  <1>9. OnlyCloseIntervenes'  BY <1>1 DEF IInv, OnlyCloseIntervenes, Expected
  <1>10. NeverDeaf'  BY <1>1 DEF IInv, NeverDeaf
  <1> QED BY <1>2, <1>3, <1>4, <1>5, <1>6, <1>7, <1>8, <1>9, <1>10 DEF IInv

\* The state is read, and its handler entered.
LEMMA DispatchStep ==
  ASSUME IInv, NEW k \in Cores, Dispatch(k) PROVE IInv'
  <1> USE DEF AtHandler, Dispatched
  <1>1. /\ rx[k].at = "found" /\ UNCHANGED <<table, conn, cli>>
        /\ \A j \in Cores : j # k => rx'[j] = rx[j]
        /\ rx'[k].at = conn[rx[k].id].tcpState /\ rx'[k].at \in Dispatched
        /\ rx'[k].key = rx[k].key /\ rx'[k].id = rx[k].id
        /\ rx' \in [Cores -> [at : RxPlaces, key : Keys \cup {None}, id : ConnIds \cup {None}]]
    <2>1. /\ rx[k].at = "found" /\ UNCHANGED <<table, conn, cli>>
          /\ Goto(k, conn[rx[k].id].tcpState)
          /\ conn[rx[k].id].tcpState \in Dispatched
      BY DEF Dispatch, IInv, NeverDeaf
    <2>2. rx \in [Cores -> RxLoop] /\ RxLoop = [at : RxPlaces, key : Keys \cup {None}, id : ConnIds \cup {None}]
      BY DEF IInv, ThreadsTypeOK, RxLoop
    <2>3. conn[rx[k].id].tcpState \in RxPlaces
      BY <2>1 DEF RxPlaces
    <2> QED
      BY <2>1, <2>2, <2>3, GotoEffect
  <1>2. ThreadsTypeOK'  BY <1>1 DEF IInv, ThreadsTypeOK
  <1>3. RxShape'  BY <1>1 DEF IInv, RxShape, Holding
  <1>4. CliShape'  BY <1>1 DEF IInv, CliShape, Allocated
  <1>5. EntriesLive'  BY <1>1 DEF IInv, EntriesLive, Allocated
  <1>6. HeldIsLive'  BY <1>1 DEF IInv, HeldIsLive, Allocated
  <1>7. HeldHere'  BY <1>1 DEF IInv, HeldHere, Holding
  <1>8. FiledStates'
    <2> SUFFICES ASSUME NEW j \in Cores, NEW other \in Keys, table[j][other] # None
                 PROVE  \/ conn[table[j][other]].tcpState \in Dispatched
                        \/ rx'[j].id = table[j][other] /\ rx'[j].at \in {"closing", "unfile", "closed"}
      BY <1>1 DEF FiledStates
    <2> QED BY <1>1 DEF IInv, FiledStates
  <1>9. OnlyCloseIntervenes'  BY <1>1 DEF IInv, OnlyCloseIntervenes, Expected
  <1>10. NeverDeaf'  BY <1>1 DEF IInv, NeverDeaf
  <1> QED BY <1>2, <1>3, <1>4, <1>5, <1>6, <1>7, <1>8, <1>9, <1>10 DEF IInv

\* An assignment to tcpState changes nothing else.
LEMMA SetStateEffect ==
  ASSUME ThreadsTypeOK, NEW id \in ConnIds, NEW st \in States, SetState(id, st)
  PROVE  /\ DOMAIN conn' = DOMAIN conn
         /\ conn' \in [DOMAIN conn' -> Connection]
         /\ \A x \in DOMAIN conn : /\ conn'[x].key = conn[x].key
                                 /\ conn'[x].tcpState = IF x = id THEN st ELSE conn[x].tcpState
  <1>1. DOMAIN conn' = DOMAIN conn
    BY DEF SetState
  <1>2. ASSUME NEW x \in DOMAIN conn
        PROVE  /\ conn'[x] \in Connection
               /\ conn'[x].key = conn[x].key
               /\ conn'[x].tcpState = IF x = id THEN st ELSE conn[x].tcpState
    <2>1. conn[x] \in [key : Keys, tcpState : States]
      BY DEF ThreadsTypeOK, Connection
    <2>2. conn'[x] = IF x = id THEN [conn[x] EXCEPT !.tcpState = st] ELSE conn[x]
      BY DEF SetState
    <2> QED
      BY <2>1, <2>2 DEF Connection
  <1>3. conn' = [x \in DOMAIN conn |-> conn'[x]]
    BY DEF SetState
  <1> QED
    BY <1>1, <1>2, <1>3

\* A handler stores a state and goes on, or is done.
LEMMA StoreStep ==
  ASSUME IInv, NEW k \in Cores, NEW st \in States,
         rx[k].at \in Dispatched \cup {"closing"},
         SetState(rx[k].id, st),
         \/ Done(k) /\ st \in Dispatched
         \/ \E at \in {"closing", "unfile", "closed"} : Goto(k, at) /\ st = Expected(at),
         UNCHANGED <<table, cli>>
  PROVE  IInv'
  <1> USE DEF AtHandler, Dispatched
  <1> DEFINE id == rx[k].id
  <1>1. /\ \A j \in Cores : j # k => rx'[j] = rx[j]
        /\ rx' \in [Cores -> [at : RxPlaces, key : Keys \cup {None}, id : ConnIds \cup {None}]]
        /\ \/ /\ rx'[k].at = "poll" /\ rx'[k].key = None /\ rx'[k].id = None
              /\ st \in Dispatched
           \/ /\ rx'[k].at \in {"closing", "unfile", "closed"} /\ st = Expected(rx'[k].at)
              /\ rx'[k].key = rx[k].key /\ rx'[k].id = id
    <2>1. rx \in [Cores -> RxLoop] /\ RxLoop = [at : RxPlaces, key : Keys \cup {None}, id : ConnIds \cup {None}]
      BY DEF IInv, ThreadsTypeOK, RxLoop
    <2>2. CASE Done(k) /\ st \in Dispatched
      BY <2>1, <2>2, DoneEffect
    <2>3. CASE \E at \in {"closing", "unfile", "closed"} : Goto(k, at) /\ st = Expected(at)
      <3>1. PICK at \in {"closing", "unfile", "closed"} : Goto(k, at) /\ st = Expected(at)
        BY <2>3
      <3>2. at \in RxPlaces
        BY DEF RxPlaces
      <3> QED
        BY <2>1, <3>1, <3>2, GotoEffect
    <2> QED
      BY <2>2, <2>3
  <1>a. id \in ConnIds /\ Allocated(id)
    BY DEF IInv, RxShape, HeldIsLive, Holding
  <1>b. /\ DOMAIN conn' = DOMAIN conn
        /\ conn' \in [DOMAIN conn' -> Connection]
        /\ \A x \in DOMAIN conn : /\ conn'[x].key = conn[x].key
                                /\ conn'[x].tcpState = IF x = id THEN st ELSE conn[x].tcpState
    BY <1>a, SetStateEffect DEF IInv
  <1>c. \A j \in Cores : j # k /\ rx[j].at \in Holding => rx[j].id # id
    BY DEF IInv, HeldIsLive, Holding
  <1>2. ThreadsTypeOK'  BY <1>1, <1>b DEF IInv, ThreadsTypeOK
  <1>3. RxShape'  BY <1>1 DEF IInv, RxShape, Holding
  <1>4. CliShape'
    <2>1. cli.at = "add" => cli.id # id
      BY DEF IInv, HeldIsLive
    <2> QED BY <1>b, <2>1 DEF IInv, CliShape, Allocated
  <1>5. EntriesLive'  BY <1>b DEF IInv, EntriesLive, Allocated
  <1>6. HeldIsLive'
    <2> SUFFICES ASSUME NEW m \in Cores, rx'[m].at \in AtHandler \cup {"add", "found", "free"}
                 PROVE  /\ rx'[m].id \in DOMAIN conn'
                        /\ conn'[rx'[m].id].key = rx'[m].key
                        /\ \A j \in Cores : rx'[j].id = rx'[m].id /\ rx'[j].at # "again" => j = m
                        /\ cli.at = "add" => cli.id # rx'[m].id
      BY DEF HeldIsLive, Allocated
    <2>1. /\ rx'[m].id = rx[m].id /\ rx'[m].key = rx[m].key
          /\ rx[m].at \in AtHandler \cup {"add", "found", "free"}
      BY <1>1
    <2>2. /\ rx[m].id \in DOMAIN conn /\ conn[rx[m].id].key = rx[m].key
          /\ \A j \in Cores : rx[j].id = rx[m].id /\ rx[j].at # "again" => j = m
          /\ cli.at = "add" => cli.id # rx[m].id
      BY <2>1 DEF IInv, HeldIsLive, Allocated
    <2>3. rx[m].id # None
      BY <2>1, ThreadsAssumption DEF IInv, RxShape, Holding
    <2>4. \A j \in Cores : rx'[j].id = rx[m].id /\ rx'[j].at # "again"
                             => rx[j].id = rx[m].id /\ rx[j].at # "again"
      BY <1>1, <2>3
    <2> QED
      BY <1>b, <2>1, <2>2, <2>4
  <1>7. HeldHere'  BY <1>1 DEF IInv, HeldHere, Holding
  <1>8. FiledStates'
    <2> SUFFICES ASSUME NEW j \in Cores, NEW other \in Keys, table[j][other] # None
                 PROVE  \/ conn'[table[j][other]].tcpState \in Dispatched
                        \/ rx'[j].id = table[j][other] /\ rx'[j].at \in {"closing", "unfile", "closed"}
      BY DEF FiledStates
    <2>1. Allocated(table[j][other])  BY DEF IInv, EntriesLive
    <2>2. CASE table[j][other] = id
      <3>1. j = k  BY <2>2 DEF IInv, HeldHere, Holding
      <3> QED BY <1>1, <1>a, <1>b, <2>2, <3>1 DEF Allocated
    <2>3. CASE table[j][other] # id
      BY <1>1, <1>b, <2>1, <2>3 DEF IInv, FiledStates, Allocated
    <2> QED BY <2>2, <2>3
  <1>9. OnlyCloseIntervenes'
    <2> SUFFICES ASSUME NEW j \in Cores, rx'[j].at \in AtHandler \cup {"add", "free"}
                 PROVE  conn'[rx'[j].id].tcpState \in {Expected(rx'[j].at), "FIN_WAIT1"}
      BY DEF OnlyCloseIntervenes
    <2>1. CASE j = k  BY <2>1, <1>1, <1>a, <1>b DEF Allocated
    <2>2. CASE j # k
      <3>1. rx[j].id # id /\ Allocated(rx[j].id)  BY <2>2, <1>1, <1>c DEF IInv, HeldIsLive, Holding
      <3> QED BY <2>2, <3>1, <1>1, <1>b DEF IInv, OnlyCloseIntervenes, Allocated
    <2> QED BY <2>1, <2>2
  <1>10. NeverDeaf'
    <2> SUFFICES ASSUME NEW j \in Cores, rx'[j].at = "found"
                 PROVE  conn'[rx'[j].id].tcpState \in Dispatched
      BY DEF NeverDeaf
    <2>1. j # k  BY <1>1
    <2>2. rx[j].id # id /\ Allocated(rx[j].id)  BY <2>1, <1>1, <1>c DEF IInv, HeldIsLive, Holding
    <2> QED BY <2>1, <2>2, <1>1, <1>b DEF IInv, NeverDeaf, Allocated
  <1> QED BY <1>2, <1>3, <1>4, <1>5, <1>6, <1>7, <1>8, <1>9, <1>10 DEF IInv

\* A handler or the dispatcher deletes an entry; what it held is then in no table.
LEMMA DeleteStep ==
  ASSUME IInv, NEW k \in Cores, NEW key \in Keys, Delete(k, key), UNCHANGED <<conn, cli>>,
         \/ rx[k].at = "unfile" /\ key = conn[rx[k].id].key /\ Done(k)
         \/ rx[k].at = "closed" /\ key = conn[rx[k].id].key /\ Goto(k, "free")
         \/ rx[k].at = "again" /\ Done(k)
  PROVE  IInv'
  <1> USE DEF AtHandler, Dispatched
  <1> DEFINE id == rx[k].id
  <1>1. /\ \A j \in Cores : j # k => rx'[j] = rx[j]
        /\ rx' \in [Cores -> [at : RxPlaces, key : Keys \cup {None}, id : ConnIds \cup {None}]]
        /\ \/ rx'[k].at = "poll" /\ rx'[k].key = None /\ rx'[k].id = None
           \/ /\ rx[k].at = "closed"
              /\ rx'[k].at = "free" /\ rx'[k].key = rx[k].key /\ rx'[k].id = id
    <2>1. CASE Done(k)
      BY <2>1 DEF Done, Polling, IInv, ThreadsTypeOK, RxPlaces
    <2>2. CASE rx[k].at = "closed" /\ Goto(k, "free")
      BY <2>2 DEF Goto, IInv, ThreadsTypeOK, RxPlaces
    <2> QED BY <2>1, <2>2
  <1>a. /\ table' \in [Cores -> [Keys -> ConnIds \cup {None}]]
        /\ \A j \in Cores, other \in Keys :
             table'[j][other] = IF j = k /\ other = key THEN None ELSE table[j][other]
    BY DEF Delete, IInv, ThreadsTypeOK
  <1>b. rx[k].at \in {"unfile", "closed"} =>
          \A j \in Cores, other \in Keys : table'[j][other] # id
    <2> SUFFICES ASSUME rx[k].at \in {"unfile", "closed"}, NEW j \in Cores, NEW other \in Keys,
                        table'[j][other] = id
                 PROVE  FALSE
      OBVIOUS
    <2>1. key = conn[id].key  OBVIOUS
    <2>2. id # None  BY ThreadsAssumption DEF IInv, RxShape, Holding
    <2>3. table[j][other] = id  BY <1>a, <2>2
    <2>4. j = k  BY <2>3 DEF IInv, HeldHere, Holding
    <2>5. conn[id].key = other  BY <2>2, <2>3 DEF IInv, EntriesLive
    <2> QED BY <1>a, <2>1, <2>2, <2>4, <2>5
  <1>2. ThreadsTypeOK'  BY <1>1, <1>a DEF IInv, ThreadsTypeOK
  <1>3. RxShape'  BY <1>1 DEF IInv, RxShape, Holding
  <1>4. CliShape'  BY <1>a, ThreadsAssumption DEF IInv, CliShape, Allocated
  <1>5. EntriesLive'  BY <1>a DEF IInv, EntriesLive, Allocated
  <1>6. HeldIsLive'
    BY <1>1, ThreadsAssumption DEF IInv, HeldIsLive, RxShape, Allocated, Holding
  <1>7. HeldHere'
    <2> SUFFICES ASSUME NEW m \in Cores, rx'[m].at \in Holding, NEW j \in Cores, NEW other \in Keys,
                        table'[j][other] = rx'[m].id
                 PROVE  j = m /\ rx'[m].at \notin {"add", "free"}
      BY DEF HeldHere
    <2>1. CASE m = k  BY <2>1, <1>1, <1>b DEF Holding
    <2>2. CASE m # k
      <3>1. rx[m].id # None  BY <2>2, <1>1, ThreadsAssumption DEF IInv, RxShape
      <3> QED BY <2>2, <3>1, <1>1, <1>a DEF IInv, HeldHere
    <2> QED BY <2>1, <2>2
  <1>8. FiledStates'
    <2> SUFFICES ASSUME NEW j \in Cores, NEW other \in Keys, table'[j][other] # None
                 PROVE  \/ conn'[table'[j][other]].tcpState \in Dispatched
                        \/ /\ rx'[j].id = table'[j][other]
                           /\ rx'[j].at \in {"closing", "unfile", "closed"}
      BY DEF FiledStates
    <2>1. table'[j][other] = table[j][other]  BY <1>a
    <2>2. CASE j = k /\ rx[k].at \in {"unfile", "closed"}
      BY <2>1, <2>2, <1>b DEF IInv, FiledStates
    <2>3. CASE ~(j = k /\ rx[k].at \in {"unfile", "closed"})
      BY <2>1, <2>3, <1>1 DEF IInv, FiledStates
    <2> QED BY <2>2, <2>3
  <1>9. OnlyCloseIntervenes'  BY <1>1 DEF IInv, OnlyCloseIntervenes, Expected
  <1>10. NeverDeaf'  BY <1>1 DEF IInv, NeverDeaf
  <1> QED BY <1>2, <1>3, <1>4, <1>5, <1>6, <1>7, <1>8, <1>9, <1>10 DEF IInv

\* The structure has no entry any more when it is freed.
LEMMA FreeStep ==
  ASSUME IInv, NEW k \in Cores, rx[k].at = "free", Free(rx[k].id), Goto(k, "again"),
         UNCHANGED <<table, cli>>
  PROVE  IInv'
  <1> USE DEF AtHandler, Dispatched
  <1> DEFINE id == rx[k].id
  <1>1. /\ \A j \in Cores : j # k => rx'[j] = rx[j]
        /\ rx' \in [Cores -> [at : RxPlaces, key : Keys \cup {None}, id : ConnIds \cup {None}]]
        /\ rx'[k].at = "again" /\ rx'[k].key = rx[k].key /\ rx'[k].id = id
    BY DEF Goto, IInv, ThreadsTypeOK, RxPlaces
  <1>a. /\ DOMAIN conn' = DOMAIN conn \ {id}
        /\ conn' \in [DOMAIN conn' -> Connection]
        /\ \A x \in DOMAIN conn' : conn'[x] = conn[x]
    BY DEF Free, IInv, ThreadsTypeOK
  <1>b. \A j \in Cores, key \in Keys : table[j][key] # id
    BY DEF IInv, HeldHere, Holding
  <1>c. \A j \in Cores : j # k /\ rx[j].at \in Holding => rx[j].id # id
    BY DEF IInv, HeldIsLive, Holding
  <1>2. ThreadsTypeOK'  BY <1>1, <1>a DEF IInv, ThreadsTypeOK
  <1>3. RxShape'  BY <1>1 DEF IInv, RxShape, Holding
  <1>4. CliShape'
    <2>1. cli.at = "add" => cli.id # id  BY DEF IInv, HeldIsLive
    <2> QED BY <1>a, <2>1 DEF IInv, CliShape, Allocated
  <1>5. EntriesLive'  BY <1>a, <1>b DEF IInv, EntriesLive, Allocated
  <1>6. HeldIsLive'
    BY <1>1, <1>a, <1>c DEF IInv, HeldIsLive, Allocated, Holding
  <1>7. HeldHere'  BY <1>1 DEF IInv, HeldHere, Holding
  <1>8. FiledStates'
    <2> SUFFICES ASSUME NEW j \in Cores, NEW other \in Keys, table'[j][other] # None
                 PROVE  \/ conn'[table'[j][other]].tcpState \in Dispatched
                        \/ /\ rx'[j].id = table'[j][other]
                           /\ rx'[j].at \in {"closing", "unfile", "closed"}
      BY DEF FiledStates
    <2>1. table[j][other] \in DOMAIN conn'  BY <1>a, <1>b DEF IInv, EntriesLive, Allocated
    <2> QED BY <2>1, <1>1, <1>a DEF IInv, FiledStates
  <1>9. OnlyCloseIntervenes'
    BY <1>1, <1>a, <1>c DEF IInv, OnlyCloseIntervenes, HeldIsLive, Allocated, Expected, Holding
  <1>10. NeverDeaf'
    BY <1>1, <1>a, <1>c DEF IInv, NeverDeaf, HeldIsLive, Allocated, Holding
  <1> QED BY <1>2, <1>3, <1>4, <1>5, <1>6, <1>7, <1>8, <1>9, <1>10 DEF IInv

\* What rte_malloc does to the memory.
LEMMA MallocEffect ==
  ASSUME ThreadsTypeOK, NEW id, NEW key \in Keys, NEW st \in States, Malloc(id, key, st)
  PROVE  /\ id \in ConnIds /\ ~Allocated(id)
         /\ DOMAIN conn' = DOMAIN conn \cup {id}
         /\ conn' \in [DOMAIN conn' -> Connection]
         /\ \A x \in DOMAIN conn : conn'[x] = conn[x]
         /\ conn'[id].key = key /\ conn'[id].tcpState = st
  BY DEF Malloc, ThreadsTypeOK, Connection, Allocated

\* A thread gets a new connection: nobody has its address.
LEMMA FreshAddress ==
  ASSUME IInv, NEW id, ~Allocated(id), id \in ConnIds
  PROVE  /\ \A j \in Cores, key \in Keys : table[j][key] # id
         /\ \A j \in Cores : rx[j].at # "again" => rx[j].id # id
         /\ cli.at = "add" => cli.id # id
  <1>1. \A j \in Cores, key \in Keys : table[j][key] # id
    BY ThreadsAssumption DEF IInv, EntriesLive
  <1>2. \A j \in Cores : rx[j].at # "again" => rx[j].id # id
    BY ThreadsAssumption
    DEF IInv, ThreadsTypeOK, RxPlaces, RxShape, HeldIsLive, Holding, AtHandler, Dispatched
  <1>3. cli.at = "add" => cli.id # id  BY DEF IInv, CliShape
  <1> QED BY <1>1, <1>2, <1>3

\* handle_tcp_listen has made a connection nobody else knows of.
LEMMA ListenStep ==
  ASSUME IInv, NEW k \in Cores, NEW id, rx[k].at = "listen", Malloc(id, rx[k].key, "SYN_RECV"),
         rx' = [rx EXCEPT ![k].at = "add", ![k].id = id], UNCHANGED <<table, cli>>
  PROVE  IInv'
  <1> USE DEF AtHandler, Dispatched
  <1>0. rx[k].key \in Keys  BY DEF IInv, RxShape
  <1>a. /\ id \in ConnIds /\ ~Allocated(id)
        /\ DOMAIN conn' = DOMAIN conn \cup {id}
        /\ conn' \in [DOMAIN conn' -> Connection]
        /\ \A x \in DOMAIN conn : conn'[x] = conn[x]
        /\ conn'[id].key = rx[k].key /\ conn'[id].tcpState = "SYN_RECV"
    BY <1>0, MallocEffect DEF IInv, States
  <1>b. /\ \A j \in Cores, key \in Keys : table[j][key] # id
        /\ \A j \in Cores : rx[j].at # "again" => rx[j].id # id
        /\ cli.at = "add" => cli.id # id
    BY <1>a, FreshAddress
  <1>1. /\ \A j \in Cores : j # k => rx'[j] = rx[j]
        /\ rx'[k].at = "add" /\ rx'[k].key = rx[k].key /\ rx'[k].id = id
        /\ rx' \in [Cores -> [at : RxPlaces, key : Keys \cup {None}, id : ConnIds \cup {None}]]
    <2>1. rx \in [Cores -> RxLoop] /\ rx[k] \in RxLoop
      BY DEF IInv, ThreadsTypeOK, RxLoop
    <2>2. rx' = [rx EXCEPT ![k] = [rx[k] EXCEPT !.at = "add", !.id = id]]
      BY <2>1
    <2>3. /\ [rx[k] EXCEPT !.at = "add", !.id = id] \in RxLoop
          /\ [rx[k] EXCEPT !.at = "add", !.id = id].at = "add"
          /\ [rx[k] EXCEPT !.at = "add", !.id = id].key = rx[k].key
          /\ [rx[k] EXCEPT !.at = "add", !.id = id].id = id
      BY <2>1, <1>a DEF RxLoop, RxPlaces
    <2> HIDE DEF AtHandler, Dispatched
    <2>4. /\ rx' \in [Cores -> RxLoop]
          /\ rx'[k] = [rx[k] EXCEPT !.at = "add", !.id = id]
          /\ \A j \in Cores : j # k => rx'[j] = rx[j]
      BY <2>1, <2>2, <2>3
    <2> QED
      BY <2>3, <2>4 DEF RxLoop
  <1>2. ThreadsTypeOK'  BY <1>1, <1>a DEF IInv, ThreadsTypeOK
  <1>3. RxShape'  BY <1>0, <1>1, <1>a DEF IInv, RxShape, Holding
  <1>4. CliShape'  BY <1>a, <1>b DEF IInv, CliShape, Allocated
  <1>5. EntriesLive'  BY <1>a, <1>b DEF IInv, EntriesLive, Allocated
  <1>6. HeldIsLive'
    <2> SUFFICES ASSUME NEW m \in Cores, rx'[m].at \in AtHandler \cup {"add", "found", "free"}
                 PROVE  /\ rx'[m].id \in DOMAIN conn'
                        /\ conn'[rx'[m].id].key = rx'[m].key
                        /\ \A j \in Cores : rx'[j].id = rx'[m].id /\ rx'[j].at # "again" => j = m
                        /\ cli.at = "add" => cli.id # rx'[m].id
      BY DEF HeldIsLive, Allocated
    <2>1. CASE m = k  BY <2>1, <1>1, <1>a, <1>b
    <2>2. CASE m # k  BY <2>2, <1>1, <1>a, <1>b DEF IInv, HeldIsLive, Allocated
    <2> QED BY <2>1, <2>2
  <1>7. HeldHere'  BY <1>1, <1>b DEF IInv, HeldHere, Holding
  <1>8. FiledStates'
    <2> SUFFICES ASSUME NEW j \in Cores, NEW other \in Keys, table'[j][other] # None
                 PROVE  \/ conn'[table'[j][other]].tcpState \in Dispatched
                        \/ /\ rx'[j].id = table'[j][other]
                           /\ rx'[j].at \in {"closing", "unfile", "closed"}
      BY DEF FiledStates
    <2>1. table[j][other] \in DOMAIN conn  BY DEF IInv, EntriesLive, Allocated
    <2> QED BY <2>1, <1>1, <1>a DEF IInv, FiledStates
  <1>c. ASSUME NEW j \in Cores, j # k, rx[j].at \in AtHandler \cup {"add", "found", "free"}
        PROVE  rx'[j] = rx[j] /\ conn'[rx[j].id] = conn[rx[j].id]
    BY <1>c, <1>1, <1>a DEF IInv, HeldIsLive, Allocated
  <1>9. OnlyCloseIntervenes'
    <2> SUFFICES ASSUME NEW j \in Cores, rx'[j].at \in AtHandler \cup {"add", "free"}
                 PROVE  conn'[rx'[j].id].tcpState \in {Expected(rx'[j].at), "FIN_WAIT1"}
      BY DEF OnlyCloseIntervenes, Expected
    <2>1. CASE j = k
      BY <2>1, <1>1, <1>a DEF Expected
    <2>2. CASE j # k
      BY <2>2, <1>1, <1>c DEF IInv, OnlyCloseIntervenes
    <2> QED BY <2>1, <2>2
  <1>10. NeverDeaf'
    BY <1>1, <1>c DEF IInv, NeverDeaf
  <1> QED BY <1>2, <1>3, <1>4, <1>5, <1>6, <1>7, <1>8, <1>9, <1>10 DEF IInv

\* What adding does to the table: it may fail, or replace an entry.
LEMMA AddEffect ==
  ASSUME ThreadsTypeOK, NEW k \in Cores, NEW key \in Keys, NEW id \in ConnIds, Add(k, key, id)
  PROVE  /\ table' \in [Cores -> [Keys -> ConnIds \cup {None}]]
         /\ table'[k][key] \in {id, table[k][key]}
         /\ \A j \in Cores, other \in Keys :
              ~(j = k /\ other = key) => table'[j][other] = table[j][other]
  BY DEF Add, ThreadsTypeOK

\* The new connection is filed.
LEMMA AddListenerStep ==
  ASSUME IInv, NEW k \in Cores, AddListener(k) PROVE IInv'
  <1> USE DEF AtHandler, Dispatched
  <1> DEFINE id == rx[k].id
  <1>0. /\ rx[k].at = "add" /\ UNCHANGED <<conn, cli>> /\ Done(k) /\ Add(k, rx[k].key, id)
    BY DEF AddListener
  <1>1. /\ \A j \in Cores : j # k => rx'[j] = rx[j]
        /\ rx'[k].at = "poll" /\ rx'[k].key = None /\ rx'[k].id = None
        /\ rx' \in [Cores -> [at : RxPlaces, key : Keys \cup {None}, id : ConnIds \cup {None}]]
    BY <1>0 DEF Done, Polling, IInv, ThreadsTypeOK, RxPlaces
  <1>a. /\ rx[k].key \in Keys /\ id \in ConnIds /\ id # None /\ id \in DOMAIN conn
        /\ conn[id].key = rx[k].key
        /\ conn[id].tcpState \in Dispatched
        /\ cli.at = "add" => cli.id # id
        /\ \A j \in Cores, key \in Keys : table[j][key] # id
    BY <1>0, ThreadsAssumption
    DEF IInv, RxShape, HeldIsLive, HeldHere, OnlyCloseIntervenes, Expected, Holding, Allocated
  <1>b. /\ table' \in [Cores -> [Keys -> ConnIds \cup {None}]]
        /\ table'[k][rx[k].key] \in {id, table[k][rx[k].key]}
        /\ \A j \in Cores, other \in Keys :
             ~(j = k /\ other = rx[k].key) => table'[j][other] = table[j][other]
    BY <1>0, <1>a, AddEffect DEF IInv
  <1>2. ThreadsTypeOK'  BY <1>0, <1>1, <1>b DEF IInv, ThreadsTypeOK
  <1>3. RxShape'  BY <1>1 DEF IInv, RxShape, Holding
  <1>4. CliShape'  BY <1>0, <1>a, <1>b DEF IInv, CliShape, Allocated
  <1>5. EntriesLive'
    <2> SUFFICES ASSUME NEW j \in Cores, NEW other \in Keys, table'[j][other] # None
                 PROVE  /\ table'[j][other] \in DOMAIN conn
                        /\ conn[table'[j][other]].key = other
                        /\ \A m \in Cores, key \in Keys :
                             table'[m][key] = table'[j][other] => m = j /\ key = other
      BY <1>0 DEF EntriesLive, Allocated
    <2>1. CASE table'[j][other] = id
      BY <2>1, <1>a, <1>b
    <2>2. CASE table'[j][other] # id
      BY <2>2, <1>b DEF IInv, EntriesLive, Allocated
    <2> QED BY <2>1, <2>2
  <1>6. HeldIsLive'
    BY <1>0, <1>1, ThreadsAssumption DEF IInv, HeldIsLive, RxShape, Allocated, Holding
  <1>7. HeldHere'
    <2> SUFFICES ASSUME NEW m \in Cores, rx'[m].at \in Holding, NEW j \in Cores, NEW other \in Keys,
                        table'[j][other] = rx'[m].id
                 PROVE  j = m /\ rx'[m].at \notin {"add", "free"}
      BY DEF HeldHere
    <2>1. m # k /\ rx'[m] = rx[m]  BY <1>1 DEF Holding
    <2>2. rx[m].id # id  BY <2>1, <1>0 DEF IInv, HeldIsLive, Holding
    <2> QED BY <2>1, <2>2, <1>b DEF IInv, HeldHere
  <1>8. FiledStates'
    <2> SUFFICES ASSUME NEW j \in Cores, NEW other \in Keys, table'[j][other] # None
                 PROVE  \/ conn'[table'[j][other]].tcpState \in Dispatched
                        \/ /\ rx'[j].id = table'[j][other]
                           /\ rx'[j].at \in {"closing", "unfile", "closed"}
      BY DEF FiledStates
    <2>1. CASE table'[j][other] = id  BY <2>1, <1>0, <1>a
    <2>2. CASE table'[j][other] # id
      <3>1. table'[j][other] = table[j][other]  BY <2>2, <1>b
      <3> QED BY <3>1, <1>0, <1>1 DEF IInv, FiledStates
    <2> QED BY <2>1, <2>2
  <1>9. OnlyCloseIntervenes'  BY <1>0, <1>1 DEF IInv, OnlyCloseIntervenes, Expected
  <1>10. NeverDeaf'  BY <1>0, <1>1 DEF IInv, NeverDeaf
  <1> QED BY <1>2, <1>3, <1>4, <1>5, <1>6, <1>7, <1>8, <1>9, <1>10 DEF IInv

\* Every step of a receive loop keeps the invariant.
LEMMA SlaveStep ==
  ASSUME IInv, NEW k \in Cores, Slave(k) PROVE IInv'
  <1> USE DEF Dispatched
  <1>1. CASE \E key \in Keys : Lookup(k, key)  BY <1>1, LookupStep
  <1>2. CASE handle_tcp_listen(k)
    <2>1. CASE Done(k) /\ UNCHANGED conn
      BY <1>2, <2>1, DoneStep DEF handle_tcp_listen
    <2>2. CASE \E id \in ConnIds : /\ Malloc(id, rx[k].key, "SYN_RECV")
                                  /\ rx' = [rx EXCEPT ![k].at = "add", ![k].id = id]
      BY <1>2, <2>2, ListenStep DEF handle_tcp_listen
    <2> QED BY <1>2, <2>1, <2>2 DEF handle_tcp_listen
  <1>3. CASE AddListener(k)  BY <1>3, AddListenerStep
  <1>4. CASE Dispatch(k)  BY <1>4, DispatchStep
  <1>5. CASE Nothing(k)  BY <1>5, DoneStep DEF Nothing
  <1>6. CASE Establish(k)  BY <1>6, StoreStep DEF Establish, States
  <1>7. CASE PeerCloses(k)
    <2>1. CASE rx[k].at = "ESTABLISHED" /\ SetState(rx[k].id, "CLOSE_WAIT") /\ Goto(k, "closing")
      BY <1>7, <2>1, StoreStep DEF PeerCloses, States, Expected
    <2>2. CASE rx[k].at = "closing" /\ SetState(rx[k].id, "LAST_ACK") /\ Done(k)
      BY <1>7, <2>2, StoreStep DEF PeerCloses, States
    <2> QED BY <1>7, <2>1, <2>2 DEF PeerCloses
  <1>8. CASE handle_tcp_fin_wait1(k)
    <2>1. CASE rx[k].at = "FIN_WAIT1"
      BY <1>8, <2>1, StoreStep DEF handle_tcp_fin_wait1, States, Expected
    <2>2. CASE rx[k].at = "unfile"
      <3>1. conn[rx[k].id].key \in Keys
        BY <2>2 DEF IInv, ThreadsTypeOK, Connection, HeldIsLive, AtHandler, Allocated
      <3> QED BY <1>8, <2>2, <3>1, DeleteStep DEF handle_tcp_fin_wait1
    <2> QED BY <1>8, <2>1, <2>2 DEF handle_tcp_fin_wait1
  <1>9. CASE handle_tcp_last_ack(k)
    <2>1. CASE rx[k].at = "LAST_ACK"
      BY <1>9, <2>1, StoreStep DEF handle_tcp_last_ack, States, Expected
    <2>2. CASE rx[k].at = "closed"
      <3>1. conn[rx[k].id].key \in Keys
        BY <2>2 DEF IInv, ThreadsTypeOK, Connection, HeldIsLive, AtHandler, Allocated
      <3> QED BY <1>9, <2>2, <3>1, DeleteStep DEF handle_tcp_last_ack
    <2> QED BY <1>9, <2>1, <2>2 DEF handle_tcp_last_ack
  <1>10. CASE FreeClosed(k)
    <2>1. CASE rx[k].at = "free"  BY <1>10, <2>1, FreeStep DEF FreeClosed
    <2>2. CASE rx[k].at = "again"
      <3>1. rx[k].key \in Keys  BY <2>2 DEF IInv, RxShape
      <3> QED BY <1>10, <2>2, <3>1, DeleteStep DEF FreeClosed
    <2> QED BY <1>10, <2>1, <2>2 DEF FreeClosed
  <1> QED BY <1>1, <1>2, <1>3, <1>4, <1>5, <1>6, <1>7, <1>8, <1>9, <1>10 DEF Slave

\* The command line moves on, holding no connection of its own.
LEMMA CliMoves ==
  ASSUME IInv, UNCHANGED <<table, conn, rx>>,
         cli' \in [at : CliPlaces, key : Keys \cup {None}, id : ConnIds \cup {None}, core : Cores],
         CliShape', cli'.at # "add"
  PROVE  IInv'
  <1>1. ThreadsTypeOK'  BY DEF IInv, ThreadsTypeOK
  <1>2. RxShape'  BY DEF IInv, RxShape
  <1>3. EntriesLive' /\ FiledStates'  BY DEF IInv, EntriesLive, FiledStates, Allocated
  <1>4. HeldIsLive' /\ HeldHere'  BY DEF IInv, HeldIsLive, HeldHere, Allocated
  <1>5. OnlyCloseIntervenes' /\ NeverDeaf'  BY DEF IInv, OnlyCloseIntervenes, NeverDeaf
  <1> QED BY <1>1, <1>2, <1>3, <1>4, <1>5 DEF IInv

\* "connect" has made a connection nobody else knows of.
LEMMA ConnectMallocStep ==
  ASSUME IInv, NEW id, cli.at = "absent", Malloc(id, cli.key, "SYN_SENT"),
         cli' = [cli EXCEPT !.at = "add", !.id = id], UNCHANGED <<table, rx>>
  PROVE  IInv'
  <1>0. cli.key \in Keys  BY DEF IInv, CliShape
  <1>a. /\ id \in ConnIds /\ ~Allocated(id)
        /\ DOMAIN conn' = DOMAIN conn \cup {id}
        /\ conn' \in [DOMAIN conn' -> Connection]
        /\ \A x \in DOMAIN conn : conn'[x] = conn[x]
        /\ conn'[id].key = cli.key /\ conn'[id].tcpState = "SYN_SENT"
    BY <1>0, MallocEffect DEF IInv, States, Dispatched
  <1>b. /\ \A j \in Cores, key \in Keys : table[j][key] # id
        /\ \A j \in Cores : rx[j].at # "again" => rx[j].id # id
    BY <1>a, FreshAddress
  <1>1. /\ cli'.at = "add" /\ cli'.key = cli.key /\ cli'.id = id
        /\ cli' \in [at : CliPlaces, key : Keys \cup {None}, id : ConnIds \cup {None}, core : Cores]
    BY <1>a DEF IInv, ThreadsTypeOK, CliPlaces
  <1>2. ThreadsTypeOK'  BY <1>1, <1>a DEF IInv, ThreadsTypeOK
  <1>3. RxShape'  BY DEF IInv, RxShape
  <1>4. CliShape'  BY <1>0, <1>1, <1>a, <1>b DEF CliShape, Allocated, Dispatched
  <1>5. EntriesLive'  BY <1>a, <1>b DEF IInv, EntriesLive, Allocated
  <1>6. HeldIsLive'  BY <1>1, <1>a, <1>b DEF IInv, HeldIsLive, Allocated, AtHandler, Dispatched
  <1>7. HeldHere'  BY DEF IInv, HeldHere
  <1>8. FiledStates'
    <2> SUFFICES ASSUME NEW j \in Cores, NEW other \in Keys, table'[j][other] # None
                 PROVE  \/ conn'[table'[j][other]].tcpState \in Dispatched
                        \/ /\ rx'[j].id = table'[j][other]
                           /\ rx'[j].at \in {"closing", "unfile", "closed"}
      BY DEF FiledStates
    <2>1. table[j][other] \in DOMAIN conn  BY DEF IInv, EntriesLive, Allocated
    <2> QED BY <2>1, <1>a DEF IInv, FiledStates
  <1>9. OnlyCloseIntervenes'  BY <1>a DEF IInv, OnlyCloseIntervenes, HeldIsLive, Allocated
  <1>10. NeverDeaf'  BY <1>a DEF IInv, NeverDeaf, HeldIsLive, Allocated
  <1> QED BY <1>2, <1>3, <1>4, <1>5, <1>6, <1>7, <1>8, <1>9, <1>10 DEF IInv

\* "connect" files it, perhaps in the place of another.
LEMMA ConnectAddStep ==
  ASSUME IInv, cli.at = "add", Add(1, cli.key, cli.id), cli' = Idle, UNCHANGED <<conn, rx>>
  PROVE  IInv'
  <1> DEFINE id == cli.id
  <1>0. 1 \in Cores  BY ThreadsAssumption DEF Cores
  <1>1. /\ cli'.at = "idle" /\ cli'.id = None
        /\ cli' \in [at : CliPlaces, key : Keys \cup {None}, id : ConnIds \cup {None}, core : Cores]
    BY <1>0 DEF Idle, CliPlaces
  <1>a. /\ cli.key \in Keys /\ id \in ConnIds /\ id # None /\ id \in DOMAIN conn
        /\ conn[id].key = cli.key
        /\ conn[id].tcpState \in Dispatched
        /\ \A j \in Cores, key \in Keys : table[j][key] # id
    BY ThreadsAssumption DEF IInv, CliShape, Allocated
  <1>b. /\ table' \in [Cores -> [Keys -> ConnIds \cup {None}]]
        /\ table'[1][cli.key] \in {id, table[1][cli.key]}
        /\ \A j \in Cores, other \in Keys :
             ~(j = 1 /\ other = cli.key) => table'[j][other] = table[j][other]
    BY <1>0, <1>a, AddEffect DEF IInv
  <1>2. ThreadsTypeOK'  BY <1>1, <1>b DEF IInv, ThreadsTypeOK
  <1>3. RxShape'  BY DEF IInv, RxShape
  <1>4. CliShape'  BY <1>1 DEF CliShape
  <1>5. EntriesLive'
    <2> SUFFICES ASSUME NEW j \in Cores, NEW other \in Keys, table'[j][other] # None
                 PROVE  /\ table'[j][other] \in DOMAIN conn
                        /\ conn[table'[j][other]].key = other
                        /\ \A m \in Cores, key \in Keys :
                             table'[m][key] = table'[j][other] => m = j /\ key = other
      BY DEF EntriesLive, Allocated
    <2>1. CASE table'[j][other] = id  BY <2>1, <1>a, <1>b
    <2>2. CASE table'[j][other] # id  BY <2>2, <1>b DEF IInv, EntriesLive, Allocated
    <2> QED BY <2>1, <2>2
  <1>6. HeldIsLive'  BY <1>1 DEF IInv, HeldIsLive, Allocated
  <1>7. HeldHere'
    <2> SUFFICES ASSUME NEW m \in Cores, rx[m].at \in Holding, NEW j \in Cores, NEW other \in Keys,
                        table'[j][other] = rx[m].id
                 PROVE  j = m /\ rx[m].at \notin {"add", "free"}
      BY DEF HeldHere
    <2>1. rx[m].id # id  BY DEF IInv, HeldIsLive, Holding
    <2> QED BY <2>1, <1>b DEF IInv, HeldHere
  <1>8. FiledStates'
    <2> SUFFICES ASSUME NEW j \in Cores, NEW other \in Keys, table'[j][other] # None
                 PROVE  \/ conn'[table'[j][other]].tcpState \in Dispatched
                        \/ /\ rx'[j].id = table'[j][other]
                           /\ rx'[j].at \in {"closing", "unfile", "closed"}
      BY DEF FiledStates
    <2>1. CASE table'[j][other] = id  BY <2>1, <1>a
    <2>2. CASE table'[j][other] # id
      <3>1. table'[j][other] = table[j][other]  BY <2>2, <1>b
      <3> QED BY <3>1 DEF IInv, FiledStates
    <2> QED BY <2>1, <2>2
  <1>9. OnlyCloseIntervenes'  BY DEF IInv, OnlyCloseIntervenes
  <1>10. NeverDeaf'  BY DEF IInv, NeverDeaf
  <1> QED BY <1>2, <1>3, <1>4, <1>5, <1>6, <1>7, <1>8, <1>9, <1>10 DEF IInv

\* "close" stores its state in whatever is at the address by now.
LEMMA CloseStep ==
  ASSUME IInv, active_close PROVE IInv'
  <1> USE DEF Dispatched
  <1> DEFINE id == cli.id
  <1>0. /\ cli.at = "close" /\ id \in ConnIds /\ SetState(id, "FIN_WAIT1")
        /\ cli' = Idle /\ UNCHANGED <<table, rx>>
    BY DEF active_close, IInv, CliShape
  <1>1. /\ cli'.at = "idle" /\ cli'.id = None
        /\ cli' \in [at : CliPlaces, key : Keys \cup {None}, id : ConnIds \cup {None}, core : Cores]
    BY <1>0, ThreadsAssumption DEF Idle, CliPlaces, Cores
  <1>a. /\ DOMAIN conn' = DOMAIN conn
        /\ conn' \in [DOMAIN conn' -> Connection]
        /\ \A x \in DOMAIN conn : /\ conn'[x].key = conn[x].key
                                /\ conn'[x].tcpState \in {conn[x].tcpState, "FIN_WAIT1"}
    BY <1>0, SetStateEffect DEF IInv, States
  <1>2. ThreadsTypeOK'  BY <1>0, <1>1, <1>a DEF IInv, ThreadsTypeOK
  <1>3. RxShape'  BY <1>0 DEF IInv, RxShape
  <1>4. CliShape'  BY <1>1 DEF CliShape
  <1>5. EntriesLive'  BY <1>0, <1>a DEF IInv, EntriesLive, Allocated
  <1>6. HeldIsLive'  BY <1>0, <1>1, <1>a DEF IInv, HeldIsLive, Allocated
  <1>7. HeldHere'  BY <1>0 DEF IInv, HeldHere
  <1>8. FiledStates'
    <2> SUFFICES ASSUME NEW j \in Cores, NEW other \in Keys, table'[j][other] # None
                 PROVE  \/ conn'[table'[j][other]].tcpState \in Dispatched
                        \/ /\ rx'[j].id = table'[j][other]
                           /\ rx'[j].at \in {"closing", "unfile", "closed"}
      BY DEF FiledStates
    <2>1. table[j][other] \in DOMAIN conn  BY <1>0 DEF IInv, EntriesLive, Allocated
    <2> QED BY <2>1, <1>0, <1>a DEF IInv, FiledStates
  <1>9. OnlyCloseIntervenes'
    BY <1>0, <1>a DEF IInv, OnlyCloseIntervenes, HeldIsLive, Allocated
  <1>10. NeverDeaf'
    BY <1>0, <1>a DEF IInv, NeverDeaf, HeldIsLive, Allocated
  <1> QED BY <1>2, <1>3, <1>4, <1>5, <1>6, <1>7, <1>8, <1>9, <1>10 DEF IInv

\* "close" only reads the tables.
LEMMA SearchStep ==
  ASSUME IInv, Search PROVE IInv'
  <1>1. CASE /\ cli.at = "idle"
             /\ \E key \in Keys : cli' = [Idle EXCEPT !.at = "search", !.key = key]
             /\ UNCHANGED <<table, conn, rx>>
    <2>1. PICK key \in Keys : cli' = [Idle EXCEPT !.at = "search", !.key = key]  BY <1>1
    <2>a. cli' = [at |-> "search", key |-> key, id |-> None, core |-> 1]  BY <2>1 DEF Idle
    <2>b. 1 \in Cores  BY ThreadsAssumption DEF Cores
    <2>2. /\ cli'.at = "search" /\ cli'.id = None /\ cli'.key \in Keys
          /\ cli' \in [at : CliPlaces, key : Keys \cup {None}, id : ConnIds \cup {None}, core : Cores]
      BY <2>a, <2>b DEF CliPlaces
    <2> QED BY <1>1, <2>2, CliMoves DEF CliShape
  <1>2. CASE /\ cli.at = "search"
             /\ LET id == table[cli.core][cli.key]
                IN  cli' = IF id # None THEN [cli EXCEPT !.at = "close", !.id = id]
                           ELSE IF MoreTables THEN [cli EXCEPT !.core = @ + 1]
                           ELSE Idle
             /\ UNCHANGED <<table, conn, rx>>
    <2> DEFINE id == table[cli.core][cli.key]
    <2>0. /\ cli.key \in Keys /\ cli.id = None /\ cli.core \in Cores /\ id \in ConnIds \cup {None}
          /\ cli \in [at : CliPlaces, key : Keys \cup {None}, id : ConnIds \cup {None}, core : Cores]
      BY <1>2 DEF IInv, ThreadsTypeOK, CliShape
    <2>1. CASE id # None
      <3>1. /\ cli'.at = "close" /\ cli'.id \in ConnIds
            /\ cli' \in [at : CliPlaces, key : Keys \cup {None}, id : ConnIds \cup {None}, core : Cores]
        BY <1>2, <2>0, <2>1 DEF CliPlaces
      <3> QED BY <1>2, <3>1, CliMoves DEF CliShape
    <2>2. CASE id = None /\ MoreTables
      <3>1. cli.core + 1 \in Cores  BY <2>0, <2>2, ThreadsAssumption DEF MoreTables, Cores
      <3>2. /\ cli'.at = "search" /\ cli'.id = None /\ cli'.key \in Keys
            /\ cli' \in [at : CliPlaces, key : Keys \cup {None}, id : ConnIds \cup {None}, core : Cores]
        BY <1>2, <2>0, <2>2, <3>1 DEF CliPlaces
      <3> QED BY <1>2, <3>2, CliMoves DEF CliShape
    <2>3. CASE id = None /\ ~MoreTables
      <3>1. /\ cli'.at = "idle" /\ cli'.id = None
            /\ cli' \in [at : CliPlaces, key : Keys \cup {None}, id : ConnIds \cup {None}, core : Cores]
        BY <1>2, <2>3, ThreadsAssumption DEF Idle, CliPlaces, Cores
      <3> QED BY <1>2, <3>1, CliMoves DEF CliShape
    <2> QED BY <2>1, <2>2, <2>3
  <1> QED BY <1>1, <1>2 DEF Search

\* Every step of "connect" keeps the invariant.
LEMMA ConnectStep ==
  ASSUME IInv, active_connect PROVE IInv'
  <1>1. CASE /\ cli.at = "idle"
             /\ \E key \in Keys : /\ table[1][key] = None
                                  /\ cli' = [Idle EXCEPT !.at = "absent", !.key = key]
             /\ UNCHANGED <<table, conn, rx>>
    <2>1. PICK key \in Keys : cli' = [Idle EXCEPT !.at = "absent", !.key = key]  BY <1>1
    <2>a. cli' = [at |-> "absent", key |-> key, id |-> None, core |-> 1]  BY <2>1 DEF Idle
    <2>b. 1 \in Cores  BY ThreadsAssumption DEF Cores
    <2>2. /\ cli'.at = "absent" /\ cli'.id = None /\ cli'.key \in Keys
          /\ cli' \in [at : CliPlaces, key : Keys \cup {None}, id : ConnIds \cup {None}, core : Cores]
      BY <2>a, <2>b DEF CliPlaces
    <2> QED BY <1>1, <2>2, CliMoves DEF CliShape
  <1>2. CASE /\ cli.at = "absent"
             /\ \E id \in ConnIds : /\ Malloc(id, cli.key, "SYN_SENT")
                                    /\ cli' = [cli EXCEPT !.at = "add", !.id = id]
             /\ UNCHANGED <<table, rx>>
    BY <1>2, ConnectMallocStep
  <1>3. CASE cli.at = "add" /\ Add(1, cli.key, cli.id) /\ cli' = Idle /\ UNCHANGED <<conn, rx>>
    BY <1>3, ConnectAddStep
  <1> QED BY <1>1, <1>2, <1>3 DEF active_connect

\* Every step of every thread keeps the invariant.
THEOREM NextIInv == IInv /\ [Next]_vars => IInv'
  <1> SUFFICES ASSUME IInv, [Next]_vars PROVE IInv'  OBVIOUS
  <1>1. CASE UNCHANGED vars
    <2>1. ThreadsTypeOK' /\ RxShape' /\ CliShape'
      BY <1>1 DEF vars, IInv, ThreadsTypeOK, RxShape, CliShape, Allocated
    <2>2. EntriesLive' /\ HeldIsLive' /\ HeldHere'
      BY <1>1 DEF vars, IInv, EntriesLive, HeldIsLive, HeldHere, Allocated
    <2>3. FiledStates' /\ OnlyCloseIntervenes' /\ NeverDeaf'
      BY <1>1 DEF vars, IInv, FiledStates, OnlyCloseIntervenes, NeverDeaf
    <2> QED BY <2>1, <2>2, <2>3 DEF IInv
  <1> QED BY <1>1, SlaveStep, ConnectStep, SearchStep, CloseStep DEF Next

\* Hence it always holds.
THEOREM AlwaysIInv == Spec => []IInv
  BY InitIInv, NextIInv, PTL DEF Spec

\* Type correctness, for any number of cores, keys and connections.
THEOREM ThreadsTypeCorrect == Spec => []ThreadsTypeOK
  <1>1. IInv => ThreadsTypeOK  BY DEF IInv
  <1> QED BY AlwaysIInv, <1>1, PTL

\* No interleaving of the threads leaves a dangling, misfiled or shared entry.
THEOREM EntriesCorrect == Spec => []EntriesLive
  <1>1. IInv => EntriesLive  BY DEF IInv
  <1> QED BY AlwaysIInv, <1>1, PTL

\* A receive loop never works on memory that was freed or handed out again.
THEOREM HeldCorrect == Spec => []HeldIsLive
  <1>1. IInv => HeldIsLive  BY DEF IInv
  <1> QED BY AlwaysIInv, <1>1, PTL

\* Every state found at an entry has a case in the dispatcher.
THEOREM NeverDeafCorrect == Spec => []NeverDeaf
  <1>1. IInv => NeverDeaf  BY DEF IInv
  <1> QED BY AlwaysIInv, <1>1, PTL

\* Nothing but a "close" stores a state behind a handler's back.
THEOREM InterventionCorrect == Spec => []OnlyCloseIntervenes
  <1>1. IInv => OnlyCloseIntervenes  BY DEF IInv
  <1> QED BY AlwaysIInv, <1>1, PTL

-----------------------------------------------------------------------------
(* The refinement of Ownership *)

StatusOf(x) == IF ~Allocated(x) THEN "free"
               ELSE IF Filed(x) THEN "filed"
               ELSE IF Private(x) THEN "private"
               ELSE "loose"

\* What an owner is depends on StatusOf alone.
LEMMA OwnerKept ==
  ASSUME \A x \in ConnIds : StatusOf(x)' = StatusOf(x) PROVE Owner' = Owner
  BY DEF Owner, StatusOf

\* One address changes hands.
LEMMA OneMoves ==
  ASSUME NEW id \in ConnIds, NEW st, StatusOf(id)' = st,
         \A x \in ConnIds : x # id => StatusOf(x)' = StatusOf(x)
  PROVE  Owner' = [Owner EXCEPT ![id] = st]
  BY DEF Owner, StatusOf

\* Nobody's allocated, filed or private connections change.
LEMMA QuietStep ==
  ASSUME IInv, UNCHANGED table, DOMAIN conn' = DOMAIN conn,
         \A x \in ConnIds : Private(x)' = Private(x)
  PROVE  Owner' = Owner
  <1>1. \A x \in ConnIds : Filed(x)' = Filed(x) /\ Allocated(x)' = Allocated(x)
    BY DEF Filed, Allocated
  <1>2. \A x \in ConnIds : StatusOf(x)' = StatusOf(x)  BY <1>1 DEF StatusOf
  <1> QED BY <1>2, OwnerKept

\* A receive loop moves on without a connection of its own, before or after.
LEMMA QuietSlave ==
  ASSUME IInv, NEW k \in Cores, UNCHANGED <<table, cli>>, DOMAIN conn' = DOMAIN conn,
         NEW r, rx' = [rx EXCEPT ![k] = r], rx[k].at # "add", r.at # "add"
  PROVE  Owner' = Owner
  <1>1. \A j \in Cores : rx'[j].at = "add" <=> rx[j].at = "add"
    BY DEF IInv, ThreadsTypeOK
  <1>2. \A j \in Cores : rx[j].at = "add" => rx'[j] = rx[j]
    BY DEF IInv, ThreadsTypeOK
  <1>3. \A x \in ConnIds : Private(x)' = Private(x)  BY <1>1, <1>2 DEF Private
  <1> QED BY <1>3, QuietStep

\* A private connection is allocated, and has no entry.
LEMMA PrivateUnfiled ==
  ASSUME IInv, NEW x \in ConnIds, Private(x) PROVE Allocated(x) /\ ~Filed(x)
  BY DEF IInv, Private, Filed, HeldIsLive, HeldHere, CliShape, Holding

\* Allocation takes a free address.
LEMMA TakeOwner ==
  ASSUME IInv, NEW id \in ConnIds, ~Allocated(id), UNCHANGED table,
         DOMAIN conn' = DOMAIN conn \cup {id}, Private(id)',
         \A x \in ConnIds : x # id => Private(x)' = Private(x)
  PROVE  Owned!Take(id)
  <1>1. ~Filed(id)  BY FreshAddress DEF Filed
  <1>2. \A x \in ConnIds : Filed(x)' = Filed(x)  BY DEF Filed
  <1>3. Owner[id] = "free"  BY DEF Owner
  <1>4. StatusOf(id)' = "private"  BY <1>1, <1>2 DEF StatusOf, Allocated
  <1>5. \A x \in ConnIds : x # id => StatusOf(x)' = StatusOf(x)  BY <1>2 DEF StatusOf, Allocated
  <1> QED BY <1>3, <1>4, <1>5, OneMoves DEF Owned!Take

\* A connection is added to a table by the thread that made it.
LEMMA AddOwner ==
  ASSUME IInv, NEW k \in Cores, NEW key \in Keys, NEW id \in ConnIds, Private(id),
         Add(k, key, id), UNCHANGED conn, ~Private(id)',
         \A x \in ConnIds : x # id => Private(x)' = Private(x)
  PROVE  Owned!Next
  <1>y. PICK y \in ConnIds \cup {None} : y = table[k][key]  BY DEF IInv, ThreadsTypeOK
  <1>1. Allocated(id) /\ ~Filed(id)  BY PrivateUnfiled
  <1>2. Owner[id] = "private"  BY <1>1 DEF Owner
  <1>3. \A x \in ConnIds : Allocated(x)' = Allocated(x)  BY DEF Allocated
  <1>4. CASE table' = table
    <2>1. \A x \in ConnIds : Filed(x)' = Filed(x)  BY <1>4 DEF Filed
    <2>2. StatusOf(id)' = "loose"  BY <1>1, <1>3, <2>1 DEF StatusOf
    <2>3. \A x \in ConnIds : x # id => StatusOf(x)' = StatusOf(x)  BY <1>3, <2>1 DEF StatusOf
    <2> QED BY <1>2, <2>2, <2>3, OneMoves DEF Owned!Refuse, Owned!Next
  <1>5. CASE table' = [table EXCEPT ![k][key] = id]
    <2>1. /\ table'[k][key] = id
          /\ \A j \in Cores, other \in Keys :
               ~(j = k /\ other = key) => table'[j][other] = table[j][other]
      BY <1>5 DEF IInv, ThreadsTypeOK
    <2>2. Filed(id)'  BY <2>1 DEF Filed
    <2>3. StatusOf(id)' = "filed"  BY <1>1, <1>3, <2>2 DEF StatusOf
    <2>4. \A x \in ConnIds : x # id /\ x # y => Filed(x)' = Filed(x)
      BY <2>1, <1>y DEF Filed
    <2>5. \A x \in ConnIds : x # id /\ x # y => StatusOf(x)' = StatusOf(x)
      BY <1>3, <2>4 DEF StatusOf
    <2>6. CASE y = None
      <3>1. \A x \in ConnIds : x # y  BY <2>6, ThreadsAssumption
      <3> QED BY <1>2, <2>3, <2>5, <3>1, OneMoves DEF Owned!Share, Owned!Next
    <2>7. CASE y # None
      <3>1. y \in ConnIds /\ Filed(y) /\ Allocated(y)
        BY <1>y, <2>7 DEF IInv, EntriesLive, Filed
      <3>2. y # id  BY <3>1, <1>1
      <3>3. ~Private(y)  BY <3>1, PrivateUnfiled
      <3>4. ~Filed(y)'  BY <1>y, <2>1, <2>7, <3>2 DEF IInv, EntriesLive, Filed
      <3>5. StatusOf(y)' = "loose"  BY <1>3, <3>1, <3>2, <3>3, <3>4 DEF StatusOf
      <3>6. Owner[y] = "filed"  BY <3>1 DEF Owner
      <3>7. Owner' = [Owner EXCEPT ![id] = "filed", ![y] = "loose"]
        BY <2>3, <2>5, <3>1, <3>2, <3>5 DEF Owner, StatusOf
      <3> QED BY <1>2, <3>1, <3>6, <3>7 DEF Owned!Replace, Owned!Next
    <2> QED BY <2>6, <2>7
  <1> QED BY <1>4, <1>5 DEF Add

\* A deletion unshares the connection the entry led to, or hits nothing.
LEMMA DeleteOwner ==
  ASSUME IInv, NEW k \in Cores, NEW key \in Keys, Delete(k, key), UNCHANGED <<conn, cli>>,
         NEW r, rx' = [rx EXCEPT ![k] = r], rx[k].at # "add", r.at # "add"
  PROVE  Owned!Next \/ Owner' = Owner
  <1>y. PICK y \in ConnIds \cup {None} : y = table[k][key]  BY DEF IInv, ThreadsTypeOK
  <1>1. \A x \in ConnIds : Private(x)' = Private(x)
    <2>1. \A j \in Cores : rx'[j].at = "add" <=> rx[j].at = "add"  BY DEF IInv, ThreadsTypeOK
    <2>2. \A j \in Cores : rx[j].at = "add" => rx'[j] = rx[j]  BY DEF IInv, ThreadsTypeOK
    <2> QED BY <2>1, <2>2 DEF Private
  <1>2. \A j \in Cores, other \in Keys :
          table'[j][other] = IF j = k /\ other = key THEN None ELSE table[j][other]
    BY DEF Delete, IInv, ThreadsTypeOK
  <1>3. \A x \in ConnIds : Allocated(x)' = Allocated(x)  BY DEF Allocated
  <1>4. \A x \in ConnIds : x # y => Filed(x)' = Filed(x)
    BY <1>y, <1>2, ThreadsAssumption DEF Filed
  <1>5. \A x \in ConnIds : x # y => StatusOf(x)' = StatusOf(x)  BY <1>1, <1>3, <1>4 DEF StatusOf
  <1>6. CASE y = None
    <2>1. \A x \in ConnIds : x # y  BY <1>6, ThreadsAssumption
    <2> QED BY <1>5, <2>1, OwnerKept
  <1>7. CASE y # None
    <2>1. y \in ConnIds /\ Filed(y) /\ Allocated(y)
      BY <1>y, <1>7 DEF IInv, EntriesLive, Filed
    <2>2. ~Private(y)  BY <2>1, PrivateUnfiled
    <2>3. ~Filed(y)'  BY <1>y, <1>2, <1>7 DEF IInv, EntriesLive, Filed
    <2>4. StatusOf(y)' = "loose"  BY <1>1, <1>3, <2>1, <2>2, <2>3 DEF StatusOf
    <2>5. Owner[y] = "filed"  BY <2>1 DEF Owner
    <2> QED BY <1>5, <2>1, <2>4, <2>5, OneMoves DEF Owned!Unshare, Owned!Next
  <1> QED BY <1>6, <1>7

\* Freeing returns a loose address.
LEMMA FreeOwner ==
  ASSUME IInv, NEW k \in Cores, rx[k].at = "free", NEW id, id = rx[k].id, Free(id),
         Goto(k, "again"), UNCHANGED <<table, cli>>
  PROVE  id \in ConnIds /\ Owned!Return(id)
  <1>1. /\ id \in ConnIds /\ Allocated(id) /\ ~Filed(id)
        /\ \A j \in Cores : rx[j].at = "add" => rx[j].id # id
        /\ cli.at = "add" => cli.id # id
    BY DEF IInv, RxShape, HeldIsLive, HeldHere, Holding, Filed
  <1>2. Owner[id] = "loose"  BY <1>1 DEF Owner, Private
  <1>3. DOMAIN conn' = DOMAIN conn \ {id}  BY DEF Free
  <1>4. \A x \in ConnIds : Private(x)' = Private(x)
    <2>1. \A j \in Cores : rx'[j].at = "add" <=> rx[j].at = "add"
      BY DEF Goto, IInv, ThreadsTypeOK
    <2>2. \A j \in Cores : rx[j].at = "add" => rx'[j] = rx[j]  BY DEF Goto, IInv, ThreadsTypeOK
    <2> QED BY <2>1, <2>2 DEF Private
  <1>5. \A x \in ConnIds : Filed(x)' = Filed(x)  BY DEF Filed
  <1>6. StatusOf(id)' = "free"  BY <1>3 DEF StatusOf, Allocated
  <1>7. \A x \in ConnIds : x # id => StatusOf(x)' = StatusOf(x)
    BY <1>3, <1>4, <1>5 DEF StatusOf, Allocated
  <1> QED BY <1>1, <1>2, <1>6, <1>7, OneMoves DEF Owned!Return


\* A receive loop goes on or ends, and frees, files or takes nothing.
LEMMA OwnerMoves ==
  ASSUME IInv, NEW k \in Cores, UNCHANGED <<table, cli>>, DOMAIN conn' = DOMAIN conn,
         rx[k].at # "add", NEW at, at # "add", Goto(k, at) \/ Done(k)
  PROVE  Owner' = Owner
  <1>1. CASE Goto(k, at)
    <2>1. [rx[k] EXCEPT !.at = at].at = at  BY DEF IInv, ThreadsTypeOK
    <2>2. rx' = [rx EXCEPT ![k] = [rx[k] EXCEPT !.at = at]]
      BY <1>1 DEF Goto, IInv, ThreadsTypeOK
    <2> QED BY <2>1, <2>2, QuietSlave
  <1>2. CASE Done(k)
    <2>1. Polling.at # "add"  BY DEF Polling
    <2> QED BY <1>2, <2>1, QuietSlave DEF Done
  <1> QED BY <1>1, <1>2

\* Storing a state changes no owner.
LEMMA OwnerStores ==
  ASSUME IInv, NEW k \in Cores, NEW id, NEW st, SetState(id, st), UNCHANGED <<table, cli>>,
         rx[k].at # "add", NEW at, at # "add", Goto(k, at) \/ Done(k)
  PROVE  Owner' = Owner
  <1>1. DOMAIN conn' = DOMAIN conn  BY DEF SetState
  <1> QED BY <1>1, OwnerMoves

\* A deletion by a handler, whatever it does next.
LEMMA OwnerDeletes ==
  ASSUME IInv, NEW k \in Cores, NEW key \in Keys, Delete(k, key), UNCHANGED <<conn, cli>>,
         rx[k].at # "add", NEW at, at # "add", Goto(k, at) \/ Done(k)
  PROVE  Owned!Next \/ Owner' = Owner
  <1>1. CASE Goto(k, at)
    <2>1. [rx[k] EXCEPT !.at = at].at = at  BY DEF IInv, ThreadsTypeOK
    <2>2. rx' = [rx EXCEPT ![k] = [rx[k] EXCEPT !.at = at]]
      BY <1>1 DEF Goto, IInv, ThreadsTypeOK
    <2> QED BY <2>1, <2>2, DeleteOwner
  <1>2. CASE Done(k)
    <2>1. Polling.at # "add"  BY DEF Polling
    <2> QED BY <1>2, <2>1, DeleteOwner DEF Done
  <1> QED BY <1>1, <1>2

\* handle_tcp_listen takes an address, or does nothing.
LEMMA OwnerListen ==
  ASSUME IInv, NEW k \in Cores, handle_tcp_listen(k)
  PROVE  Owned!Next \/ Owner' = Owner
  <1>1. CASE Done(k) /\ UNCHANGED conn
    <2>1. UNCHANGED <<table, cli>> /\ rx[k].at # "add"  BY DEF handle_tcp_listen
    <2> QED BY <1>1, <2>1, OwnerMoves
  <1>2. CASE \E id \in ConnIds : /\ Malloc(id, rx[k].key, "SYN_RECV")
                                /\ rx' = [rx EXCEPT ![k].at = "add", ![k].id = id]
    <2>1. PICK id \in ConnIds : /\ Malloc(id, rx[k].key, "SYN_RECV")
                                /\ rx' = [rx EXCEPT ![k].at = "add", ![k].id = id]
      BY <1>2
    <2>2. ~Allocated(id) /\ DOMAIN conn' = DOMAIN conn \cup {id}
      BY <2>1 DEF Malloc, Allocated
    <2>3. UNCHANGED <<table, cli>> /\ rx[k].at = "listen"  BY DEF handle_tcp_listen
    <2>4. /\ rx'[k].at = "add" /\ rx'[k].id = id
          /\ \A j \in Cores : j # k => rx'[j] = rx[j]
      BY <2>1 DEF IInv, ThreadsTypeOK
    <2>5. Private(id)'  BY <2>4 DEF Private
    <2>6. \A x \in ConnIds : x # id => Private(x)' = Private(x)  BY <2>3, <2>4 DEF Private
    <2>7. Owned!Take(id)  BY <2>2, <2>3, <2>5, <2>6, TakeOwner
    <2> QED BY <2>7 DEF Owned!Next
  <1> QED BY <1>1, <1>2 DEF handle_tcp_listen

\* AddListener shares, replaces or is refused.
LEMMA OwnerAddListener ==
  ASSUME IInv, NEW k \in Cores, AddListener(k) PROVE Owned!Next
  <1>1. PICK id \in ConnIds : id = rx[k].id  BY DEF AddListener, IInv, RxShape, Holding
  <1>2. PICK key \in Keys : key = rx[k].key  BY DEF AddListener, IInv, RxShape, Holding
  <1>3. /\ rx[k].at = "add" /\ Add(k, key, id) /\ UNCHANGED <<conn, cli>>
        /\ rx'[k].at = "poll" /\ \A j \in Cores : j # k => rx'[j] = rx[j]
    BY <1>1, <1>2 DEF AddListener, Done, Polling, IInv, ThreadsTypeOK
  <1>4. /\ \A j \in Cores : j # k => rx[j].id # id \/ rx[j].at # "add"
        /\ cli.at = "add" => cli.id # id
    BY <1>1, <1>3 DEF IInv, HeldIsLive
  <1>5. Private(id)  BY <1>1, <1>3 DEF Private
  <1>6. ~Private(id)'  BY <1>3, <1>4 DEF Private
  <1>7. \A x \in ConnIds : x # id => Private(x)' = Private(x)  BY <1>1, <1>3 DEF Private
  <1> QED BY <1>3, <1>5, <1>6, <1>7, AddOwner

\* Every step of a receive loop is a step of Ownership or a stutter.
LEMMA OwnerSlave ==
  ASSUME IInv, NEW k \in Cores, Slave(k) PROVE Owned!Next \/ Owner' = Owner
  <1> USE DEF Dispatched
  <1>1. CASE \E key \in Keys : Lookup(k, key)
    <2>1. PICK key \in Keys : Lookup(k, key)  BY <1>1
    <2> DEFINE r == [at  |-> IF table[k][key] = None THEN "listen" ELSE "found",
                     key |-> key, id |-> table[k][key]]
    <2>2. rx' = [rx EXCEPT ![k] = r] /\ r.at # "add"  BY <2>1 DEF Lookup
    <2>3. /\ UNCHANGED <<table, cli>> /\ DOMAIN conn' = DOMAIN conn /\ rx[k].at # "add"
      BY <2>1 DEF Lookup
    <2> HIDE DEF r
    <2> QED BY <2>2, <2>3, QuietSlave
  <1>2. CASE handle_tcp_listen(k)  BY <1>2, OwnerListen
  <1>3. CASE AddListener(k)  BY <1>3, OwnerAddListener
  <1>4. CASE Dispatch(k)
    <2>1. Goto(k, conn[rx[k].id].tcpState) \/ Done(k)  BY <1>4 DEF Dispatch
    <2>2. /\ rx[k].at # "add" /\ UNCHANGED <<table, cli, conn>>  BY <1>4 DEF Dispatch
    <2>3. conn[rx[k].id].tcpState # "add"
      BY <1>4 DEF Dispatch, IInv, NeverDeaf
    <2> QED BY <2>1, <2>2, <2>3, OwnerMoves
  <1>5. CASE Nothing(k)  BY <1>5, OwnerMoves DEF Nothing
  <1>6. CASE Establish(k)  BY <1>6, OwnerStores DEF Establish
  <1>7. CASE PeerCloses(k)  BY <1>7, OwnerStores DEF PeerCloses
  <1>8. CASE handle_tcp_fin_wait1(k)
    <2>1. CASE rx[k].at = "FIN_WAIT1"  BY <1>8, <2>1, OwnerStores DEF handle_tcp_fin_wait1
    <2>2. CASE rx[k].at = "unfile"
      <3>1. conn[rx[k].id].key \in Keys
        BY <2>2 DEF IInv, ThreadsTypeOK, Connection, HeldIsLive, AtHandler, Allocated
      <3> QED BY <1>8, <2>2, <3>1, OwnerDeletes DEF handle_tcp_fin_wait1
    <2> QED BY <1>8, <2>1, <2>2 DEF handle_tcp_fin_wait1
  <1>9. CASE handle_tcp_last_ack(k)
    <2>1. CASE rx[k].at = "LAST_ACK"  BY <1>9, <2>1, OwnerStores DEF handle_tcp_last_ack
    <2>2. CASE rx[k].at = "closed"
      <3>1. conn[rx[k].id].key \in Keys
        BY <2>2 DEF IInv, ThreadsTypeOK, Connection, HeldIsLive, AtHandler, Allocated
      <3> QED BY <1>9, <2>2, <3>1, OwnerDeletes DEF handle_tcp_last_ack
    <2> QED BY <1>9, <2>1, <2>2 DEF handle_tcp_last_ack
  <1>10. CASE FreeClosed(k)
    <2>1. CASE rx[k].at = "free"
      <3>1. Free(rx[k].id) /\ Goto(k, "again") /\ UNCHANGED <<table, cli>>
        BY <1>10, <2>1 DEF FreeClosed
      <3>2. PICK id : id = rx[k].id  OBVIOUS
      <3>3. id \in ConnIds /\ Owned!Return(id)  BY <2>1, <3>1, <3>2, FreeOwner
      <3> QED BY <3>3 DEF Owned!Next
    <2>2. CASE rx[k].at = "again"
      <3>1. rx[k].key \in Keys  BY <2>2 DEF IInv, RxShape
      <3> QED BY <1>10, <2>2, <3>1, OwnerDeletes DEF FreeClosed
    <2> QED BY <1>10, <2>1, <2>2 DEF FreeClosed
  <1> QED BY <1>1, <1>2, <1>3, <1>4, <1>5, <1>6, <1>7, <1>8, <1>9, <1>10 DEF Slave

\* The command line goes on without a connection of its own.
LEMMA OwnerCli ==
  ASSUME IInv, UNCHANGED <<table, rx>>, DOMAIN conn' = DOMAIN conn,
         cli.at # "add", cli'.at # "add"
  PROVE  Owner' = Owner
  <1>1. \A x \in ConnIds : Private(x)' = Private(x)  BY DEF Private
  <1> QED BY <1>1, QuietStep

\* So is every step of "connect".
LEMMA OwnerConnect ==
  ASSUME IInv, active_connect PROVE Owned!Next \/ Owner' = Owner
  <1>1. CASE /\ cli.at = "idle"
             /\ \E key \in Keys : /\ table[1][key] = None
                                  /\ cli' = [Idle EXCEPT !.at = "absent", !.key = key]
             /\ UNCHANGED <<table, conn, rx>>
    <2>1. cli'.at = "absent"  BY <1>1 DEF Idle
    <2> QED BY <1>1, <2>1, OwnerCli
  <1>2. CASE /\ cli.at = "absent"
             /\ \E id \in ConnIds : /\ Malloc(id, cli.key, "SYN_SENT")
                                    /\ cli' = [cli EXCEPT !.at = "add", !.id = id]
             /\ UNCHANGED <<table, rx>>
    <2>1. PICK id \in ConnIds : /\ Malloc(id, cli.key, "SYN_SENT")
                                /\ cli' = [cli EXCEPT !.at = "add", !.id = id]
      BY <1>2
    <2>2. ~Allocated(id) /\ DOMAIN conn' = DOMAIN conn \cup {id}
      BY <2>1 DEF Malloc, Allocated
    <2>3. cli'.at = "add" /\ cli'.id = id  BY <2>1 DEF IInv, ThreadsTypeOK
    <2>4. Private(id)'  BY <2>3 DEF Private
    <2>5. \A x \in ConnIds : x # id => Private(x)' = Private(x)  BY <1>2, <2>3 DEF Private
    <2>6. Owned!Take(id)  BY <1>2, <2>2, <2>4, <2>5, TakeOwner
    <2> QED BY <2>6 DEF Owned!Next
  <1>3. CASE cli.at = "add" /\ Add(1, cli.key, cli.id) /\ cli' = Idle /\ UNCHANGED <<conn, rx>>
    <2>1. PICK id \in ConnIds : id = cli.id  BY <1>3 DEF IInv, CliShape
    <2>2. PICK key \in Keys : key = cli.key  BY <1>3 DEF IInv, CliShape
    <2>3. 1 \in Cores  BY ThreadsAssumption DEF Cores
    <2>4. cli'.at = "idle"  BY <1>3 DEF Idle
    <2>5. \A j \in Cores : rx[j].at = "add" => rx[j].id # id
      BY <1>3, <2>1 DEF IInv, HeldIsLive
    <2>6. Private(id) /\ ~Private(id)'  BY <1>3, <2>1, <2>4, <2>5 DEF Private
    <2>7. \A x \in ConnIds : x # id => Private(x)' = Private(x)
      BY <1>3, <2>1, <2>4 DEF Private
    <2> QED BY <1>3, <2>1, <2>2, <2>3, <2>6, <2>7, AddOwner
  <1> QED BY <1>1, <1>2, <1>3 DEF active_connect

\* The search is a stutter.
LEMMA OwnerSearch ==
  ASSUME IInv, Search PROVE Owner' = Owner
  <1>1. cli.at # "add" /\ UNCHANGED <<table, conn, rx>>  BY DEF Search
  <1>2. cli'.at # "add"
    <2>1. CASE \E key \in Keys : cli' = [Idle EXCEPT !.at = "search", !.key = key]
      BY <2>1 DEF Idle
    <2>2. CASE cli' = [cli EXCEPT !.at = "close", !.id = table[cli.core][cli.key]]
      BY <2>2 DEF IInv, ThreadsTypeOK
    <2>3. CASE cli' = [cli EXCEPT !.core = @ + 1]
      BY <1>1, <2>3 DEF IInv, ThreadsTypeOK
    <2>4. CASE cli' = Idle
      BY <2>4 DEF Idle
    <2> QED BY <2>1, <2>2, <2>3, <2>4 DEF Search
  <1>3. DOMAIN conn' = DOMAIN conn  BY <1>1
  <1> QED BY <1>1, <1>2, <1>3, OwnerCli

\* So is storing TCP_FIN_WAIT1.
LEMMA OwnerClose ==
  ASSUME IInv, active_close PROVE Owner' = Owner
  <1>1. DOMAIN conn' = DOMAIN conn  BY DEF active_close, SetState
  <1>2. cli'.at = "idle"  BY DEF active_close, Idle
  <1> QED BY <1>1, <1>2, OwnerCli DEF active_close

\* Every step of TcpThreads is one of Ownership, or leaves all owners as they are.
THEOREM OwnershipStep == IInv /\ [Next]_vars => Owned!Next \/ Owner' = Owner
  <1> SUFFICES ASSUME IInv, [Next]_vars PROVE Owned!Next \/ Owner' = Owner  OBVIOUS
  <1>1. CASE UNCHANGED vars
    <2>1. \A x \in ConnIds : StatusOf(x)' = StatusOf(x)
      BY <1>1 DEF vars, StatusOf, Allocated, Filed, Private
    <2> QED BY <2>1, OwnerKept
  <1> QED BY <1>1, OwnerSlave, OwnerConnect, OwnerSearch, OwnerClose DEF Next

\* The threads implement Ownership: an address is filled before it is shared,
\* shared once, and freed only when no table leads to it.
THEOREM OwnershipCorrect == Spec => ImplementsOwnership
  <1>1. Init => Owned!Init
    BY DEF Init, Owner, Allocated, Owned!Init
  <1>2. IInv /\ [Next]_vars => [Owned!Next]_Owner
    BY OwnershipStep
  <1> QED BY <1>1, <1>2, AlwaysIInv, PTL DEF Spec, ImplementsOwnership, Owned!Spec

=============================================================================
