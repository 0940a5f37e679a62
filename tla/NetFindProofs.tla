----------------------------- MODULE NetFindProofs -----------------------------
(***************************************************************************)
(* Theorems about NetFind: the objects of remote servers and the ways to   *)
(* find one, for every set of programs and addresses, any memory, and a    *)
(* network that loses, delays and reorders.                                *)
(***************************************************************************)
EXTENDS NetFind, FiniteSetTheorems, TLAPS

Servers == [id : Ids \cup {None}, refs : Nat, failures : 0..MaxFailure,
            waiting : SUBSET PingIds, late : SUBSET PingIds, full : BOOLEAN]

\* Datagrams name programs.
Datagrams ==
  \A d \in net :
    /\ d.kind \in {"ask", "pong", "info_rsp"} => d.from \in Ids
    /\ d.kind = "list_rsp" => d.ids \subseteq Ids

\* The two safety properties are inductive together: what a count counts is
\* what leads to the object, and a free object is one that nothing leads to.
NetFindInv == NetFindTypeOK /\ Datagrams /\ RefsExact /\ TablesAgree

(***************************************************************************)
(* Objects.                                                                *)
(***************************************************************************)

\* Free memory is held by nobody, and whatever is held is not free.
LEMMA UnusedServer ==
  /\ Unused \in Servers /\ Unused.refs = 0
  /\ \A r \in Servers : r.refs # 0 => r # Unused
  BY NetFindAssumption DEF Unused, Server, Servers

\* The constructor leaves one reference.
LEMMA FreshServer ==
  ASSUME NEW i \in Ids
  PROVE  Fresh(i) \in Servers /\ Fresh(i).id = i /\ Fresh(i).refs = 1 /\ Fresh(i) # Unused
  <1>1. Fresh(i) \in Servers /\ Fresh(i).id = i /\ Fresh(i).refs = 1
    BY NetFindAssumption DEF Fresh, Server, Servers
  <1> QED
    BY <1>1, UnusedServer

\* NULL is neither an object nor an id.
LEMMA NoneIsNoObject == None \notin Objects /\ None \notin Ids
  BY NetFindAssumption

\* Whatever leads to an object keeps it from being free.
LEMMA HeldInUse ==
  ASSUME NetFindInv, NEW o \in Objects, o \in Table \/ o \in endpoints \/ o = unit
  PROVE  obj[o] # Unused
  <1>1. obj[o].refs # 0
    BY DEF NetFindInv, RefsExact
  <1> QED
    BY <1>1 DEF NetFindInv, RefsExact

\* Two programs have two objects.
LEMMA OneServer ==
  ASSUME NetFindInv, NEW i \in Ids, NEW j \in Ids, Known(i), byId[i] = byId[j]
  PROVE  i = j
  BY DEF NetFindInv, TablesAgree, Known

\* The table finds a server under its own id.
LEMMA KnownServer ==
  ASSUME NetFindInv, NEW i \in Ids, Known(i)
  PROVE  byId[i] \in Objects /\ byId[i] \in Table /\ obj[byId[i]].id = i
  BY DEF NetFindInv, NetFindTypeOK, TablesAgree, Known, Table

\* The table leads only to objects.
LEMMA TableObjects == NetFindInv => Table \subseteq Objects /\ endpoints \subseteq Table
  BY DEF NetFindInv, NetFindTypeOK, TablesAgree, Table

\* What Sent adds comes from the sender.
LEMMA SentSubset == \A way, messages : Sent(way, messages) \subseteq way \cup messages
  BY DEF Sent

(***************************************************************************)
(* Every action keeps NetFindInv.                                          *)
(***************************************************************************)

\* What changes neither the counts nor the ids nor the tables keeps both.
SameCounts ==
  /\ UNCHANGED <<table, unit>>
  /\ obj' \in [Objects -> Servers]
  /\ \A o \in Objects : /\ obj'[o].refs = obj[o].refs /\ obj'[o].id = obj[o].id
                        /\ obj[o] = Unused => obj'[o] = Unused

\* such a step keeps the counts exact and the tables in agreement.
LEMMA CountsKept ==
  ASSUME NetFindInv, SameCounts
  PROVE  RefsExact' /\ TablesAgree'
  <1>1. UNCHANGED <<byId, bySockaddr, endpoints, unit>> /\ Table' = Table
    BY DEF SameCounts, Table, table
  <1>2. \A o \in Objects : obj'[o].refs = obj[o].refs /\ obj'[o].id = obj[o].id
    BY DEF SameCounts
  <1>3. \A o \in Objects : obj[o] = Unused => obj'[o] = Unused
    BY DEF SameCounts
  <1>4. ASSUME NEW o \in Objects
        PROVE  obj'[o].refs = 0 <=> obj'[o] = Unused
    <2>1. obj[o].refs = 0 <=> obj[o] = Unused
      BY DEF NetFindInv, RefsExact
    <2>2. obj'[o].refs = obj[o].refs
      BY <1>2
    <2>3. obj'[o] = Unused => obj'[o].refs = 0
      BY UnusedServer
    <2> QED
      BY <1>3, <2>1, <2>2, <2>3
  <1>5. RefsExact'
    BY <1>1, <1>2, <1>4 DEF NetFindInv, RefsExact
  <1>6. \A i \in Ids : Known(i) => byId[i] \in Objects
    BY KnownServer
  <1>7. \A a \in Addrs : bySockaddr[a] # None => bySockaddr[a] \in Objects
    BY DEF NetFindInv, NetFindTypeOK
  <1>8. TablesAgree'
    BY <1>1, <1>2, <1>6, <1>7 DEF NetFindInv, TablesAgree, Known
  <1> QED
    BY <1>5, <1>8

\* A new server takes a free object: nothing leads to it yet.
LEMMA DiscoverKeeps ==
  ASSUME NetFindInv, NEW i \in Ids, NEW o \in Objects, Discover(i, o), UNCHANGED unit
  PROVE  /\ obj' \in [Objects -> Servers] /\ byId' \in [Ids -> Objects \cup {None}]
         /\ bySockaddr' \in [Addrs -> Objects \cup {None}]
         /\ RefsExact' /\ TablesAgree'
  <1>1. /\ byId[i] = None /\ obj[o] = Unused
        /\ obj' = [obj EXCEPT ![o] = Fresh(i)] /\ byId' = [byId EXCEPT ![i] = o]
        /\ bySockaddr' = [bySockaddr EXCEPT ![Addr[i]] = o] /\ UNCHANGED endpoints
    BY DEF Discover, Known, FreeObjects, Readdressed
  <1>2. o \notin Table /\ o \notin endpoints /\ o # unit /\ o # None
    BY <1>1, HeldInUse, NoneIsNoObject
  <1>3. /\ obj \in [Objects -> Servers] /\ byId \in [Ids -> Objects \cup {None}]
        /\ bySockaddr \in [Addrs -> Objects \cup {None}]
    BY DEF NetFindInv, NetFindTypeOK, Servers
  <1>4. /\ obj' \in [Objects -> Servers] /\ byId' \in [Ids -> Objects \cup {None}]
        /\ bySockaddr' \in [Addrs -> Objects \cup {None}]
    BY <1>1, <1>3, FreshServer
  <1>5. Table' = Table \cup {o}
    BY <1>1, <1>2, <1>3 DEF Table
  <1>6. RefsExact'
    <2>1. ASSUME NEW x \in Objects
          PROVE  /\ obj'[x].refs = (IF x \in Table' THEN 1 ELSE 0)
                                   + (IF x \in endpoints' THEN 2 ELSE 0)
                                   + (IF x = unit' THEN 1 ELSE 0)
                 /\ obj'[x].refs = 0 <=> obj'[x] = Unused
      <3>1. CASE x = o
        BY <1>1, <1>2, <1>3, <1>5, <3>1, FreshServer
      <3>2. CASE x # o
        BY <1>1, <1>3, <1>5, <3>2 DEF NetFindInv, RefsExact
      <3> QED
        BY <3>1, <3>2
    <2> QED
      BY <2>1 DEF RefsExact
  <1>7. TablesAgree'
    <2>1. ASSUME NEW j \in Ids, byId'[j] # None PROVE obj'[byId'[j]].id = j
      <3>1. CASE j = i
        BY <1>1, <1>3, <3>1, FreshServer
      <3>2. CASE j # i
        <4>1. byId'[j] = byId[j] /\ byId[j] \in Table /\ byId[j] # o
          BY <1>1, <1>2, <1>3, <2>1, <3>2 DEF Table
        <4> QED
          BY <1>1, <1>3, <2>1, <4>1 DEF NetFindInv, TablesAgree, Known
      <3> QED
        BY <3>1, <3>2
    <2>2. ASSUME NEW a \in Addrs, bySockaddr'[a] # None
          PROVE  bySockaddr'[a] \in Table' /\ Addr[obj'[bySockaddr'[a]].id] = a
      <3>1. CASE a = Addr[i]
        BY <1>1, <1>3, <1>5, <3>1, FreshServer
      <3>2. CASE a # Addr[i]
        <4>1. bySockaddr'[a] = bySockaddr[a] /\ bySockaddr[a] \in Table
          BY <1>1, <1>3, <2>2, <3>2 DEF NetFindInv, TablesAgree
        <4>2. bySockaddr[a] # o /\ bySockaddr[a] \in Objects
          BY <1>2, <4>1, TableObjects
        <4> QED
          BY <1>1, <1>3, <1>5, <2>2, <4>1, <4>2 DEF NetFindInv, TablesAgree
      <3> QED
        BY <3>1, <3>2
    <2>3. endpoints' \subseteq Table'
      BY <1>1, <1>5 DEF NetFindInv, TablesAgree
    <2> QED
      BY <2>1, <2>2, <2>3 DEF TablesAgree, Known
  <1> QED
    BY <1>4, <1>6, <1>7

\* The other programs and the network change no table.
LEMMA OthersKeep ==
  ASSUME NetFindInv, Others
  PROVE  NetFindInv'
  <1>1. UNCHANGED <<obj, table, infoList, pc, unit, fresh, lost, status>>
    BY DEF Others, Start, Stop, Pings, ListServerFinds, ListServerForgets, AnswerList, Lose, Answer,
           BecomeServer, threads, world
  <1>2. isServer' \in BOOLEAN /\ up' \subseteq started' /\ started' \subseteq Ids
        /\ listed' \subseteq started'
    BY DEF Others, Start, Stop, Pings, ListServerFinds, ListServerForgets, AnswerList, Lose, Answer,
           BecomeServer, threads, world, NetFindInv, NetFindTypeOK
  <1>3. NetFindTypeOK'
    BY <1>1, <1>2 DEF NetFindInv, NetFindTypeOK, table
  <1>4. Datagrams'
    <2>1. CASE UNCHANGED net
      BY <2>1 DEF NetFindInv, Datagrams
    <2>2. CASE \E i \in Ids : Pings(i)
      BY <2>2, SentSubset DEF Pings, Ask, NetFindInv, Datagrams
    <2>3. CASE \E d \in net : Lose(d)
      BY <2>3 DEF Lose, NetFindInv, Datagrams
    <2>4. CASE \E d \in net : AnswerList(d)
      <3>1. listed \subseteq Ids
        BY DEF NetFindInv, NetFindTypeOK
      <3> QED
        BY <2>4, <3>1 DEF AnswerList, ListRsp, NetFindInv, Datagrams
    <2>5. CASE \E d \in net, i \in Ids : Answer(d, i)
      BY <2>5 DEF Answer, Pong, InfoRsp, NetFindInv, Datagrams
    <2> QED
      BY <2>1, <2>2, <2>3, <2>4, <2>5 DEF Others, Start, Stop, ListServerFinds, ListServerForgets,
                                          BecomeServer
  <1>5. RefsExact' /\ TablesAgree'
    BY <1>1 DEF NetFindInv, RefsExact, TablesAgree, Table, Known, table
  <1> QED
    BY <1>3, <1>4, <1>5 DEF NetFindInv

\* The server thread holds the object it answers for, and only that is certain
\* of the other one.
LEMMA ServerKeeps ==
  ASSUME NetFindInv, ServerThread
  PROVE  NetFindInv'
  <1> USE NoneIsNoObject
  <1>1. ASSUME NEW d \in net, HandleKnown(d) PROVE NetFindInv'
    <2> DEFINE o == byId[d.from]
    <2>1. /\ d.kind = "ask" /\ Known(d.from) /\ unit = None /\ unit' = o
          /\ obj' = Referenced(obj, o) /\ net' = net \ {d}
          /\ UNCHANGED <<table, infoList, pc, fresh, isServer, world, lost, status>>
      BY <1>1 DEF HandleKnown, ServerIdle
    <2>2. d.from \in Ids
      BY <2>1 DEF NetFindInv, Datagrams
    <2>3. o \in Objects /\ o \in Table /\ obj[o] \in Servers /\ obj \in [Objects -> Servers]
      BY <2>1, <2>2, KnownServer DEF NetFindInv, NetFindTypeOK, Servers
    <2> HIDE DEF o
    <2>4. /\ obj' \in [Objects -> Servers]
          /\ obj'[o].refs = obj[o].refs + 1 /\ obj'[o].id = obj[o].id
          /\ \A x \in Objects \ {o} : obj'[x] = obj[x]
      BY <2>1, <2>3 DEF Referenced, Servers
    <2>5. obj'[o] # Unused
      <3>1. obj[o].refs \in Nat
        BY <2>3 DEF Servers
      <3> QED
        BY <2>3, <2>4, <3>1, UnusedServer
    <2>6. Table' = Table
      BY <2>1 DEF Table, table
    <2>7. RefsExact'
      BY <2>1, <2>3, <2>4, <2>5, <2>6 DEF NetFindInv, RefsExact, table, Servers
    <2>8. \A x \in Objects : obj'[x].id = obj[x].id
      BY <2>4
    <2>9. TablesAgree'
      BY <2>1, <2>6, <2>8, KnownServer, TableObjects DEF NetFindInv, TablesAgree, Known, table
    <2>10. NetFindTypeOK' /\ Datagrams'
      BY <2>1, <2>3, <2>4 DEF NetFindInv, NetFindTypeOK, Datagrams, Servers, table, world
    <2> QED
      BY <2>7, <2>9, <2>10 DEF NetFindInv
  <1>2. ASSUME NEW d \in net, NEW o \in Objects, HandleUnknown(d, o) PROVE NetFindInv'
    <2>1. /\ d.kind = "ask" /\ Discover(d.from, o) /\ fresh' = o /\ net' = net \ {d}
          /\ UNCHANGED <<infoList, pc, unit, isServer, world, lost, status>>
      BY <1>2 DEF HandleUnknown
    <2>2. d.from \in Ids
      BY <2>1 DEF NetFindInv, Datagrams
    <2>3. UNCHANGED endpoints
      BY <2>1 DEF Discover
    <2>4. NetFindTypeOK' /\ Datagrams' /\ RefsExact' /\ TablesAgree'
      BY <2>1, <2>2, <2>3, DiscoverKeeps DEF NetFindInv, NetFindTypeOK, Datagrams, Servers, world
    <2> QED
      BY <2>4 DEF NetFindInv
  <1>3. CASE Answered
    <2> DEFINE o == unit
    <2>1. /\ o # None /\ obj' = [obj EXCEPT ![o] = Released(@, 1)] /\ unit' = None
          /\ UNCHANGED <<table, infoList, pc, fresh, isServer, net, world, lost, status>>
      BY <1>3 DEF Answered
    <2>2. o \in Objects /\ obj[o] \in Servers /\ obj \in [Objects -> Servers]
      BY <2>1 DEF NetFindInv, NetFindTypeOK, Servers
    <2>3. /\ obj[o].refs = (IF o \in Table THEN 1 ELSE 0) + (IF o \in endpoints THEN 2 ELSE 0) + 1
          /\ o \in Table => obj[o].refs # 1
          /\ o \notin Table => obj[o].refs = 1
      BY <2>2, TableObjects DEF NetFindInv, RefsExact
    <2>4. /\ \A x \in Objects \ {o} : obj'[x] = obj[x]
          /\ obj'[o] = IF obj[o].refs = 1 THEN Unused ELSE [obj[o] EXCEPT !.refs = @ - 1]
      BY <2>1, <2>2 DEF Released
    <2>5. /\ o \in Table => /\ obj'[o] \in Servers /\ obj'[o].id = obj[o].id
                            /\ obj'[o].refs = obj[o].refs - 1 /\ obj'[o] # Unused
          /\ o \notin Table => obj'[o] = Unused
      <3>1. CASE o \in Table
        <4>1. obj'[o] = [obj[o] EXCEPT !.refs = @ - 1] /\ obj[o].refs - 1 \in Nat \ {0}
          BY <2>3, <2>4, <3>1
        <4>2. /\ obj'[o] \in Servers /\ obj'[o].id = obj[o].id /\ obj'[o].refs = obj[o].refs - 1
          BY <2>2, <4>1 DEF Servers
        <4> QED
          BY <3>1, <4>1, <4>2, UnusedServer
      <3>2. CASE o \notin Table
        BY <2>3, <2>4, <3>2
      <3> QED
        BY <3>1, <3>2
    <2>6. obj' \in [Objects -> Servers]
      BY <2>1, <2>2, <2>5, UnusedServer DEF Released
    <2>7. Table' = Table
      BY <2>1 DEF Table, table
    <2> HIDE DEF o
    <2>8. RefsExact'
      <3>1. ASSUME NEW x \in Objects
            PROVE  /\ obj'[x].refs = (IF x \in Table' THEN 1 ELSE 0)
                                     + (IF x \in endpoints' THEN 2 ELSE 0)
                                     + (IF x = unit' THEN 1 ELSE 0)
                   /\ obj'[x].refs = 0 <=> obj'[x] = Unused
        <4>1. CASE x = o
          BY <2>1, <2>2, <2>3, <2>5, <2>7, <4>1, UnusedServer, TableObjects DEF table
        <4>2. CASE x # o
          BY <2>1, <2>2, <2>4, <2>7, <4>2 DEF NetFindInv, RefsExact, table, o
        <4> QED
          BY <4>1, <4>2
      <3> QED
        BY <3>1 DEF RefsExact
    <2>9. TablesAgree'
      <3>1. \A x \in Table : obj'[x].id = obj[x].id
        BY <2>4, <2>5, TableObjects
      <3> QED
        BY <2>1, <2>7, <3>1, KnownServer DEF NetFindInv, TablesAgree, Known, table
    <2>10. NetFindTypeOK' /\ Datagrams'
      BY <2>1, <2>6 DEF NetFindInv, NetFindTypeOK, Datagrams, Servers, table, world
    <2> QED
      BY <2>8, <2>9, <2>10 DEF NetFindInv
  <1>4. CASE PushInfo
    BY <1>4 DEF PushInfo, NetFindInv, NetFindTypeOK, Datagrams, RefsExact, TablesAgree, Table, Known,
                table, world
  <1>5. CASE PushFreed
    BY <1>5 DEF PushFreed, NetFindInv, NetFindTypeOK, Datagrams, RefsExact, TablesAgree, Table, Known,
                table, threads, world
  <1> QED
    BY <1>1, <1>2, <1>3, <1>4, <1>5 DEF ServerThread

\* A ping that becomes late belongs to an object in use.
LEMMA TimeKeeps ==
  ASSUME NetFindInv, NEW o \in Objects, NEW p \in PingIds, Expire(o, p)
  PROVE  NetFindInv'
  <1>1. /\ p \in obj[o].waiting /\ obj' = [obj EXCEPT ![o].late = @ \cup {p}]
        /\ lost' = lost \cup {<<o, p>>}
        /\ UNCHANGED <<table, infoList, threads, net, world, status>>
    BY DEF Expire
  <1>2. obj \in [Objects -> Servers] /\ obj[o] # Unused
    BY <1>1 DEF NetFindInv, NetFindTypeOK, Servers, Unused, Server
  <1>3. /\ obj' \in [Objects -> Servers]
        /\ \A x \in Objects : /\ obj'[x].refs = obj[x].refs /\ obj'[x].id = obj[x].id
                              /\ obj[x] = Unused => obj'[x] = Unused
    BY <1>1, <1>2 DEF Servers
  <1>4. RefsExact' /\ TablesAgree'
    <2>1. SameCounts
      BY <1>1, <1>3 DEF SameCounts, threads
    <2> QED
      BY <2>1, CountsKept
  <1>5. NetFindTypeOK' /\ Datagrams'
    BY <1>1, <1>3 DEF NetFindInv, NetFindTypeOK, Datagrams, Servers, table, threads, world
  <1> QED
    BY <1>4, <1>5 DEF NetFindInv

\* At the start nothing is known and all memory is free.
LEMMA NetFindStart == Init => NetFindInv
  <1> SUFFICES ASSUME Init PROVE NetFindInv
    OBVIOUS
  <1>1. /\ obj = [o \in Objects |-> Unused] /\ byId = [i \in Ids |-> None]
        /\ bySockaddr = [a \in Addrs |-> None] /\ endpoints = {} /\ unit = None /\ net = {}
    BY DEF Init
  <1>2. Table = {}
    BY <1>1 DEF Table
  <1>3. RefsExact
    BY <1>1, <1>2, UnusedServer, NoneIsNoObject DEF RefsExact
  <1>4. TablesAgree /\ Datagrams
    BY <1>1, <1>2 DEF TablesAgree, Datagrams, Known
  <1>5. NetFindTypeOK
    BY UnusedServer DEF Init, NetFindTypeOK, Servers
  <1> QED
    BY <1>3, <1>4, <1>5 DEF NetFindInv

\* An answer that is awaited resets a count and no reference.
LEMMA PongKeeps ==
  ASSUME NetFindInv, NEW d \in net, HandlePong(d)
  PROVE  NetFindInv'
  <1> DEFINE o == byId[d.from]
  <1>1. /\ d.kind = "pong" /\ Known(d.from) /\ net' = net \ {d}
        /\ obj' = [obj EXCEPT ![o] = Ponged(@, d.ping)]
        /\ UNCHANGED <<table, infoList, threads, world, lost, status>>
    BY DEF HandlePong
  <1>2. d.from \in Ids
    BY <1>1 DEF NetFindInv, Datagrams
  <1>3. o \in Objects /\ o \in Table /\ obj \in [Objects -> Servers] /\ obj[o] # Unused
    BY <1>1, <1>2, KnownServer, HeldInUse DEF NetFindInv, NetFindTypeOK, Servers
  <1> HIDE DEF o
  <1>4. Ponged(obj[o], d.ping) \in Servers /\ Ponged(obj[o], d.ping).refs = obj[o].refs
        /\ Ponged(obj[o], d.ping).id = obj[o].id
    <2>1. obj[o] \in Servers /\ 0 \in 0..MaxFailure
      BY <1>3, NetFindAssumption
    <2> QED
      BY <2>1 DEF Ponged, Servers
  <1>5. /\ obj' \in [Objects -> Servers]
        /\ \A x \in Objects : /\ obj'[x].refs = obj[x].refs /\ obj'[x].id = obj[x].id
                              /\ obj[x] = Unused => obj'[x] = Unused
    BY <1>1, <1>3, <1>4
  <1>6. UNCHANGED <<table, unit>>
    BY <1>1 DEF threads
  <1>7. RefsExact' /\ TablesAgree'
    <2>1. SameCounts
      BY <1>5, <1>6 DEF SameCounts
    <2> QED
      BY <2>1, CountsKept
  <1>8. NetFindTypeOK' /\ Datagrams'
    BY <1>1, <1>5 DEF NetFindInv, NetFindTypeOK, Datagrams, Servers, table, threads, world
  <1> QED
    BY <1>7, <1>8 DEF NetFindInv

\* The first endpoint of a server brings two units, one for each list it is in.
LEMMA InfoKeeps ==
  ASSUME NetFindInv, NEW d \in net, HandleInfo(d)
  PROVE  NetFindInv'
  <1>1. /\ d.kind = "info_rsp" /\ net' = net \ {d}
        /\ UNCHANGED <<byId, bySockaddr, infoList, threads, world, lost, status>>
    BY DEF HandleInfo
  <1>2. CASE ~Known(d.from)
    <2>1. UNCHANGED <<obj, endpoints>>
      BY <1>2 DEF HandleInfo
    <2>2. NetFindTypeOK' /\ Datagrams' /\ RefsExact' /\ TablesAgree'
      BY <1>1, <2>1 DEF NetFindInv, NetFindTypeOK, Datagrams, RefsExact, TablesAgree, Table, Known,
                        threads, world
    <2> QED
      BY <2>2 DEF NetFindInv
  <1>3. CASE Known(d.from)
    <2> DEFINE o == byId[d.from]
    <2>1. /\ endpoints' = endpoints \cup {o}
          /\ obj' = [obj EXCEPT ![o] = WithEndpoint(Informed(@), o)]
      BY <1>3 DEF HandleInfo
    <2>2. d.from \in Ids
      BY <1>1 DEF NetFindInv, Datagrams
    <2>3. o \in Objects /\ o \in Table /\ obj \in [Objects -> Servers] /\ obj[o].refs # 0
      BY <1>3, <2>2, KnownServer, HeldInUse DEF NetFindInv, NetFindTypeOK, RefsExact, Servers
    <2> HIDE DEF o
    <2>4. /\ WithEndpoint(Informed(obj[o]), o) \in Servers
          /\ WithEndpoint(Informed(obj[o]), o).refs
               = obj[o].refs + (IF o \in endpoints THEN 0 ELSE 2)
          /\ WithEndpoint(Informed(obj[o]), o).id = obj[o].id
      <3>1. /\ Informed(obj[o]) \in Servers /\ Informed(obj[o]).refs = obj[o].refs
            /\ Informed(obj[o]).id = obj[o].id
        BY <2>3 DEF Informed, Servers
      <3>2. CASE o \in endpoints
        <4>1. WithEndpoint(Informed(obj[o]), o) = Informed(obj[o])
          BY <3>1, <3>2 DEF WithEndpoint, Servers
        <4> QED
          BY <3>1, <3>2, <4>1 DEF Servers
      <3>3. CASE o \notin endpoints
        BY <3>1, <3>3 DEF WithEndpoint, Servers
      <3> QED
        BY <3>2, <3>3
    <2>5. /\ obj' \in [Objects -> Servers]
          /\ obj'[o].refs = obj[o].refs + (IF o \in endpoints THEN 0 ELSE 2)
          /\ \A x \in Objects \ {o} : obj'[x] = obj[x]
          /\ \A x \in Objects : obj'[x].id = obj[x].id
      BY <2>1, <2>3, <2>4
    <2>6. obj[o].refs \in Nat
      BY <2>3 DEF Servers
    <2>7. obj'[o].refs # 0 /\ obj'[o] # Unused
      BY <2>3, <2>5, <2>6, UnusedServer
    <2>8. Table' = Table /\ UNCHANGED unit
      BY <1>1 DEF Table, threads
    <2>9. RefsExact'
      <3>1. ASSUME NEW x \in Objects
            PROVE  /\ obj'[x].refs = (IF x \in Table' THEN 1 ELSE 0)
                                     + (IF x \in endpoints' THEN 2 ELSE 0)
                                     + (IF x = unit' THEN 1 ELSE 0)
                   /\ obj'[x].refs = 0 <=> obj'[x] = Unused
        <4>1. CASE x = o
          BY <2>1, <2>3, <2>5, <2>6, <2>7, <2>8, <4>1 DEF NetFindInv, RefsExact
        <4>2. CASE x # o
          BY <2>1, <2>5, <2>8, <4>2 DEF NetFindInv, RefsExact
        <4> QED
          BY <4>1, <4>2
      <3> QED
        BY <3>1 DEF RefsExact
    <2>10. TablesAgree'
      BY <1>1, <2>1, <2>3, <2>5, <2>8, KnownServer, TableObjects DEF NetFindInv, TablesAgree, Known
    <2>11. NetFindTypeOK' /\ Datagrams'
      BY <1>1, <2>1, <2>3, <2>5 DEF NetFindInv, NetFindTypeOK, Datagrams, Servers, threads, world
    <2> QED
      BY <2>9, <2>10, <2>11 DEF NetFindInv
  <1> QED
    BY <1>2, <1>3

\* A list brings as many new servers as it names, each to an object of its own.
LEMMA ListKeeps ==
  ASSUME NetFindInv, NEW d \in net, NEW place, HandleList(d, place)
  PROVE  NetFindInv'
  <1> DEFINE new == {i \in d.ids : ~Known(i)}
             taken == {place[i] : i \in new}
  <1>1. /\ d.kind = "list_rsp" /\ net' = net \ {d}
        /\ UNCHANGED <<endpoints, threads, world, lost, status>>
        /\ place \in [new -> FreeObjects]
        /\ \A i, j \in new : place[i] = place[j] => i = j
        /\ obj' = [o \in Objects |->
             IF \E i \in new : place[i] = o THEN Fresh(CHOOSE i \in new : place[i] = o) ELSE obj[o]]
        /\ byId' = [i \in Ids |-> IF i \in new THEN place[i] ELSE byId[i]]
        /\ infoList' = infoList \cup taken
    BY DEF HandleList
  <1>2. PICK last \in [Addrs -> Ids \cup {None}] :
          /\ \A a \in Addrs :
               LET here == {i \in new : Addr[i] = a} IN
                 last[a] \in IF here = {} THEN {None} ELSE here
          /\ bySockaddr' = [a \in Addrs |->
               IF last[a] = None THEN bySockaddr[a] ELSE place[last[a]]]
    BY DEF HandleList
  <1>3. new \subseteq Ids /\ \A i \in new : byId[i] = None
    BY <1>1 DEF NetFindInv, Datagrams, Known
  <1>4. /\ obj \in [Objects -> Servers] /\ byId \in [Ids -> Objects \cup {None}]
        /\ bySockaddr \in [Addrs -> Objects \cup {None}]
    BY DEF NetFindInv, NetFindTypeOK, Servers
  <1>5. /\ \A i \in new : place[i] \in Objects /\ obj[place[i]] = Unused
        /\ taken \subseteq Objects
    BY <1>1 DEF FreeObjects
  <1>6. \A a \in Addrs : last[a] # None => last[a] \in new /\ Addr[last[a]] = a
    BY <1>2
  <1> HIDE DEF new
  <1>7. \A o \in taken : o \notin Table /\ o \notin endpoints /\ o # unit /\ o # None
    BY <1>5, HeldInUse, NoneIsNoObject
  <1>8. \A i \in new : obj'[place[i]] = Fresh(i)
    <2> TAKE i \in new
    <2>1. (CHOOSE j \in new : place[j] = place[i]) = i
      BY <1>1
    <2> QED
      BY <1>1, <1>5, <2>1
  <1>9. \A o \in Objects \ taken : obj'[o] = obj[o]
    BY <1>1
  <1>10. obj' \in [Objects -> Servers]
    <2>1. \A o \in Objects : obj'[o] \in Servers
      BY <1>3, <1>4, <1>8, <1>9, FreshServer
    <2> QED
      BY <1>1, <2>1
  <1>11. Table' = Table \cup taken
    <2>1. Table' \subseteq Table \cup taken
      BY <1>1 DEF Table
    <2>2. Table \subseteq Table'
      <3>1. ASSUME NEW i \in Ids, byId[i] # None PROVE byId[i] \in Table'
        <4>1. byId'[i] = byId[i]
          BY <1>1, <1>3, <3>1
        <4> QED
          BY <3>1, <4>1 DEF Table
      <3> QED
        BY <3>1 DEF Table
    <2>3. taken \subseteq Table'
      <3>1. ASSUME NEW i \in new PROVE place[i] \in Table'
        BY <1>1, <1>3, <1>7 DEF Table
      <3> QED
        BY <3>1
    <2> QED
      BY <2>1, <2>2, <2>3
  <1>12. RefsExact'
    <2>1. ASSUME NEW x \in Objects
          PROVE  /\ obj'[x].refs = (IF x \in Table' THEN 1 ELSE 0)
                                   + (IF x \in endpoints' THEN 2 ELSE 0)
                                   + (IF x = unit' THEN 1 ELSE 0)
                 /\ obj'[x].refs = 0 <=> obj'[x] = Unused
      <3>1. CASE x \in taken
        <4>1. obj'[x].refs = 1 /\ obj'[x] # Unused
          BY <1>3, <1>8, <3>1, FreshServer
        <4> QED
          BY <1>1, <1>7, <1>11, <3>1, <4>1 DEF threads
      <3>2. CASE x \notin taken
        BY <1>1, <1>9, <1>11, <3>2 DEF NetFindInv, RefsExact, threads
      <3> QED
        BY <3>1, <3>2
    <2> QED
      BY <2>1 DEF RefsExact
  <1>13. TablesAgree'
    <2>1. \A o \in Table : obj'[o].id = obj[o].id
      BY <1>7, <1>9, TableObjects
    <2>2. ASSUME NEW j \in Ids, byId'[j] # None PROVE obj'[byId'[j]].id = j
      <3>1. CASE j \in new
        BY <1>1, <1>8, <3>1, FreshServer
      <3>2. CASE j \notin new
        <4>1. byId'[j] = byId[j] /\ byId[j] \in Table /\ obj[byId[j]].id = j
          BY <1>1, <2>2, <3>2, KnownServer DEF Known
        <4> QED
          BY <2>1, <4>1
      <3> QED
        BY <3>1, <3>2
    <2>3. ASSUME NEW a \in Addrs, bySockaddr'[a] # None
          PROVE  bySockaddr'[a] \in Table' /\ Addr[obj'[bySockaddr'[a]].id] = a
      <3>1. CASE last[a] # None
        <4>1. last[a] \in new /\ Addr[last[a]] = a /\ bySockaddr'[a] = place[last[a]]
          BY <1>2, <1>6, <3>1
        <4>2. obj'[place[last[a]]].id = last[a]
          BY <1>3, <1>8, <4>1, FreshServer
        <4> QED
          BY <1>11, <4>1, <4>2
      <3>2. CASE last[a] = None
        <4>1. bySockaddr'[a] = bySockaddr[a] /\ bySockaddr[a] \in Table
              /\ Addr[obj[bySockaddr[a]].id] = a
          BY <1>2, <2>3, <3>2 DEF NetFindInv, TablesAgree
        <4> QED
          BY <1>11, <2>1, <4>1
      <3> QED
        BY <3>1, <3>2
    <2>4. endpoints' \subseteq Table'
      BY <1>1, <1>11 DEF NetFindInv, TablesAgree
    <2> QED
      BY <2>2, <2>3, <2>4 DEF TablesAgree, Known
  <1>14. /\ byId' \in [Ids -> Objects \cup {None}]
         /\ bySockaddr' \in [Addrs -> Objects \cup {None}]
    BY <1>1, <1>2, <1>4, <1>5, <1>6
  <1>15. NetFindTypeOK' /\ Datagrams'
    BY <1>1, <1>5, <1>10, <1>14 DEF NetFindInv, NetFindTypeOK, Datagrams, Servers, threads, world
  <1> QED
    BY <1>12, <1>13, <1>15 DEF NetFindInv

\* What validate_alive counts is a number that a survivor keeps within bounds.
LEMMA FailuresBounded ==
  ASSUME NEW r \in Servers, ~(FailuresOf(r) > MaxFailure)
  PROVE  FailuresOf(r) \in 0..MaxFailure
  <1>1. IsFiniteSet(r.late)
    BY FS_Subset, NetFindAssumption DEF Servers
  <1>2. Cardinality(r.late) \in Nat
    BY <1>1, FS_CardinalityType
  <1>3. r.failures \in Nat /\ MaxFailure \in Nat
    BY NetFindAssumption DEF Servers
  <1> QED
    BY <1>2, <1>3 DEF FailuresOf

\* A dropped server loses the units of the table and of its endpoint; the object
\* lives on only for the server thread.
LEMMA ReviewKeeps ==
  ASSUME NetFindInv, Review
  PROVE  NetFindInv'
  <1>1. /\ pc' = "invoke" /\ lost' = {}
        /\ obj' = [o \in Objects |->
             CASE o \in Dead -> Unlinked(o)
               [] o \in Table \ Dead -> [obj[o] EXCEPT !.failures = FailuresOf(obj[o])]
               [] OTHER -> obj[o]]
        /\ byId' = [i \in Ids |-> IF byId[i] \in Dead THEN None ELSE byId[i]]
        /\ bySockaddr' = [a \in Addrs |-> IF bySockaddr[a] \in Dead THEN None ELSE bySockaddr[a]]
        /\ endpoints' = endpoints \ Dead
        /\ UNCHANGED <<infoList, unit, fresh, isServer, net, world, status>>
    BY DEF Review, AddressAfter, EndpointsAfter
  <1>2. /\ obj \in [Objects -> Servers] /\ byId \in [Ids -> Objects \cup {None}]
        /\ bySockaddr \in [Addrs -> Objects \cup {None}]
    BY DEF NetFindInv, NetFindTypeOK, Servers
  <1>3. Dead \subseteq Table /\ Table \subseteq Objects /\ endpoints \subseteq Table /\ None \notin Table
    BY TableObjects, NoneIsNoObject DEF Dead
  <1>4. Table' = Table \ Dead
    BY <1>1, <1>2, <1>3, NoneIsNoObject DEF Table
  <1>5. ASSUME NEW o \in Dead
        PROVE  /\ obj'[o] \in Servers
               /\ obj'[o].refs = IF o = unit THEN 1 ELSE 0
               /\ obj'[o].refs = 0 <=> obj'[o] = Unused
    <2>1. obj'[o] = Unlinked(o) /\ obj[o] \in Servers /\ o \in Table /\ o \in Objects
      BY <1>1, <1>2, <1>3
    <2>2. obj[o].refs = Units(o) + (IF o = unit THEN 1 ELSE 0) /\ Units(o) \in Nat
      BY <2>1 DEF NetFindInv, RefsExact, Units
    <2>3. CASE o = unit
      <3>1. obj'[o] = [obj[o] EXCEPT !.refs = @ - Units(o)] /\ obj[o].refs - Units(o) = 1
        BY <2>1, <2>2, <2>3 DEF Unlinked, Released
      <3>2. obj'[o] \in Servers /\ obj'[o].refs = 1
        BY <2>1, <3>1 DEF Servers
      <3> QED
        BY <2>3, <3>2, UnusedServer
    <2>4. CASE o # unit
      <3>1. obj'[o] = Unused
        BY <2>1, <2>2, <2>4 DEF Unlinked, Released
      <3> QED
        BY <2>4, <3>1, UnusedServer
    <2> QED
      BY <2>3, <2>4
  <1>6. ASSUME NEW o \in Table \ Dead
        PROVE  /\ obj'[o] \in Servers /\ obj'[o].refs = obj[o].refs /\ obj'[o].id = obj[o].id
               /\ obj'[o] # Unused
    <2>1. obj'[o] = [obj[o] EXCEPT !.failures = FailuresOf(obj[o])] /\ obj[o] \in Servers
          /\ ~(FailuresOf(obj[o]) > MaxFailure)
      BY <1>1, <1>2, <1>3 DEF Dead
    <2>2. FailuresOf(obj[o]) \in 0..MaxFailure
      BY <2>1, FailuresBounded
    <2>3. obj'[o] \in Servers /\ obj'[o].refs = obj[o].refs /\ obj'[o].id = obj[o].id
      BY <2>1, <2>2 DEF Servers
    <2>4. obj[o].refs # 0
      BY <1>3, HeldInUse DEF NetFindInv, RefsExact
    <2> QED
      BY <2>3, <2>4, UnusedServer
  <1>7. \A o \in Objects \ Table : obj'[o] = obj[o]
    BY <1>1, <1>3
  <1>8. obj' \in [Objects -> Servers]
    <2>1. \A o \in Objects : obj'[o] \in Servers
      BY <1>2, <1>5, <1>6, <1>7
    <2> QED
      BY <1>1, <2>1
  <1>9. RefsExact'
    <2>1. ASSUME NEW x \in Objects
          PROVE  /\ obj'[x].refs = (IF x \in Table' THEN 1 ELSE 0)
                                   + (IF x \in endpoints' THEN 2 ELSE 0)
                                   + (IF x = unit' THEN 1 ELSE 0)
                 /\ obj'[x].refs = 0 <=> obj'[x] = Unused
      <3>1. CASE x \in Dead
        <4>1. x \notin Table' /\ x \notin endpoints' /\ unit' = unit
          BY <1>1, <1>4, <3>1
        <4>2. obj'[x].refs = (IF x = unit THEN 1 ELSE 0) /\ (obj'[x].refs = 0 <=> obj'[x] = Unused)
          BY <1>5, <3>1
        <4> QED
          BY <4>1, <4>2
      <3>2. CASE x \in Table \ Dead
        <4>1. /\ x \in Table' /\ x \in Table /\ unit' = unit
              /\ x \in endpoints' <=> x \in endpoints
          BY <1>1, <1>4, <3>2
        <4>2. obj'[x].refs = obj[x].refs /\ obj'[x] # Unused
          BY <1>6, <3>2
        <4>3. /\ obj[x].refs = 1 + (IF x \in endpoints THEN 2 ELSE 0) + (IF x = unit THEN 1 ELSE 0)
              /\ obj[x].refs # 0
          BY <4>1 DEF NetFindInv, RefsExact
        <4> QED
          BY <4>1, <4>2, <4>3
      <3>3. CASE x \notin Table
        BY <1>1, <1>3, <1>4, <1>7, <3>3 DEF NetFindInv, RefsExact
      <3> QED
        BY <3>1, <3>2, <3>3
    <2> QED
      BY <2>1 DEF RefsExact
  <1>10. TablesAgree'
    <2>1. ASSUME NEW j \in Ids, byId'[j] # None PROVE obj'[byId'[j]].id = j
      <3>1. byId'[j] = byId[j] /\ byId[j] \in Table \ Dead /\ obj[byId[j]].id = j
        BY <1>1, <2>1, KnownServer DEF Known
      <3> QED
        BY <1>6, <3>1
    <2>2. ASSUME NEW a \in Addrs, bySockaddr'[a] # None
          PROVE  bySockaddr'[a] \in Table' /\ Addr[obj'[bySockaddr'[a]].id] = a
      <3>1. bySockaddr'[a] = bySockaddr[a] /\ bySockaddr[a] \in Table \ Dead
            /\ Addr[obj[bySockaddr[a]].id] = a
        BY <1>1, <2>2 DEF NetFindInv, TablesAgree
      <3> QED
        BY <1>4, <1>6, <3>1
    <2>3. endpoints' \subseteq Table'
      BY <1>1, <1>3, <1>4
    <2> QED
      BY <2>1, <2>2, <2>3 DEF TablesAgree, Known
  <1>11. /\ byId' \in [Ids -> Objects \cup {None}]
         /\ bySockaddr' \in [Addrs -> Objects \cup {None}]
    BY <1>1, <1>2
  <1>12. NetFindTypeOK' /\ Datagrams'
    BY <1>1, <1>8, <1>11 DEF NetFindInv, NetFindTypeOK, Datagrams, Servers, world
  <1> QED
    BY <1>9, <1>10, <1>12 DEF NetFindInv

\* A server that is pinged waits for one number more of those there are.
LEMMA InvokeKeeps ==
  ASSUME NetFindInv, NEW lists \in BOOLEAN, Invoke(lists)
  PROVE  NetFindInv'
  <1>1. /\ pc' = "poll" /\ infoList' = {}
        /\ obj' = [o \in Objects |->
             IF o \in Pinged THEN [obj[o] EXCEPT !.waiting = @ \cup {NextPing(o)}] ELSE obj[o]]
        /\ UNCHANGED <<table, unit, fresh, isServer, world, lost, status>>
    BY DEF Invoke
  <1>2. obj \in [Objects -> Servers]
    BY DEF NetFindInv, NetFindTypeOK, Servers
  <1>3. ASSUME NEW o \in Pinged PROVE NextPing(o) \in PingIds
    <2> DEFINE free == PingIds \ obj[o].waiting
               new == {p \in free : \A d \in net : ~Carried(d, o, p)}
    <2>1. obj[o].waiting \subseteq PingIds /\ obj[o].waiting # PingIds
      BY <1>2, TableObjects DEF Pinged, Servers
    <2>2. (IF new = {} THEN free ELSE new) # {}
      BY <2>1
    <2>3. (IF new = {} THEN free ELSE new) \subseteq PingIds
      OBVIOUS
    <2>4. NextPing(o) = CHOOSE p \in (IF new = {} THEN free ELSE new) : TRUE
      BY DEF NextPing
    <2> HIDE DEF new, free
    <2> QED
      BY <2>2, <2>3, <2>4
  <1>4. \A x \in Objects : /\ obj'[x].refs = obj[x].refs /\ obj'[x].id = obj[x].id
                           /\ obj'[x] \in Servers
                           /\ obj[x] = Unused => obj'[x] = Unused
    <2> TAKE x \in Objects
    <2>1. CASE x \in Pinged
      <3>1. x \in Table /\ obj[x] # Unused
        BY <2>1, HeldInUse DEF Pinged
      <3>2. obj'[x] = [obj[x] EXCEPT !.waiting = @ \cup {NextPing(x)}] /\ NextPing(x) \in PingIds
        BY <1>1, <1>3, <2>1
      <3> QED
        BY <1>2, <3>1, <3>2 DEF Servers
    <2>2. CASE x \notin Pinged
      BY <1>1, <1>2, <2>2
    <2> QED
      BY <2>1, <2>2
  <1>5. obj' \in [Objects -> Servers]
    <2>1. \A x \in Objects : obj'[x] \in Servers
      BY <1>4
    <2> QED
      BY <1>1, <2>1
  <1>6. UNCHANGED <<table, unit>>
    BY <1>1
  <1>7. RefsExact' /\ TablesAgree'
    <2>1. SameCounts
      BY <1>4, <1>5, <1>6 DEF SameCounts
    <2> QED
      BY <2>1, CountsKept
  <1>8. Datagrams'
    <2>1. net' \subseteq net \cup PingRequests \cup InfoRequests \cup ListRequests(lists)
      BY SentSubset DEF Invoke
    <2>2. \A d \in PingRequests \cup InfoRequests \cup ListRequests(lists) :
            d.kind \in {"ping", "info_rq", "list_rq"}
      BY DEF PingRequests, InfoRequests, ListRequests, Ping, InfoRq, ListRq
    <2> QED
      BY <2>1, <2>2 DEF NetFindInv, Datagrams
  <1>9. NetFindTypeOK'
    BY <1>1, <1>5 DEF NetFindInv, NetFindTypeOK, Servers, table, world
  <1> QED
    BY <1>7, <1>8, <1>9 DEF NetFindInv

\* The client thread, whatever it handles.
LEMMA ClientKeeps ==
  ASSUME NetFindInv, ClientThread
  PROVE  NetFindInv'
  <1>1. ASSUME NEW d \in net, ClientAnswers(d) PROVE NetFindInv'
    BY <1>1 DEF ClientAnswers, NetFindInv, NetFindTypeOK, Datagrams, RefsExact, TablesAgree, Table,
                Known, table, threads, world
  <1>2. ASSUME NEW d \in net, NEW o \in Objects, ClientDiscovers(d, o) PROVE NetFindInv'
    <2>1. /\ d.kind \in {"ask", "pong"} /\ Discover(d.from, o) /\ infoList' = infoList \cup {o}
          /\ net' = net \ {d}
          /\ UNCHANGED <<threads, world, lost, status>>
      BY <1>2 DEF ClientDiscovers
    <2>2. d.from \in Ids /\ UNCHANGED endpoints
      BY <2>1 DEF NetFindInv, Datagrams, Discover
    <2>3. /\ obj' \in [Objects -> Servers] /\ byId' \in [Ids -> Objects \cup {None}]
          /\ bySockaddr' \in [Addrs -> Objects \cup {None}]
          /\ RefsExact' /\ TablesAgree'
      BY <2>1, <2>2, DiscoverKeeps DEF threads
    <2>4. NetFindTypeOK' /\ Datagrams'
      BY <2>1, <2>2, <2>3 DEF NetFindInv, NetFindTypeOK, Datagrams, Servers, threads, world
    <2> QED
      BY <2>3, <2>4 DEF NetFindInv
  <1>3. CASE InvokeFreed
    BY <1>3 DEF InvokeFreed, NetFindInv, NetFindTypeOK, Datagrams, RefsExact, TablesAgree, Table,
                Known, table, threads, world
  <1>4. ASSUME NEW a \in Addrs, Scan(a) PROVE NetFindInv'
    <2>1. net' \subseteq net \cup {Anonymous(a)} /\ Anonymous(a).kind = "ping"
      BY <1>4, SentSubset DEF Scan, Anonymous, Ping
    <2>2. Datagrams'
      BY <2>1 DEF NetFindInv, Datagrams
    <2>3. NetFindTypeOK' /\ RefsExact' /\ TablesAgree'
      BY <1>4 DEF Scan, NetFindInv, NetFindTypeOK, RefsExact, TablesAgree, Table, Known, table,
                  threads, world
    <2> QED
      BY <2>2, <2>3 DEF NetFindInv
  <1> QED
    BY <1>1, <1>2, <1>3, <1>4, PongKeeps, InfoKeeps, ListKeeps, ReviewKeeps, InvokeKeeps
       DEF ClientThread, ClientHandles, ClientLoop, Requests

\* Every step, and none.
LEMMA NetFindKeeps == NetFindInv /\ [Next]_vars => NetFindInv'
  <1> SUFFICES ASSUME NetFindInv, [Next]_vars PROVE NetFindInv'
    OBVIOUS
  <1>1. CASE UNCHANGED vars
    BY <1>1 DEF vars, NetFindInv, NetFindTypeOK, Datagrams, RefsExact, TablesAgree, Table, Known,
                table, threads, world
  <1>2. CASE Time
    BY <1>2, TimeKeeps DEF Time
  <1> QED
    BY <1>1, <1>2, OthersKeep, ServerKeeps, ClientKeeps DEF Next

(***************************************************************************)
(* Theorems.                                                               *)
(***************************************************************************)

\* In every state of every run the objects, the tables and the datagrams agree.
THEOREM NetFindInvCorrect == Spec => []NetFindInv
  BY NetFindStart, NetFindKeeps, PTL DEF Spec

\* The state of discovery is what its declarations say; no count of failures of
\* a server that is kept passes MAX_FAILURE_COUNT.
THEOREM NetFindTypeCorrect == Spec => []NetFindTypeOK
  <1>1. NetFindInv => NetFindTypeOK
    BY DEF NetFindInv
  <1> QED
    BY <1>1, NetFindInvCorrect, PTL

\* add_ref and release (nf_remote_server.cpp) balance over both threads: an object
\* is deleted exactly when the table, its endpoint, the hub and the server thread
\* have all let go of it.
THEOREM RefsExactCorrect == Spec => []RefsExact
  <1>1. NetFindInv => RefsExact
    BY DEF NetFindInv
  <1> QED
    BY <1>1, NetFindInvCorrect, PTL

\* The three tables of net_find.cpp and the endpoints of a stream never lead to a
\* server that was dropped, to another one, or to another address.
THEOREM TablesAgreeCorrect == Spec => []TablesAgree
  <1>1. NetFindInv => TablesAgree
    BY DEF NetFindInv
  <1> QED
    BY <1>1, NetFindInvCorrect, PTL
================================================================================
