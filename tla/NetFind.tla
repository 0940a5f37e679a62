-------------------------------- MODULE NetFind --------------------------------
(***************************************************************************)
(* Discovery in one node of p2vera (src/p2vera/source/net_find.cpp,        *)
(* net_find_handlers.cpp, nf_remote_server.cpp, inet_find.cpp): the table  *)
(* of remote servers, the pings that keep them in it, the request for      *)
(* their streams, and the reference counts of their objects.  The client   *)
(* thread reviews the table, sends requests and handles answers; the       *)
(* server thread handles requests at the same time.  Datagrams are lost    *)
(* and reordered, programs come, go and come back under another id.        *)
(*                                                                         *)
(* An object of RemoteNfServer is an element of Objects, used again after  *)
(* it was deleted.  The two threads are atomic where the mutex of NetFind  *)
(* makes them so.                                                          *)
(***************************************************************************)
EXTENDS Naturals, FiniteSets, FiniteSetsExt

CONSTANTS Ids,         \* uniq_id of every program that ever runs
          Addrs, Addr, \* addresses, and the one a program listens at
          Objects,     \* memory for objects of RemoteNfServer
          None,
          MaxFailure,  \* MAX_FAILURE_COUNT
          PingIds,     \* bound: pings of one program that are not forgotten
          MaxNet       \* bound: datagrams on their way at once

ASSUME NetFindAssumption ==
  /\ Addr \in [Ids -> Addrs]
  /\ None \notin Ids \cup Objects
  /\ MaxFailure \in Nat /\ MaxNet \in Nat
  /\ IsFiniteSet(Objects) /\ IsFiniteSet(PingIds)

VARIABLES
  obj,       \* the objects, Unused where the memory is free
  byId,      \* remote_servers and m_str_servers: from uniq_id to object
  bySockaddr,\* m_sa_servers
  endpoints, \* objects in remote_endpoints of the stream, and targets of its hub
  infoList,  \* info_list
  pc,        \* the client thread: "poll" or "invoke"
  unit,      \* the RemoteSrvUnit the server thread holds in handle_request
  fresh,     \* the raw pointer the server thread holds in add_discovered_server
  isServer,  \* is_local_server
  net,       \* datagrams
  started, up, listed, \* programs started, running, and known to the list server
  lost,      \* history: pings that expired since the last review, with their objects
  status

table == <<byId, bySockaddr, endpoints>>
threads == <<pc, unit, fresh, isServer>>
world == <<started, up, listed>>
vars == <<obj, table, infoList, threads, net, world, lost, status>>

\* An object as its constructor leaves it, held n times.
Server(i, n) ==
  [id |-> i, refs |-> n, failures |-> 0, waiting |-> {}, late |-> {}, full |-> FALSE]
Unused == Server(None, 0)
Fresh(i) == Server(i, 1)
Known(i) == byId[i] # None
Table == {byId[i] : i \in Ids} \ {None}

Init ==
  /\ obj = [o \in Objects |-> Unused]
  /\ byId = [i \in Ids |-> None]
  /\ bySockaddr = [a \in Addrs |-> None]
  /\ endpoints = {} /\ infoList = {}
  /\ pc = "poll" /\ unit = None /\ fresh = None
  /\ isServer \in BOOLEAN
  /\ net = {}
  /\ started = {} /\ up = {} /\ listed = {}
  /\ lost = {}
  /\ status = "run"

Running == status = "run"

\* What does not fit on the network is lost, as any datagram may be.
Sent(way, messages) ==
  IF Cardinality(way \cup messages) <= MaxNet THEN way \cup messages ELSE way

\* A ping carries a number no other ping has: the id it was meant for, and which.
Ping(a, i, p) == [kind |-> "ping", to |-> a, ping |-> <<i, p>>]
Pong(i, ping) == [kind |-> "pong", from |-> i, ping |-> ping]
Ask(i) == [kind |-> "ask", from |-> i]
InfoRq(a) == [kind |-> "info_rq", to |-> a]
InfoRsp(i) == [kind |-> "info_rsp", from |-> i]
ListRq == [kind |-> "list_rq"]
ListRsp(s) == [kind |-> "list_rsp", ids |-> s]

(***************************************************************************)
(* The other programs: the same code, seen from here.                      *)
(***************************************************************************)

Start(i) ==
  /\ Running
  /\ i \notin started
  /\ \A j \in up : Addr[j] # Addr[i]
  /\ started' = started \cup {i} /\ up' = up \cup {i}
  /\ UNCHANGED <<obj, table, infoList, threads, net, listed, lost, status>>

Stop(i) ==
  /\ Running
  /\ i \in up
  /\ up' = up \ {i}
  /\ UNCHANGED <<obj, table, infoList, threads, net, started, listed, lost, status>>

\* A program pings this node, found by its broadcast or its list of addresses.
Pings(i) ==
  /\ Running
  /\ i \in up
  /\ net' = Sent(net, {Ask(i)})
  /\ net' # net
  /\ UNCHANGED <<obj, table, infoList, threads, world, lost, status>>

\* Whatever program now listens at the address answers.
Answer(d, i) ==
  /\ Running
  /\ d \in net /\ i \in up
  /\ \/ d.kind = "ping" /\ d.to = Addr[i] /\ net' = (net \ {d}) \cup {Pong(i, d.ping)}
     \/ d.kind = "info_rq" /\ d.to = Addr[i] /\ net' = (net \ {d}) \cup {InfoRsp(i)}
  /\ UNCHANGED <<obj, table, infoList, threads, world, lost, status>>

\* The list server of the host answers with its own table.
AnswerList(d) ==
  /\ Running
  /\ d \in net /\ d.kind = "list_rq"
  /\ ~isServer
  /\ net' = (net \ {d}) \cup {ListRsp(listed)}
  /\ UNCHANGED <<obj, table, infoList, threads, world, lost, status>>

\* It finds programs that run and forgets those that stopped.
ListServerFinds(i) ==
  /\ Running
  /\ ~isServer
  /\ i \in up \ listed
  /\ listed' = listed \cup {i}
  /\ UNCHANGED <<obj, table, infoList, threads, net, started, up, lost, status>>

ListServerForgets(i) ==
  /\ Running
  /\ i \in listed \ up
  /\ listed' = listed \ {i}
  /\ UNCHANGED <<obj, table, infoList, threads, net, started, up, lost, status>>

\* The list server ends and this node gets the server port.
BecomeServer ==
  /\ Running
  /\ ~isServer
  /\ isServer' = TRUE
  /\ listed' = {}
  /\ UNCHANGED <<obj, table, infoList, pc, unit, fresh, net, started, up, lost, status>>

Lose(d) ==
  /\ Running
  /\ d \in net
  /\ net' = net \ {d}
  /\ UNCHANGED <<obj, table, infoList, threads, world, lost, status>>

(***************************************************************************)
(* Objects and their reference counts.                                     *)
(***************************************************************************)

FreeObjects == {o \in Objects : obj[o] = Unused}

\* A unit more, and n units less: the last one deletes the object.
Referenced(ob, o) == [ob EXCEPT ![o].refs = @ + 1]
Released(r, n) == IF r.refs = n THEN Unused ELSE [r EXCEPT !.refs = @ - n]

\* A new server takes over the address of an older one.
Readdressed(i, o) == [bySockaddr EXCEPT ![Addr[i]] = o]

\* add_discovered_server: nothing for a known id.
Discover(i, o) ==
  /\ ~Known(i)
  /\ o \in FreeObjects
  /\ obj' = [obj EXCEPT ![o] = Fresh(i)]
  /\ byId' = [byId EXCEPT ![i] = o]
  /\ bySockaddr' = Readdressed(i, o)
  /\ UNCHANGED endpoints

(***************************************************************************)
(* The server thread: a request of another program.                        *)
(***************************************************************************)

ServerIdle == isServer /\ unit = None /\ fresh = None

\* get_by_uniq_id finds it: the thread holds a unit until it has answered.
HandleKnown(d) ==
  /\ Running
  /\ ServerIdle
  /\ d \in net /\ d.kind = "ask"
  /\ Known(d.from)
  /\ unit' = byId[d.from]
  /\ obj' = Referenced(obj, byId[d.from])
  /\ net' = net \ {d}
  /\ UNCHANGED <<table, infoList, pc, fresh, isServer, world, lost, status>>

Answered ==
  /\ Running
  /\ unit # None
  /\ obj' = [obj EXCEPT ![unit] = Released(@, 1)]
  /\ unit' = None
  /\ UNCHANGED <<table, infoList, pc, fresh, isServer, net, world, lost, status>>

HandleUnknown(d, o) ==
  /\ Running
  /\ ServerIdle
  /\ d \in net /\ d.kind = "ask"
  /\ Discover(d.from, o)
  /\ fresh' = o
  /\ net' = net \ {d}
  /\ UNCHANGED <<infoList, pc, unit, isServer, world, lost, status>>

\* After the unlock the thread still uses the pointer: requires_info_request.
NeedsInfo(o) == ~obj[o].full

PushInfo ==
  /\ Running
  /\ fresh # None
  /\ obj[fresh] # Unused
  /\ infoList' = IF NeedsInfo(fresh) THEN infoList \cup {fresh} ELSE infoList
  /\ fresh' = None
  /\ UNCHANGED <<obj, table, pc, unit, isServer, net, world, lost, status>>

PushFreed ==
  /\ Running
  /\ fresh # None
  /\ obj[fresh] = Unused
  /\ status' = "freed"
  /\ UNCHANGED <<obj, table, infoList, threads, net, world, lost>>

(***************************************************************************)
(* The client thread: answers.                                             *)
(***************************************************************************)

\* A request or an answer of an unknown program, handled without a pause.
ClientDiscovers(d, o) ==
  /\ Running
  /\ pc = "poll"
  /\ d \in net /\ d.kind \in {"ask", "pong"}
  /\ Discover(d.from, o)
  /\ infoList' = infoList \cup {o}
  /\ net' = net \ {d}
  /\ UNCHANGED <<threads, world, lost, status>>

ClientAnswers(d) ==
  /\ Running
  /\ pc = "poll"
  /\ d \in net /\ d.kind = "ask"
  /\ Known(d.from)
  /\ net' = net \ {d}
  /\ UNCHANGED <<obj, table, infoList, threads, world, lost, status>>

\* add_ping_response: a ping this object does not wait for changes nothing.
Awaited(r, ping) == ping[1] = r.id /\ ping[2] \in r.waiting
Ponged(r, ping) ==
  IF Awaited(r, ping)
    THEN [r EXCEPT !.waiting = @ \ {ping[2]}, !.late = @ \ {ping[2]}, !.failures = 0]
    ELSE r

HandlePong(d) ==
  /\ Running
  /\ pc = "poll"
  /\ d \in net /\ d.kind = "pong"
  /\ Known(d.from)
  /\ obj' = [obj EXCEPT ![byId[d.from]] = Ponged(@, d.ping)]
  /\ net' = net \ {d}
  /\ UNCHANGED <<table, infoList, threads, world, lost, status>>

\* update_info: programs tell name, caption and cluster at once.
Informed(r) == [r EXCEPT !.full = TRUE]

\* register_remote_endpoint: one endpoint, with a unit there and in the hub.
WithEndpoint(r, o) == [r EXCEPT !.refs = IF o \in endpoints THEN @ ELSE @ + 2]

\* What a known server tells of itself and of its stream.
HandleInfo(d) ==
  /\ Running
  /\ pc = "poll"
  /\ d \in net /\ d.kind = "info_rsp"
  /\ net' = net \ {d}
  /\ IF Known(d.from)
       THEN LET o == byId[d.from] IN
              /\ endpoints' = endpoints \cup {o}
              /\ obj' = [obj EXCEPT ![o] = WithEndpoint(Informed(@), o)]
       ELSE UNCHANGED <<obj, endpoints>>
  /\ UNCHANGED <<byId, bySockaddr, infoList, threads, world, lost, status>>

\* Every listed server that is unknown is discovered.
HandleList(d, place) ==
  /\ Running
  /\ pc = "poll"
  /\ d \in net /\ d.kind = "list_rsp"
  /\ LET new == {i \in d.ids : ~Known(i)} IN
       /\ place \in [new -> FreeObjects]
       /\ \A i, j \in new : place[i] = place[j] => i = j
       /\ obj' = [o \in Objects |->
            IF \E i \in new : place[i] = o THEN Fresh(CHOOSE i \in new : place[i] = o) ELSE obj[o]]
       /\ byId' = [i \in Ids |-> IF i \in new THEN place[i] ELSE byId[i]]
       /\ \E last \in [Addrs -> Ids \cup {None}] :
            /\ \A a \in Addrs :
                 LET here == {i \in new : Addr[i] = a} IN
                   last[a] \in IF here = {} THEN {None} ELSE here
            /\ bySockaddr' = [a \in Addrs |->
                 IF last[a] = None THEN bySockaddr[a] ELSE place[last[a]]]
       /\ infoList' = infoList \cup {place[i] : i \in new}
  /\ net' = net \ {d}
  /\ UNCHANGED <<endpoints, threads, world, lost, status>>

(***************************************************************************)
(* The client thread: review and requests.                                 *)
(***************************************************************************)

\* Time passes: a ping is older than MAX_PING_TIMEOUT.
Expire(o, p) ==
  /\ Running
  /\ p \in obj[o].waiting \ obj[o].late
  /\ obj' = [obj EXCEPT ![o].late = @ \cup {p}]
  /\ lost' = lost \cup {<<o, p>>}
  /\ UNCHANGED <<table, infoList, threads, net, world, status>>

\* Mutant of FailuresOf: the failures of earlier reviews are forgotten.
FailuresOfReview(r) == Cardinality(r.late)

\* validate_alive: every expired ping counts, in every review, until it is answered.
FailuresOf(r) == r.failures + Cardinality(r.late)
\* Mutant of Dead: one failure too many.
DeadLater == {o \in Table : FailuresOf(obj[o]) > MaxFailure + 1}

Dead == {o \in Table : FailuresOf(obj[o]) > MaxFailure}

\* Mutant of Units: the endpoint is erased and its unit kept.
UnitsOfTable(o) == 1

\* unlink_server, unit by unit: endpoint and hub, then the table.
Units(o) == IF o \in endpoints THEN 3 ELSE 1
Unlinked(o) == Released(obj[o], Units(o))

\* Mutant of AddressAfter: the address is kept.
AddressKept(a) == bySockaddr[a]

\* Only an entry that still names the dead server is erased.
AddressAfter(a) == IF bySockaddr[a] \in Dead THEN None ELSE bySockaddr[a]

EndpointsAfter == endpoints \ Dead

Review ==
  /\ Running
  /\ pc = "poll"
  /\ pc' = "invoke"
  /\ obj' = [o \in Objects |->
       CASE o \in Dead -> Unlinked(o)
         [] o \in Table \ Dead -> [obj[o] EXCEPT !.failures = FailuresOf(obj[o])]
         [] OTHER -> obj[o]]
  /\ byId' = [i \in Ids |-> IF byId[i] \in Dead THEN None ELSE byId[i]]
  /\ bySockaddr' = [a \in Addrs |-> AddressAfter(a)]
  /\ endpoints' = EndpointsAfter
  /\ lost' = {}
  /\ UNCHANGED <<infoList, unit, fresh, isServer, net, world, status>>

\* Numbers are counted without end; the model uses one again that the object
\* does not wait for, and datagrams that still carry it are lost.
Pinged == {o \in Table : obj[o].waiting # PingIds}
Carried(d, o, p) == d.kind \in {"ping", "pong"} /\ d.ping = <<obj[o].id, p>>
NextPing(o) ==
  LET free == PingIds \ obj[o].waiting
      new == {p \in free : \A d \in net : ~Carried(d, o, p)}
  IN  CHOOSE p \in (IF new = {} THEN free ELSE new) : TRUE

PingRequests == {Ping(Addr[obj[o].id], obj[o].id, NextPing(o)) : o \in Pinged}
InfoRequests == {InfoRq(Addr[obj[o].id]) : o \in infoList}

\* The list server of this host listens at the loopback address.
ListRequests(lists) == IF lists THEN {ListRq} ELSE {}

\* invoke_requests: pings, the requests for information, and perhaps a list.
Invoke(lists) ==
  /\ Running
  /\ pc = "invoke"
  /\ \A o \in infoList : obj[o] # Unused
  /\ lists => ~isServer
  /\ obj' = [o \in Objects |->
       IF o \in Pinged THEN [obj[o] EXCEPT !.waiting = @ \cup {NextPing(o)}] ELSE obj[o]]
  /\ net' = Sent({d \in net : \A o \in Pinged : ~Carried(d, o, NextPing(o))},
                 PingRequests \cup InfoRequests \cup ListRequests(lists))
  /\ infoList' = {}
  /\ pc' = "poll"
  /\ UNCHANGED <<table, unit, fresh, isServer, world, lost, status>>

InvokeFreed ==
  /\ Running
  /\ pc = "invoke"
  /\ \E o \in infoList : obj[o] = Unused
  /\ status' = "freed"
  /\ UNCHANGED <<obj, table, infoList, threads, net, world, lost>>

\* A place that only holds an address, or the broadcast one, is pinged as well:
\* it has no id, its pings are not kept, and no answer is credited to it.
Anonymous(a) == Ping(a, None, None)

Scan(a) ==
  /\ Running
  /\ pc = "invoke"
  /\ net' = Sent(net, {Anonymous(a)})
  /\ net' # net
  /\ UNCHANGED <<obj, table, infoList, threads, world, lost, status>>

Others ==
  \/ \E i \in Ids : Start(i) \/ Stop(i) \/ Pings(i) \/ ListServerFinds(i) \/ ListServerForgets(i)
  \/ \E d \in net : AnswerList(d) \/ Lose(d) \/ \E i \in Ids : Answer(d, i)
  \/ BecomeServer

ServerThread ==
  \/ \E d \in net : HandleKnown(d) \/ \E o \in Objects : HandleUnknown(d, o)
  \/ Answered
  \/ PushInfo
  \/ PushFreed

Places(d) == UNION {[s -> Objects] : s \in SUBSET d.ids}
ClientHandles(d) ==
  \/ ClientAnswers(d) \/ HandlePong(d) \/ HandleInfo(d)
  \/ \E o \in Objects : ClientDiscovers(d, o)
  \/ d.kind = "list_rsp" /\ \E place \in Places(d) : HandleList(d, place)

Requests == \E lists \in BOOLEAN : Invoke(lists)

ClientLoop ==
  \/ Review
  \/ Requests
  \/ InvokeFreed

ClientThread ==
  \/ \E d \in net : ClientHandles(d)
  \/ ClientLoop
  \/ \E a \in Addrs : Scan(a)

Time == \E o \in Objects, p \in PingIds : Expire(o, p)

Next == Others \/ ServerThread \/ ClientThread \/ Time

\* The client thread loops for ever, time passes, and the list server does as
\* this node does.  Nothing is asked of the other programs, of the network or
\* of the server thread.
Fairness ==
  /\ WF_vars(ClientLoop)
  /\ \A i \in Ids :
       /\ WF_vars(Known(i) /\ \E p \in PingIds : Expire(byId[i], p))
       /\ WF_vars(ListServerForgets(i))

Spec == Init /\ [][Next]_vars /\ Fairness

(***************************************************************************)
(* Properties.                                                             *)
(***************************************************************************)

NetFindTypeOK ==
  /\ obj \in [Objects -> [id : Ids \cup {None}, refs : Nat, failures : 0..MaxFailure,
                         waiting : SUBSET PingIds, late : SUBSET PingIds, full : BOOLEAN]]
  /\ byId \in [Ids -> Objects \cup {None}]
  /\ bySockaddr \in [Addrs -> Objects \cup {None}]
  /\ endpoints \subseteq Objects /\ infoList \subseteq Objects /\ lost \subseteq Objects \X PingIds
  /\ pc \in {"poll", "invoke"} /\ isServer \in BOOLEAN
  /\ unit \in Objects \cup {None} /\ fresh \in Objects \cup {None}
  /\ up \subseteq started /\ started \subseteq Ids /\ listed \subseteq started
  /\ status \in {"run", "freed"}

\* The count of an object is what holds it: the table, its endpoint with the
\* copy in the hub, and the unit of the server thread.  It is deleted when none
\* does and not before, whoever lets go last.
RefsExact ==
  \A o \in Objects :
    /\ obj[o].refs = (IF o \in Table THEN 1 ELSE 0)
                     + (IF o \in endpoints THEN 2 ELSE 0)
                     + (IF o = unit THEN 1 ELSE 0)
    /\ obj[o].refs = 0 <=> obj[o] = Unused

\* Every way to find a server leads to a known one: under its own id, at its
\* own address, and streams go to no server that was dropped.
TablesAgree ==
  /\ \A i \in Ids : Known(i) => obj[byId[i]].id = i
  /\ \A a \in Addrs : bySockaddr[a] # None =>
       /\ bySockaddr[a] \in Table
       /\ Addr[obj[bySockaddr[a]].id] = a
  /\ endpoints \subseteq Table

\* A program that ended is forgotten for good, whatever was lost and however
\* late its last datagrams and the lists that name it arrive.
ForgottenForGood ==
  \A i \in Ids : [](i \in started \ up => <>[](~Known(i) \/ ~Running))

\* nf_remote_server.cpp:153: a review checks the number of requests lost per unit
\* of time.  A server whose count an answer has reset, and that lost no more pings
\* than allowed since the last review, is not dropped by this one.
LossesPerReview ==
  [][\A i \in Ids :
       /\ Known(i)
       /\ obj[byId[i]].failures = 0
       /\ Cardinality({x \in lost : x[1] = byId[i]}) <= MaxFailure
       => byId'[i] = byId[i]]_vars
===============================================================================
