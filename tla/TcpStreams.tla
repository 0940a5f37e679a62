------------------------------- MODULE TcpStreams -------------------------------
(***************************************************************************)
(* Streams of type flow between nodes (tcpstream.cpp with the parts of     *)
(* p2hub.cpp and net_find.cpp that call it).  A node connects to every     *)
(* server it discovers; a connection carries the streams both ends have,   *)
(* each under a number its connecting end chose.  Three threads of a node  *)
(* meet at three kinds of mutex: the client thread of NetFind holds nf and *)
(* takes tcm and a hub, the receiving thread holds tcm and takes nf and a  *)
(* hub, a thread of the program holds a hub while it sends.                *)
(*                                                                         *)
(* A connection is named by the node that connects, the other node, and    *)
(* the object of RemoteNfServer the former connected for.  An end is the   *)
(* connection with "out" for the connecting side, "in" for the other.      *)
(***************************************************************************)
EXTENDS Naturals, Sequences, FiniteSets

CONSTANTS Nodes, Streams,
          MaxObject, \* bound: objects a node makes for another
          WireCap,   \* frames a socket holds
          MaxSent    \* bound: messages written by all programs

ASSUME StreamsAssumption == MaxObject \in Nat /\ WireCap \in Nat \ {0} /\ MaxSent \in Nat

VARIABLES
  present, object, asked, \* NetFind: nodes in the table, the last object made for each,
                        \* objects whose information arrived
  items,                \* rsu_fd_items of both ends: connections made, connections accepted
  peer,                 \* the rsu of an end: an object, 0 while it is not valid
  flows, last_flow_id,  \* hub_to_flow of an end with its inverse flow_to_hub; the counter
  opened, closed,       \* ends that send, ends whose other side is gone
  wire,                 \* frames on their way to an end
  tcsl,                 \* ends in the list of a hub
  client, reader, writer, \* the three threads of a node
  up,
  sent,
  status

find == <<present, object, asked>>
conns == <<items, peer, flows, last_flow_id, opened, closed>>
threads == <<client, reader, writer>>
streamVars == <<find, conns, wire, tcsl, threads, up, sent, status>>

Conns == {c \in Nodes \X Nodes \X (1 .. MaxObject) : c[1] # c[2]}
Ends == Conns \X {"out", "in"}
Home(e) == IF e[2] = "out" THEN e[1][1] ELSE e[1][2]
Remote(e) == IF e[2] = "out" THEN e[1][2] ELSE e[1][1]
Far(e) == <<e[1], IF e[2] = "out" THEN "in" ELSE "out">>

Idle == [pc |-> "idle"]
NoFlows == [s \in Streams |-> 0]
FlowRq(s, id) == [kind |-> "flow_rq", stream |-> s, id |-> id]
Data(s, id) == [kind |-> "data", stream |-> s, id |-> id]
\* 0 is no number of a flow.
Frames == [kind : {"flow_rq", "data"}, stream : Streams, id : Nat \ {0}]

StreamsInit ==
  /\ present = [n \in Nodes |-> {}]
  /\ object = [n \in Nodes |-> [m \in Nodes |-> 0]]
  /\ asked = {}
  /\ items = {}
  /\ peer = [e \in Ends |-> 0]
  /\ flows = [e \in Ends |-> NoFlows]
  /\ last_flow_id = [c \in Conns |-> 0]
  /\ opened = {} /\ closed = {}
  /\ wire = [e \in Ends |-> <<>>]
  /\ tcsl = [n \in Nodes |-> [s \in Streams |-> {}]]
  /\ client = [n \in Nodes |-> Idle]
  /\ reader = [n \in Nodes |-> Idle]
  /\ writer = [n \in Nodes |-> Idle]
  /\ up = Nodes
  /\ sent = 0
  /\ status = "run"

Running(n) == status = "run" /\ n \in up
Halt(s) == status' = s /\ UNCHANGED <<find, conns, wire, tcsl, threads, up, sent>>

\* Who holds which mutex.
NfFree(n) == client[n].pc \in {"idle", "next"}
TcmFree(n) == reader[n].pc = "idle"
HubFree(n, s) == ~(writer[n].pc = "send" /\ writer[n].stream = s)

HasRoom(e) == Len(wire[Far(e)]) < WireCap
Put(e, f) == wire' = [wire EXCEPT ![Far(e)] = IF e \in closed THEN @ ELSE Append(@, f)]

(***************************************************************************)
(* Discovery, as NetFind models it.                                        *)
(***************************************************************************)

Discover(n, m) ==
  /\ Running(n) /\ m \in up \ {n}
  /\ NfFree(n)
  /\ m \notin present[n] /\ object[n][m] < MaxObject
  /\ present' = [present EXCEPT ![n] = @ \cup {m}]
  /\ object' = [object EXCEPT ![n][m] = @ + 1]
  /\ UNCHANGED <<asked, conns, wire, tcsl, threads, up, sent, status>>

\* unlink_server takes the server out of streams of type dgram only.
Forget(n, m) ==
  /\ Running(n)
  /\ client[n].pc = "idle"
  /\ m \in present[n]
  /\ present' = [present EXCEPT ![n] = @ \ {m}]
  /\ UNCHANGED <<object, asked, conns, wire, tcsl, threads, up, sent, status>>

(***************************************************************************)
(* The client thread: register_remote_endpoint for a stream of type flow.  *)
(***************************************************************************)

\* The answer to the only request for information of an object: the streams it
\* had registered then.
HandleInfo(n, m, ss) ==
  LET c == <<n, m, object[n][m]>> IN
    /\ Running(n)
    /\ client[n].pc = "idle"
    /\ m \in present[n]
    /\ c \notin asked
    /\ asked' = asked \cup {c}
    /\ client' = [client EXCEPT ![n] = [pc |-> "next", conn |-> c, todo |-> ss]]
    /\ UNCHANGED <<present, object, conns, wire, tcsl, reader, writer, up, sent, status>>

RegisterEndpoint(n, s) ==
  /\ Running(n)
  /\ client[n].pc = "next" /\ s \in client[n].todo
  /\ client' = [client EXCEPT ![n] =
       [pc |-> "connect", conn |-> @.conn, stream |-> s, todo |-> @.todo \ {s}]]
  /\ UNCHANGED <<find, conns, wire, tcsl, reader, writer, up, sent, status>>

InfoHandled(n) ==
  /\ Running(n)
  /\ client[n].pc = "next" /\ client[n].todo = {}
  /\ client' = [client EXCEPT ![n] = Idle]
  /\ UNCHANGED <<find, conns, wire, tcsl, reader, writer, up, sent, status>>

OutEnd(n) == <<client[n].conn, "out">>

\* add_server: a server is connected once per object.
IsConnected(c) == <<c, "out">> \in items

AddServer(n) ==
  /\ Running(n)
  /\ client[n].pc = "connect" /\ TcmFree(n)
  /\ client' = [client EXCEPT ![n].pc = "find"]
  /\ IF IsConnected(client[n].conn)
       THEN UNCHANGED <<items, peer, opened>>
       ELSE /\ client[n].conn[2] \in up
            /\ items' = items \cup {OutEnd(n)}
            /\ peer' = [peer EXCEPT ![OutEnd(n)] = client[n].conn[3]]
            /\ opened' = opened \cup {OutEnd(n)}
  /\ UNCHANGED <<find, flows, last_flow_id, closed, wire, tcsl, reader, writer, up, sent, status>>

\* connect fails: the constructor returns before it sets what add_hub reads.
AddServerFails(n) ==
  /\ Running(n)
  /\ client[n].pc = "connect" /\ TcmFree(n)
  /\ ~IsConnected(client[n].conn)
  /\ client[n].conn[2] \notin up
  /\ Halt("uninitialised")

\* find_stream returns the connection of the server.
FindStream(n) ==
  /\ Running(n)
  /\ client[n].pc = "find" /\ TcmFree(n)
  /\ OutEnd(n) \in items
  /\ client' = [client EXCEPT ![n].pc = "add"]
  /\ UNCHANGED <<find, conns, wire, tcsl, reader, writer, up, sent, status>>

\* The receiving thread dropped it in between: what is returned was never set.
FindStreamFails(n) ==
  /\ Running(n)
  /\ client[n].pc = "find" /\ TcmFree(n)
  /\ OutEnd(n) \notin items
  /\ Halt("uninitialised")

\* Mutant of NextFlow: the number before it is raised.
LastFlow(c) == last_flow_id[c]

NextFlow(c) == last_flow_id[c] + 1

\* add_hub: a new number for the stream.
AddHub(n) ==
  LET added == client[n].stream
      id == NextFlow(client[n].conn)
  IN  /\ Running(n)
      /\ client[n].pc = "add" /\ HubFree(n, added)
      /\ last_flow_id' = [last_flow_id EXCEPT ![client[n].conn] = id]
      /\ flows' = [flows EXCEPT ![OutEnd(n)][added] = id]
      /\ tcsl' = [tcsl EXCEPT ![n][added] = @ \cup {OutEnd(n)}]
      /\ client' = [client EXCEPT ![n].pc = "request"]
      /\ UNCHANGED <<find, items, peer, opened, closed, wire, reader, writer, up, sent, status>>

\* It takes no mutex that the receiving thread has, which is in the same maps, or
\* a thread that sends on another stream of the connection.
AddHubRace(n) ==
  /\ Running(n)
  /\ client[n].pc = "add"
  /\ \/ reader[n].pc = "read" /\ reader[n].end = OutEnd(n) /\ wire[OutEnd(n)] # <<>>
     \/ writer[n].pc = "send" /\ OutEnd(n) \in writer[n].todo
  /\ Halt("race")

\* The request for the flow is sent with nf held; the socket blocks.
RequestFlow(n) ==
  /\ Running(n)
  /\ client[n].pc = "request"
  /\ HasRoom(OutEnd(n))
  /\ Put(OutEnd(n), FlowRq(client[n].stream, flows[OutEnd(n)][client[n].stream]))
  /\ opened' = opened \ ({OutEnd(n)} \cap closed)
  /\ client' = [client EXCEPT ![n].pc = "next"]
  /\ UNCHANGED <<find, items, peer, flows, last_flow_id, closed, tcsl, reader, writer, up, sent, status>>

(***************************************************************************)
(* The accepting thread and the receiving thread.                          *)
(***************************************************************************)

Accept(c) ==
  /\ Running(c[2])
  /\ TcmFree(c[2])
  /\ <<c, "out">> \in items /\ <<c, "in">> \notin items
  /\ items' = items \cup {<<c, "in">>}
  /\ opened' = opened \cup {<<c, "in">>}
  /\ UNCHANGED <<find, peer, flows, last_flow_id, closed, wire, tcsl, threads, up, sent, status>>

\* poll reports an end: receive_message reads it with tcm held.
Poll(e) ==
  LET n == Home(e) IN
    /\ Running(n)
    /\ reader[n].pc = "idle"
    /\ e \in items
    /\ wire[e] # <<>> \/ e \in closed
    /\ reader' = [reader EXCEPT ![n] = [pc |-> "read", end |-> e]]
    /\ UNCHANGED <<find, conns, wire, tcsl, client, writer, up, sent, status>>

Reading(n, kind) ==
  /\ Running(n)
  /\ reader[n].pc = "read"
  /\ wire[reader[n].end] # <<>>
  /\ Head(wire[reader[n].end]).kind = kind

Consumed(e) == wire' = [wire EXCEPT ![e] = Tail(@)]

\* The server that asks must be known, and be the one the end already has.
Acknowledged(e) ==
  /\ Remote(e) \in present[Home(e)]
  /\ peer[e] \in {0, object[Home(e)][Remote(e)]}

\* Mutant of NewFlow: a number of its own.
NewFlowOwnNumber(e, f) == IF flows[e] = NoFlows THEN 1 ELSE 2

\* The number is the one the connecting end chose.
NewFlow(e, f) == f.id

HandleFlowRq(n) ==
  /\ Reading(n, "flow_rq")
  /\ NfFree(n)
  /\ LET e == reader[n].end
         f == Head(wire[e])
     IN  /\ Consumed(e)
         /\ peer' = IF Acknowledged(e) THEN [peer EXCEPT ![e] = object[n][Remote(e)]] ELSE peer
         /\ IF Acknowledged(e) /\ flows[e][f.stream] = 0
              THEN /\ HubFree(n, f.stream)
                   /\ flows' = [flows EXCEPT ![e][f.stream] = NewFlow(e, f)]
                   /\ tcsl' = [tcsl EXCEPT ![n][f.stream] = @ \cup {e}]
              ELSE UNCHANGED <<flows, tcsl>>
  /\ UNCHANGED <<find, items, last_flow_id, opened, closed, threads, up, sent, status>>

\* It changes the maps while a thread that sends looks into them.
HandleFlowRqRace(n) ==
  /\ Reading(n, "flow_rq")
  /\ Acknowledged(reader[n].end) /\ flows[reader[n].end][Head(wire[reader[n].end]).stream] = 0
  /\ writer[n].pc = "send" /\ reader[n].end \in writer[n].todo
  /\ Halt("race")

StreamOf(e, id) == {s \in Streams : flows[e][s] = id}

\* Data of an unknown flow is dropped; other data needs the mutex of the hub.
HandleData(n) ==
  /\ Reading(n, "data")
  /\ LET e == reader[n].end IN
       /\ \A s \in StreamOf(e, Head(wire[e]).id) : HubFree(n, s)
       /\ Consumed(e)
  /\ UNCHANGED <<find, conns, tcsl, threads, up, sent, status>>

\* Nothing is left: a socket that does not block ends the loop, the other waits.
ReadDone(n) ==
  /\ Running(n)
  /\ reader[n].pc = "read"
  /\ LET e == reader[n].end IN e[2] = "in" /\ wire[e] = <<>> /\ e \notin closed
  /\ reader' = [reader EXCEPT ![n] = Idle]
  /\ UNCHANGED <<find, conns, wire, tcsl, client, writer, up, sent, status>>

\* Mutant of Unlinked: only ends that connected are taken out of a hub.
UnlinkedOut(e, x) == x[2] = "out" /\ Remote(x) = Remote(e) /\ peer[x] = peer[e]

\* remove_message_target compares servers, not connections.
Unlinked(e, x) == Remote(x) = Remote(e) /\ peer[x] = peer[e]

\* The other side is gone: unlink_stream_hubs, and the end is polled no more.
ReadClosed(n) ==
  /\ Running(n)
  /\ reader[n].pc = "read"
  /\ LET e == reader[n].end
         known == {s \in Streams : flows[e][s] # 0}
     IN  /\ wire[e] = <<>> /\ e \in closed
         /\ \A s \in known : HubFree(n, s)
         /\ tcsl' = [tcsl EXCEPT ![n] = [s \in Streams |->
              IF s \in known THEN {x \in @[s] : ~Unlinked(e, x)} ELSE @[s]]]
         /\ flows' = [flows EXCEPT ![e] = NoFlows]
         /\ items' = items \ {e, Far(e)} \* the far node has no items any more
  /\ reader' = [reader EXCEPT ![n] = Idle]
  /\ UNCHANGED <<find, peer, last_flow_id, opened, closed, wire, client, writer, up, sent, status>>

(***************************************************************************)
(* A thread of the program: send_message of the hub, with its mutex held.  *)
(***************************************************************************)

SendMessage(n, s) ==
  /\ Running(n)
  /\ writer[n].pc = "idle"
  /\ sent < MaxSent
  /\ writer' = [writer EXCEPT ![n] = [pc |-> "send", stream |-> s, todo |-> tcsl[n][s]]]
  /\ sent' = sent + 1
  /\ UNCHANGED <<find, conns, wire, tcsl, client, reader, up, status>>

SendTo(n, e) ==
  LET id == flows[e][writer[n].stream] IN
    /\ Running(n)
    /\ writer[n].pc = "send" /\ e \in writer[n].todo
    /\ IF e \in opened /\ id # 0
         THEN HasRoom(e) /\ Put(e, Data(writer[n].stream, id))
         ELSE UNCHANGED wire
    /\ opened' = opened \ ({e} \cap closed)
    /\ writer' = [writer EXCEPT ![n].todo = @ \ {e}]
    /\ UNCHANGED <<find, items, peer, flows, last_flow_id, closed, tcsl, client, reader, up, sent, status>>

\* EAGAIN: the end sends no more, and nobody connects again.
SendOverflows(n, e) ==
  /\ Running(n)
  /\ writer[n].pc = "send" /\ e \in writer[n].todo
  /\ e \in opened /\ e[2] = "in" /\ flows[e][writer[n].stream] # 0
  /\ ~HasRoom(e)
  /\ opened' = opened \ {e}
  /\ writer' = [writer EXCEPT ![n].todo = @ \ {e}]
  /\ UNCHANGED <<find, items, peer, flows, last_flow_id, closed, wire, tcsl, client, reader, up, sent, status>>

\* Mutant of SendDone: the mutex is not released where an end is closed.
SendDoneIfOpened(n) ==
  /\ Running(n)
  /\ writer[n].pc = "send" /\ writer[n].todo = {}
  /\ tcsl[n][writer[n].stream] \subseteq opened
  /\ writer' = [writer EXCEPT ![n] = Idle]
  /\ UNCHANGED <<find, conns, wire, tcsl, client, reader, up, sent, status>>

SendDone(n) ==
  /\ Running(n)
  /\ writer[n].pc = "send" /\ writer[n].todo = {}
  /\ writer' = [writer EXCEPT ![n] = Idle]
  /\ UNCHANGED <<find, conns, wire, tcsl, client, reader, up, sent, status>>

\* A program ends: its sockets are closed, what it sent may still be read.
Exit(n) ==
  /\ Running(n)
  /\ up' = up \ {n}
  /\ closed' = closed \cup {e \in Ends : Remote(e) = n /\ <<e[1], "out">> \in items}
  /\ wire' = [e \in Ends |-> IF Home(e) = n THEN <<>> ELSE wire[e]]
  /\ UNCHANGED <<find, items, peer, flows, last_flow_id, opened, tcsl, threads, sent, status>>

ClientThread(n) ==
  \/ \E s \in Streams : RegisterEndpoint(n, s)
  \/ InfoHandled(n)
  \/ AddServer(n)
  \/ AddServerFails(n)
  \/ FindStream(n)
  \/ FindStreamFails(n)
  \/ AddHub(n)
  \/ AddHubRace(n)
  \/ RequestFlow(n)

ReaderThread(n) ==
  \/ \E e \in Ends : Home(e) = n /\ Poll(e)
  \/ HandleFlowRq(n)
  \/ HandleFlowRqRace(n)
  \/ HandleData(n)
  \/ ReadDone(n)
  \/ ReadClosed(n)

WriterThread(n) ==
  \/ \E e \in Ends : SendTo(n, e) \/ SendOverflows(n, e)
  \/ SendDone(n)

StreamsNext ==
  \/ \E n, m \in Nodes : Discover(n, m) \/ Forget(n, m)
  \/ \E n, m \in Nodes, ss \in SUBSET Streams : HandleInfo(n, m, ss)
  \/ \E c \in Conns : Accept(c)
  \/ \E n \in Nodes, s \in Streams : SendMessage(n, s)
  \/ \E n \in Nodes : ClientThread(n) \/ ReaderThread(n) \/ WriterThread(n) \/ Exit(n)

StreamsSpec == StreamsInit /\ [][StreamsNext]_streamVars

\* The threads of a node run, and it accepts who connects.
StreamsFairness ==
  /\ \A n \in Nodes :
       WF_streamVars(ClientThread(n)) /\ WF_streamVars(ReaderThread(n)) /\ WF_streamVars(WriterThread(n))
  /\ \A c \in Conns : WF_streamVars(Accept(c))

(***************************************************************************)
(* Properties.                                                             *)
(***************************************************************************)

StreamsTypeOK ==
  /\ present \in [Nodes -> SUBSET Nodes] /\ object \in [Nodes -> [Nodes -> 0..MaxObject]]
  /\ asked \subseteq Conns /\ items \subseteq Ends /\ opened \subseteq Ends /\ closed \subseteq Ends
  /\ peer \in [Ends -> 0..MaxObject]
  /\ flows \in [Ends -> [Streams -> Nat]] /\ last_flow_id \in [Conns -> Nat]
  /\ tcsl \in [Nodes -> [Streams -> SUBSET Ends]]
  /\ wire \in [Ends -> Seq(Frames)] /\ \A e \in Ends : Len(wire[e]) <= WireCap

\* A frame of one stream never ends in the hub of another: both ends of a
\* connection call a stream by the same number, and a number by one stream.
NoCrossTalk ==
  \A e \in Ends : \A i \in DOMAIN wire[e] :
    wire[e][i].kind = "data" => StreamOf(e, wire[e][i].id) \subseteq {wire[e][i].stream}

\* A hub sends over connections that carry its stream; none is left in its list
\* when a connection ends.
HubsKnowFlows ==
  \A n \in Nodes, s \in Streams : \A e \in tcsl[n][s] :
    Home(e) = n /\ flows[e][s] # 0

\* What keeps the receiving thread of a node from going on:
\* it waits in recv, with tcm held, for a server that has nothing to say;
Silent(n) ==
  /\ reader[n].pc = "read"
  /\ LET e == reader[n].end IN e[2] = "out" /\ wire[e] = <<>> /\ e \notin closed
\* it has tcm and wants nf while the client thread has nf and wants tcm;
Crossed(n) == client[n].pc \in {"connect", "find"} /\ reader[n].pc = "read"
\* another thread of the node waits in send, with nf or a hub held.
Full(n) ==
  \/ client[n].pc = "request" /\ ~HasRoom(OutEnd(n))
  \/ /\ writer[n].pc = "send"
     /\ \E e \in writer[n].todo : e[2] = "out" /\ ~HasRoom(e)

\* What was sent is read, unless the node is held up for ever in one of the three
\* ways above: the threads wait for each other in no other.
FramesRead ==
  \A e \in Ends :
    LET n == Home(e) IN
      [](wire[e] # <<>> =>
           <>(\/ wire[e] = <<>> \/ ~Running(n)
              \/ [](Silent(n) \/ Crossed(n) \/ Full(n))))

===============================================================================
