--------------------------- MODULE TcpProofs ---------------------------
(***************************************************************************)
(* Theorems about TcpStreams: for any number of nodes, streams, objects,   *)
(* messages and frames in a socket. Theorems about TcpFrames: for any      *)
(* messages of bytes and any socket and buffer.                            *)
(***************************************************************************)
EXTENDS TcpFrames, TcpStreams, WellFoundedInduction, SequenceTheorems, TLAPS

\* The states of the three threads.
Working == [pc : {"next", "connect", "find", "add", "request"}, conn : Conns,
            stream : Streams, todo : SUBSET Streams]
ClientStates ==
  {Idle} \cup [pc : {"next"}, conn : Conns, todo : SUBSET Streams] \cup Working
ReaderStates == {Idle} \cup [pc : {"read"}, end : Ends]
WriterStates == {Idle} \cup [pc : {"send"}, stream : Streams, todo : SUBSET Ends]

\* A thread works on connections of its own node.
ThreadsOK ==
  /\ client \in [Nodes -> ClientStates] /\ reader \in [Nodes -> ReaderStates]
  /\ writer \in [Nodes -> WriterStates]
  /\ \A n \in Nodes : /\ client[n].pc # "idle" => client[n].conn[1] = n
                      /\ reader[n].pc = "read" => Home(reader[n].end) = n

WiresOK == wire \in [Ends -> Seq(Frames)]

\* A server in the table is another one, and has an object.
FindTypes == /\ present \in [Nodes -> SUBSET Nodes] /\ object \in [Nodes -> [Nodes -> 0..MaxObject]]
             /\ asked \subseteq Conns
             /\ \A n \in Nodes : \A m \in present[n] : m # n /\ object[n][m] # 0

\* A flow that is about to be requested has its number, or nobody to be told.
Requested ==
  \A n \in Nodes : client[n].pc = "request" =>
    flows[OutEnd(n)][client[n].stream] # 0 \/ OutEnd(n) \in closed

(***************************************************************************)
(* What a connection carries: number i for stream s, in the maps of an end *)
(* or in a frame on its way.                                               *)
(***************************************************************************)
OnWire(e, s, i) == \E j \in DOMAIN wire[e] : wire[e][j].stream = s /\ wire[e][j].id = i
Holds(e, s, i) == flows[e][s] = i /\ i # 0
Carries(c, s, i) == \E k \in {"out", "in"} : OnWire(<<c, k>>, s, i) \/ Holds(<<c, k>>, s, i)

\* A number stands for one stream, and was given by the connecting end.
NumbersOK ==
  \A c \in Conns : \A s \in Streams : \A i :
    Carries(c, s, i) => /\ i \in 1 .. last_flow_id[c]
                        /\ \A r \in Streams : Carries(c, r, i) => r = s

StreamsInv ==
  /\ StreamsTypeOK /\ FindTypes /\ ThreadsOK /\ WiresOK
  /\ HubsKnowFlows /\ Requested /\ NumbersOK

(***************************************************************************)
(* Ends and frames.                                                        *)
(***************************************************************************)

\* The two ends of a connection.
LEMMA EndFacts ==
  /\ \A e \in Ends : /\ e[1] \in Conns /\ e = <<e[1], e[2]>> /\ e[2] \in {"out", "in"}
                     /\ Far(e) \in Ends /\ Far(e)[1] = e[1]
                     /\ Home(e) \in Nodes /\ Remote(e) \in Nodes
  /\ \A c \in Conns : \A k \in {"out", "in"} : <<c, k>> \in Ends
  /\ \A c \in Conns : Home(<<c, "out">>) = c[1] /\ c[1] \in Nodes /\ c[2] \in Nodes
                      /\ c[3] \in 1 .. MaxObject
  BY DEF Ends, Conns, Far, Home, Remote

\* A sequence with an element more, and without its first.
LEMMA SeqFacts ==
  ASSUME NEW S, NEW q \in Seq(S)
  PROVE  /\ Len(q) \in Nat /\ DOMAIN q = 1 .. Len(q) /\ \A j \in DOMAIN q : q[j] \in S
         /\ \A x \in S : /\ Append(q, x) \in Seq(S) /\ Len(Append(q, x)) = Len(q) + 1
                         /\ \A j \in DOMAIN Append(q, x) :
                              Append(q, x)[j] = x \/ (j \in DOMAIN q /\ Append(q, x)[j] = q[j])
         /\ q # <<>> => /\ Head(q) \in S /\ 1 \in DOMAIN q /\ Head(q) = q[1] /\ Tail(q) \in Seq(S)
                        /\ Len(Tail(q)) = Len(q) - 1
                        /\ \A j \in DOMAIN Tail(q) : j + 1 \in DOMAIN q /\ Tail(q)[j] = q[j + 1]
  <1>1. Len(q) \in Nat /\ DOMAIN q = 1 .. Len(q) /\ \A j \in DOMAIN q : q[j] \in S
    OBVIOUS
  <1>2. ASSUME NEW x \in S
        PROVE  /\ Append(q, x) \in Seq(S) /\ Len(Append(q, x)) = Len(q) + 1
               /\ \A j \in DOMAIN Append(q, x) :
                    Append(q, x)[j] = x \/ (j \in DOMAIN q /\ Append(q, x)[j] = q[j])
    <2>1. /\ Append(q, x) \in Seq(S) /\ Len(Append(q, x)) = Len(q) + 1
          /\ \A j \in 1 .. Len(q) : Append(q, x)[j] = q[j]
          /\ Append(q, x)[Len(q) + 1] = x
      BY AppendProperties
    <2>2. DOMAIN Append(q, x) = 1 .. Len(q) + 1
      BY <2>1
    <2> QED
      BY <1>1, <2>1, <2>2
  <1>3. ASSUME q # <<>>
        PROVE  /\ Head(q) \in S /\ 1 \in DOMAIN q /\ Head(q) = q[1] /\ Tail(q) \in Seq(S)
               /\ Len(Tail(q)) = Len(q) - 1
               /\ \A j \in DOMAIN Tail(q) : j + 1 \in DOMAIN q /\ Tail(q)[j] = q[j + 1]
    <2>1. /\ Head(q) = q[1] /\ Tail(q) \in Seq(S) /\ Len(Tail(q)) = Len(q) - 1
          /\ \A j \in 1 .. Len(Tail(q)) : Tail(q)[j] = q[j + 1]
      BY <1>3, HeadTailProperties
    <2>2. Len(q) >= 1 /\ DOMAIN Tail(q) = 1 .. Len(Tail(q))
      BY <1>1, <1>3, <2>1, EmptySeq
    <2> QED
      BY <1>1, <2>1, <2>2
  <1> QED
    BY <1>1, <1>2, <1>3

(***************************************************************************)
(* Types.                                                                  *)
(***************************************************************************)

\* The types of connections, of flows, of hubs and of wires.
ConnTypes == /\ items \subseteq Ends /\ opened \subseteq Ends /\ closed \subseteq Ends
             /\ peer \in [Ends -> 0..MaxObject]
FlowTypes == flows \in [Ends -> [Streams -> Nat]] /\ last_flow_id \in [Conns -> Nat]
HubTypes == tcsl \in [Nodes -> [Streams -> SUBSET Ends]]
WireTypes == WiresOK /\ \A e \in Ends : Len(wire[e]) <= WireCap

\* A frame that finds room keeps a wire within its bound; nothing else is new on it.
LEMMA PutFacts ==
  ASSUME StreamsInv, NEW e \in Ends, HasRoom(e), NEW f, Put(e, f),
         f \in Frames \/ e \in closed
  PROVE  /\ WireTypes'
         /\ \A d \in Ends : \A s, i :
              OnWire(d, s, i)' => \/ OnWire(d, s, i)
                                  \/ d = Far(e) /\ e \notin closed /\ s = f.stream /\ i = f.id
  <1>1. wire \in [Ends -> Seq(Frames)] /\ (\A d \in Ends : Len(wire[d]) <= WireCap) /\ Far(e) \in Ends
        /\ WireCap \in Nat
    BY EndFacts, StreamsAssumption DEF StreamsInv, StreamsTypeOK, WiresOK
  <1>2. CASE e \in closed
    <2>1. wire' = wire
      BY <1>1, <1>2 DEF Put
    <2> QED
      BY <1>1, <2>1 DEF WireTypes, WiresOK, OnWire
  <1>3. CASE e \notin closed
    <2>1. /\ wire' = [wire EXCEPT ![Far(e)] = Append(wire[Far(e)], f)] /\ f \in Frames
          /\ wire[Far(e)] \in Seq(Frames)
      BY <1>1, <1>3 DEF Put
    <2>2. /\ Append(wire[Far(e)], f) \in Seq(Frames)
          /\ Len(Append(wire[Far(e)], f)) = Len(wire[Far(e)]) + 1
          /\ \A j \in DOMAIN Append(wire[Far(e)], f) :
               \/ Append(wire[Far(e)], f)[j] = f
               \/ j \in DOMAIN wire[Far(e)] /\ Append(wire[Far(e)], f)[j] = wire[Far(e)][j]
          /\ Len(wire[Far(e)]) \in Nat
      BY <2>1, SeqFacts
    <2>3. WireTypes'
      BY <1>1, <2>1, <2>2 DEF WireTypes, WiresOK, HasRoom
    <2>4. ASSUME NEW d \in Ends, NEW s, NEW i, OnWire(d, s, i)', ~OnWire(d, s, i)
          PROVE  d = Far(e) /\ s = f.stream /\ i = f.id
      <3>1. PICK j \in DOMAIN wire'[d] : wire'[d][j].stream = s /\ wire'[d][j].id = i
        BY <2>4 DEF OnWire
      <3>2. d = Far(e)
        BY <1>1, <2>1, <2>4, <3>1 DEF OnWire
      <3> QED
        BY <1>1, <2>1, <2>2, <2>4, <3>1, <3>2 DEF OnWire
    <2> QED
      BY <1>3, <2>3, <2>4
  <1> QED
    BY <1>2, <1>3

\* Reading a frame leaves a shorter wire and nothing new on it.
LEMMA ConsumedFacts ==
  ASSUME StreamsInv, NEW e \in Ends, wire[e] # <<>>, Consumed(e)
  PROVE  /\ WireTypes'
         /\ \A d \in Ends : \A s, i : OnWire(d, s, i)' => OnWire(d, s, i)
         /\ Head(wire[e]) \in Frames
         /\ OnWire(e, Head(wire[e]).stream, Head(wire[e]).id)
  <1>1. wire \in [Ends -> Seq(Frames)] /\ (\A d \in Ends : Len(wire[d]) <= WireCap) /\ WireCap \in Nat
    BY StreamsAssumption DEF StreamsInv, StreamsTypeOK, WiresOK
  <1>2. wire[e] \in Seq(Frames) /\ wire' = [wire EXCEPT ![e] = Tail(wire[e])]
    BY <1>1 DEF Consumed
  <1>3. /\ Tail(wire[e]) \in Seq(Frames) /\ Len(Tail(wire[e])) = Len(wire[e]) - 1
        /\ Len(wire[e]) \in Nat
        /\ \A j \in DOMAIN Tail(wire[e]) : j + 1 \in DOMAIN wire[e] /\ Tail(wire[e])[j] = wire[e][j + 1]
        /\ Head(wire[e]) \in Frames /\ 1 \in DOMAIN wire[e] /\ Head(wire[e]) = wire[e][1]
    BY <1>2, SeqFacts
  <1>4. WireTypes'
    BY <1>1, <1>2, <1>3 DEF WireTypes, WiresOK
  <1>5. ASSUME NEW d \in Ends, NEW s, NEW i, OnWire(d, s, i)' PROVE OnWire(d, s, i)
    <2>1. PICK j \in DOMAIN wire'[d] : wire'[d][j].stream = s /\ wire'[d][j].id = i
      BY <1>5 DEF OnWire
    <2>2. CASE d # e
      BY <1>1, <1>2, <2>1, <2>2 DEF OnWire
    <2>3. CASE d = e
      BY <1>1, <1>2, <1>3, <2>1, <2>3 DEF OnWire
    <2> QED
      BY <2>2, <2>3
  <1>6. OnWire(e, Head(wire[e]).stream, Head(wire[e]).id)
    BY <1>3 DEF OnWire
  <1> QED
    BY <1>3, <1>4, <1>5, <1>6

\* What a thread at work knows.
LEMMA ThreadFacts ==
  ASSUME StreamsInv, NEW n \in Nodes
  PROVE  /\ client[n].pc # "idle" =>
              /\ client[n].conn \in Conns /\ client[n].todo \subseteq Streams
              /\ OutEnd(n) \in Ends /\ Home(OutEnd(n)) = n /\ OutEnd(n)[1] = client[n].conn
              /\ client[n].conn[3] \in 0 .. MaxObject
         /\ client[n].pc \in {"connect", "find", "add", "request"} => client[n] \in Working
         /\ reader[n].pc = "read" => reader[n].end \in Ends /\ Home(reader[n].end) = n
         /\ writer[n].pc = "send" => writer[n] \in [pc : {"send"}, stream : Streams, todo : SUBSET Ends]
  <1>1. client[n] \in ClientStates /\ reader[n] \in ReaderStates /\ writer[n] \in WriterStates
        /\ (client[n].pc # "idle" => client[n].conn[1] = n)
        /\ (reader[n].pc = "read" => Home(reader[n].end) = n)
    BY DEF StreamsInv, ThreadsOK
  <1>2. client[n].pc # "idle" => client[n].conn \in Conns /\ client[n].todo \subseteq Streams
    BY <1>1 DEF ClientStates, Working, Idle
  <1>3. client[n].pc # "idle" => /\ OutEnd(n) \in Ends /\ Home(OutEnd(n)) = n
                                 /\ OutEnd(n)[1] = client[n].conn
                                 /\ client[n].conn[3] \in 0 .. MaxObject
    <2> SUFFICES ASSUME client[n].pc # "idle"
                 PROVE  /\ OutEnd(n) \in Ends /\ Home(OutEnd(n)) = n
                        /\ OutEnd(n)[1] = client[n].conn
                        /\ client[n].conn[3] \in 0 .. MaxObject
      OBVIOUS
    <2> DEFINE c == client[n].conn
    <2>1. c \in Conns /\ c[1] = n
      BY <1>1, <1>2
    <2>2. /\ <<c, "out">> \in Ends /\ Home(<<c, "out">>) = n /\ c[3] \in 1 .. MaxObject
      BY <2>1, EndFacts
    <2>3. OutEnd(n) = <<c, "out">>
      BY DEF OutEnd
    <2> HIDE DEF c
    <2>4. <<c, "out">>[1] = c
      OBVIOUS
    <2>5. c[3] \in 0 .. MaxObject
      BY <2>2, StreamsAssumption
    <2> QED
      BY <2>2, <2>3, <2>4, <2>5 DEF c
  <1>4. client[n].pc \in {"connect", "find", "add", "request"} => client[n] \in Working
    BY <1>1 DEF ClientStates, Idle
  <1>5. reader[n].pc = "read" => reader[n].end \in Ends
    BY <1>1 DEF ReaderStates, Idle
  <1>6. writer[n].pc = "send" => writer[n] \in [pc : {"send"}, stream : Streams, todo : SUBSET Ends]
    BY <1>1 DEF WriterStates, Idle
  <1> QED
    BY <1>1, <1>2, <1>3, <1>4, <1>5, <1>6

(***************************************************************************)
(* Steps that leave flows, hubs and wires alone.                           *)
(***************************************************************************)

\* What an end holds, or is to read, its connection carries.
LEMMA CarriedOfEnd ==
  \A e \in Ends : \A s, i : OnWire(e, s, i) \/ Holds(e, s, i) => Carries(e[1], s, i)
  BY EndFacts DEF Carries

\* Fewer carried numbers are still told apart.
LEMMA NumbersShrink ==
  ASSUME NumbersOK, UNCHANGED last_flow_id,
         \A e \in Ends, s \in Streams : \A i :
           /\ OnWire(e, s, i)' => Carries(e[1], s, i)
           /\ Holds(e, s, i)' => Carries(e[1], s, i)
  PROVE  NumbersOK'
  <1>1. ASSUME NEW c \in Conns, NEW s \in Streams, NEW i, Carries(c, s, i)'
        PROVE  Carries(c, s, i)
    <2>1. PICK k \in {"out", "in"} : OnWire(<<c, k>>, s, i)' \/ Holds(<<c, k>>, s, i)'
      BY <1>1 DEF Carries
    <2>2. <<c, k>> \in Ends /\ <<c, k>>[1] = c
      BY EndFacts
    <2> QED
      BY <2>1, <2>2
  <1> QED
    BY <1>1 DEF NumbersOK

\* Such a step keeps the invariant when types are kept and no thread comes to
\* request a flow.
LEMMA QuietKeeps ==
  ASSUME StreamsInv, UNCHANGED <<flows, last_flow_id, tcsl, wire, closed>>,
         FindTypes', ConnTypes', ThreadsOK',
         \A n \in Nodes : client'[n].pc = "request" => client'[n] = client[n]
  PROVE  StreamsInv'
  <1>1. StreamsTypeOK' /\ WiresOK' /\ HubsKnowFlows'
    BY DEF StreamsInv, FindTypes, ConnTypes, StreamsTypeOK, WiresOK, HubsKnowFlows
  <1>2. Requested'
    BY DEF StreamsInv, Requested, OutEnd
  <1>3. NumbersOK'
    BY CarriedOfEnd, NumbersShrink DEF StreamsInv, OnWire, Holds
  <1> QED
    BY <1>1, <1>2, <1>3 DEF StreamsInv

\* The program that a halt ends keeps all of its state.
LEMMA HaltKeeps == ASSUME StreamsInv, NEW s, Halt(s) PROVE StreamsInv'
  <1>1. UNCHANGED <<find, conns, wire, tcsl, threads>>
    BY DEF Halt
  <1> QED
    BY <1>1, QuietKeeps DEF find, conns, threads, StreamsInv, StreamsTypeOK, FindTypes, ConnTypes, ThreadsOK

\* The parts of the invariant, for steps that change few of them.
LEMMA Parts == StreamsInv => /\ FindTypes /\ ConnTypes /\ FlowTypes /\ HubTypes /\ WireTypes /\ ThreadsOK
  BY DEF StreamsInv, StreamsTypeOK, FindTypes, ConnTypes, FlowTypes, HubTypes, WireTypes

\* Discovery changes its own tables only.
LEMMA FindKeeps ==
  ASSUME StreamsInv, NEW n \in Nodes, NEW m \in Nodes, Discover(n, m) \/ Forget(n, m)
  PROVE  StreamsInv'
  <1>1. FindTypes'
    <2>1. CASE Discover(n, m)
      <3>1. object[n][m] + 1 \in 0 .. MaxObject
        BY <2>1, Parts, StreamsAssumption DEF Discover, FindTypes
      <3> QED
        BY <2>1, <3>1, Parts DEF Discover, FindTypes
    <2>2. CASE Forget(n, m)
      BY <2>2, Parts DEF Forget, FindTypes
    <2> QED
      BY <2>1, <2>2
  <1> QED
    BY <1>1, Parts, QuietKeeps DEF Discover, Forget, conns, threads, ConnTypes, ThreadsOK

\* A thread of clients that moves on, with its own connection, is well typed.
LEMMA ClientMoves ==
  ASSUME StreamsInv, NEW n \in Nodes, NEW x \in ClientStates, x.pc # "idle" => x.conn[1] = n,
         client' = [client EXCEPT ![n] = x], UNCHANGED <<reader, writer>>
  PROVE  ThreadsOK' /\ client'[n] = x /\ \A m \in Nodes \ {n} : client'[m] = client[m]
  BY DEF StreamsInv, ThreadsOK

\* The client thread, but for flows.
LEMMA ClientKeeps ==
  ASSUME StreamsInv, NEW n \in Nodes,
         \/ \E m \in Nodes, ss \in SUBSET Streams : HandleInfo(n, m, ss)
         \/ \E s \in Streams : RegisterEndpoint(n, s)
         \/ InfoHandled(n) \/ AddServer(n) \/ FindStream(n)
  PROVE  StreamsInv'
  <1>1. CASE \E m \in Nodes, ss \in SUBSET Streams : HandleInfo(n, m, ss)
    <2>1. PICK m \in Nodes, ss \in SUBSET Streams : HandleInfo(n, m, ss)
      BY <1>1
    <2> DEFINE c == <<n, m, object[n][m]>>
               x == [pc |-> "next", conn |-> c, todo |-> ss]
    <2>2. c \in Conns
      BY <2>1, Parts DEF HandleInfo, FindTypes, Conns
    <2>3. x \in ClientStates /\ x.conn[1] = n /\ x.pc # "request"
      BY <2>2 DEF ClientStates
    <2>4. client' = [client EXCEPT ![n] = x] /\ asked' = asked \cup {c}
      BY <2>1 DEF HandleInfo
    <2> HIDE DEF c, x
    <2>5. ThreadsOK' /\ client'[n] = x /\ \A k \in Nodes \ {n} : client'[k] = client[k]
      BY <2>1, <2>3, <2>4, ClientMoves DEF HandleInfo
    <2>6. FindTypes' /\ ConnTypes'
      BY <2>1, <2>2, <2>4, Parts DEF HandleInfo, FindTypes, ConnTypes, conns
    <2> QED
      BY <2>1, <2>3, <2>5, <2>6, QuietKeeps DEF HandleInfo, conns
  <1>2. CASE \E s \in Streams : RegisterEndpoint(n, s)
    <2>1. PICK s \in Streams : RegisterEndpoint(n, s)
      BY <1>2
    <2> DEFINE x == [pc |-> "connect", conn |-> client[n].conn, stream |-> s, todo |-> client[n].todo \ {s}]
    <2>2. client[n].conn \in Conns /\ client[n].todo \subseteq Streams /\ client[n].conn[1] = n
      BY <2>1, ThreadFacts DEF RegisterEndpoint, StreamsInv, ThreadsOK
    <2>3. x \in ClientStates /\ x.conn[1] = n /\ x.pc # "request"
      BY <2>2 DEF ClientStates, Working
    <2>4. client' = [client EXCEPT ![n] = x]
      BY <2>1, Parts DEF RegisterEndpoint, ThreadsOK
    <2> HIDE DEF x
    <2>5. ThreadsOK' /\ client'[n] = x /\ \A k \in Nodes \ {n} : client'[k] = client[k]
      <3>1. ThreadsOK /\ UNCHANGED <<reader, writer>>
        BY <2>1, Parts DEF RegisterEndpoint
      <3>2. x.pc # "idle" => x.conn[1] = n
        BY <2>3
      <3> QED
        BY <2>3, <2>4, <3>1, <3>2, ClientMoves
    <2> QED
      BY <2>1, <2>3, <2>5, Parts, QuietKeeps DEF RegisterEndpoint, find, conns, FindTypes, ConnTypes
  <1>3. CASE InfoHandled(n)
    <2>1. Idle \in ClientStates /\ Idle.pc = "idle"
      BY DEF ClientStates, Idle
    <2>2. ThreadsOK' /\ client'[n] = Idle /\ \A k \in Nodes \ {n} : client'[k] = client[k]
      BY <1>3, <2>1, ClientMoves DEF InfoHandled
    <2> QED
      BY <1>3, <2>1, <2>2, Parts, QuietKeeps DEF InfoHandled, find, conns, FindTypes, ConnTypes
  <1>4. ASSUME NEW p \in {"find", "add", "next"}, client[n] \in Working,
               client' = [client EXCEPT ![n].pc = p], UNCHANGED <<reader, writer>>
        PROVE  ThreadsOK' /\ \A k \in Nodes : client'[k].pc = "request" => client'[k] = client[k]
    <2> DEFINE x == [client[n] EXCEPT !.pc = p]
    <2>1. x \in ClientStates /\ x.conn = client[n].conn /\ x.pc = p /\ client[n].pc # "idle"
      BY <1>4, Parts DEF ClientStates, Working
    <2>2. client[n].conn[1] = n
      BY <2>1, Parts DEF ThreadsOK
    <2>3. client' = [client EXCEPT ![n] = x]
      BY <1>4
    <2> HIDE DEF x
    <2>4. ThreadsOK' /\ client'[n] = x /\ \A k \in Nodes \ {n} : client'[k] = client[k]
      BY <1>4, <2>1, <2>2, <2>3, ClientMoves
    <2> QED
      BY <2>1, <2>4
  <1>5. CASE AddServer(n)
    <2>1. OutEnd(n) \in Ends /\ client[n].conn[3] \in 0 .. MaxObject /\ client[n] \in Working
      BY <1>5, ThreadFacts DEF AddServer
    <2>2. ConnTypes' /\ FindTypes'
      BY <1>5, <2>1, Parts DEF AddServer, ConnTypes, find, FindTypes
    <2> QED
      BY <1>4, <1>5, <2>1, <2>2, QuietKeeps DEF AddServer
  <1>6. CASE FindStream(n)
    <2>1. client[n] \in Working
      BY <1>6, ThreadFacts DEF FindStream
    <2> QED
      BY <1>4, <1>6, <2>1, Parts, QuietKeeps DEF FindStream, find, conns, FindTypes, ConnTypes
  <1> QED
    BY <1>1, <1>2, <1>3, <1>5, <1>6

\* The other threads, where nothing is sent, read or closed.
LEMMA OthersKeep ==
  ASSUME StreamsInv, NEW n \in Nodes,
         \/ \E c \in Conns : Accept(c)
         \/ \E e \in Ends : Home(e) = n /\ Poll(e)
         \/ ReadDone(n) \/ SendDone(n)
         \/ \E s \in Streams : SendMessage(n, s)
         \/ \E e \in Ends : SendOverflows(n, e)
  PROVE  StreamsInv'
  <1>1. CASE \E c \in Conns : Accept(c)
    <2>1. PICK c \in Conns : Accept(c)
      BY <1>1
    <2>2. <<c, "in">> \in Ends
      BY EndFacts
    <2>3. ConnTypes' /\ FindTypes'
      BY <2>1, <2>2, Parts DEF Accept, ConnTypes, find, FindTypes
    <2> QED
      BY <2>1, <2>3, Parts, QuietKeeps DEF Accept, threads, ThreadsOK
  <1>2. CASE \E e \in Ends : Home(e) = n /\ Poll(e)
    <2>1. PICK e \in Ends : Home(e) = n /\ Poll(e)
      BY <1>2
    <2>2. [pc |-> "read", end |-> e] \in ReaderStates
      BY DEF ReaderStates
    <2>3. ThreadsOK'
      BY <2>1, <2>2, Parts DEF Poll, ThreadsOK
    <2> QED
      BY <2>1, <2>3, Parts, QuietKeeps DEF Poll, find, conns, FindTypes, ConnTypes
  <1>3. CASE ReadDone(n)
    <2>1. Idle \in ReaderStates /\ Idle.pc = "idle"
      BY DEF ReaderStates, Idle
    <2>2. ThreadsOK'
      BY <1>3, <2>1, Parts DEF ReadDone, ThreadsOK
    <2> QED
      BY <1>3, <2>2, Parts, QuietKeeps DEF ReadDone, find, conns, FindTypes, ConnTypes
  <1>4. CASE SendDone(n)
    <2>1. Idle \in WriterStates
      BY DEF WriterStates
    <2>2. ThreadsOK'
      BY <1>4, <2>1, Parts DEF SendDone, ThreadsOK
    <2> QED
      BY <1>4, <2>2, Parts, QuietKeeps DEF SendDone, find, conns, FindTypes, ConnTypes
  <1>5. CASE \E s \in Streams : SendMessage(n, s)
    <2>1. PICK s \in Streams : SendMessage(n, s)
      BY <1>5
    <2>2. [pc |-> "send", stream |-> s, todo |-> tcsl[n][s]] \in WriterStates
      BY Parts DEF WriterStates, HubTypes
    <2>3. ThreadsOK'
      BY <2>1, <2>2, Parts DEF SendMessage, ThreadsOK
    <2> QED
      BY <2>1, <2>3, Parts, QuietKeeps DEF SendMessage, find, conns, FindTypes, ConnTypes
  <1>6. CASE \E e \in Ends : SendOverflows(n, e)
    <2>1. PICK e \in Ends : SendOverflows(n, e)
      BY <1>6
    <2>2. [writer[n] EXCEPT !.todo = @ \ {e}] \in WriterStates
      BY <2>1, ThreadFacts DEF SendOverflows, WriterStates
    <2>3. ThreadsOK' /\ ConnTypes' /\ FindTypes'
      BY <2>1, <2>2, Parts DEF SendOverflows, ThreadsOK, ConnTypes, find, FindTypes
    <2> QED
      BY <2>1, <2>3, Parts, QuietKeeps DEF SendOverflows
  <1> QED
    BY <1>1, <1>2, <1>3, <1>4, <1>5, <1>6

(***************************************************************************)
(* Steps on flows, hubs and wires.                                         *)
(***************************************************************************)

\* A thread of the program, or of clients, sends a frame of a flow that its own
\* end holds: no other stream gets the number.
LEMMA SentFlowKeeps ==
  ASSUME StreamsInv, NEW e \in Ends, NEW f, HasRoom(e), Put(e, f),
         f \in Frames \/ e \in closed, e \notin closed => Holds(e, f.stream, f.id),
         UNCHANGED <<flows, last_flow_id>>
  PROVE  WireTypes' /\ NumbersOK'
  <1>1. Far(e) \in Ends /\ Far(e)[1] = e[1]
    BY EndFacts
  <1>2. ASSUME NEW d \in Ends, NEW s \in Streams, NEW i, OnWire(d, s, i)' PROVE Carries(d[1], s, i)
    BY <1>1, <1>2, PutFacts, CarriedOfEnd
  <1>3. ASSUME NEW d \in Ends, NEW s \in Streams, NEW i, Holds(d, s, i)' PROVE Carries(d[1], s, i)
    BY <1>3, CarriedOfEnd DEF Holds
  <1> QED
    BY <1>2, <1>3, PutFacts, NumbersShrink DEF StreamsInv

\* A new flow gets a number of its own, before anyone asks for it.
LEMMA AddHubKeeps == ASSUME StreamsInv, NEW n \in Nodes, AddHub(n) PROVE StreamsInv'
  <1> DEFINE e == OutEnd(n)
             c == client[n].conn
             added == client[n].stream
             id == last_flow_id[c] + 1
             x == [client[n] EXCEPT !.pc = "request"]
  <1>1. /\ client[n] \in Working /\ client[n].pc = "add" /\ c \in Conns /\ added \in Streams
        /\ e \in Ends /\ Home(e) = n /\ e[1] = c /\ c[1] = n
    BY ThreadFacts, Parts DEF AddHub, Working, ThreadsOK
  <1>2. last_flow_id[c] \in Nat /\ id \in Nat \ {0}
    BY <1>1, Parts DEF FlowTypes
  <1>3. /\ last_flow_id' = [last_flow_id EXCEPT ![c] = id]
        /\ flows' = [flows EXCEPT ![e][added] = id]
        /\ tcsl' = [tcsl EXCEPT ![n][added] = tcsl[n][added] \cup {e}]
        /\ client' = [client EXCEPT ![n] = x]
        /\ UNCHANGED <<find, items, peer, opened, closed, wire, reader, writer>>
    BY Parts DEF AddHub, NextFlow, HubTypes, ThreadsOK
  <1>4. x \in ClientStates /\ x.pc = "request" /\ x.conn = c /\ x.stream = added
    BY <1>1 DEF ClientStates, Working
  <1> HIDE DEF id, x, c, added, e
  <1>5. ThreadsOK' /\ client'[n] = x /\ \A m \in Nodes \ {n} : client'[m] = client[m]
    BY <1>1, <1>3, <1>4, ClientMoves
  <1>6. /\ flows' \in [Ends -> [Streams -> Nat]] /\ flows'[e][added] = id
        /\ \A d \in Ends, s \in Streams : d # e \/ s # added => flows'[d][s] = flows[d][s]
    BY <1>1, <1>2, <1>3, Parts DEF FlowTypes
  <1>7. /\ last_flow_id' \in [Conns -> Nat] /\ last_flow_id'[c] = id
        /\ \A b \in Conns : b # c => last_flow_id'[b] = last_flow_id[b]
    BY <1>1, <1>2, <1>3, Parts DEF FlowTypes
  <1>8. /\ tcsl' \in [Nodes -> [Streams -> SUBSET Ends]]
        /\ \A m \in Nodes, s \in Streams :
             \A d \in tcsl'[m][s] : d \in tcsl[m][s] \/ (m = n /\ s = added /\ d = e)
    BY <1>1, <1>3, Parts DEF HubTypes
  <1>9. StreamsTypeOK' /\ FindTypes' /\ WiresOK'
    BY <1>3, <1>6, <1>7, <1>8 DEF StreamsInv, StreamsTypeOK, FindTypes, WiresOK, find
  <1>10. HubsKnowFlows'
    <2> SUFFICES ASSUME NEW m \in Nodes, NEW s \in Streams, NEW d \in tcsl'[m][s]
                 PROVE  Home(d) = m /\ flows'[d][s] # 0
      BY DEF HubsKnowFlows
    <2>1. d \in Ends
      BY <1>8
    <2>2. CASE d \in tcsl[m][s]
      BY <1>2, <1>6, <2>1, <2>2 DEF StreamsInv, HubsKnowFlows
    <2>3. CASE m = n /\ s = added /\ d = e
      BY <1>1, <1>2, <1>6, <2>3
    <2> QED
      BY <1>8, <2>2, <2>3
  <1>11. Requested'
    <2> SUFFICES ASSUME NEW m \in Nodes, client'[m].pc = "request"
                 PROVE  flows'[OutEnd(m)'][client'[m].stream] # 0 \/ OutEnd(m)' \in closed
      BY <1>3 DEF Requested
    <2>1. CASE m = n
      <3>1. OutEnd(m)' = e
        BY <1>4, <1>5, <2>1 DEF OutEnd, e, c
      <3> QED
        BY <1>2, <1>4, <1>5, <1>6, <2>1, <3>1
    <2>2. CASE m # n
      <3>1. client'[m] = client[m] /\ OutEnd(m)' = OutEnd(m) /\ OutEnd(m) \in Ends /\ Home(OutEnd(m)) = m
        BY <1>5, <2>2, ThreadFacts DEF OutEnd
      <3>2. OutEnd(m) # e
        BY <1>1, <2>2, <3>1
      <3>3. client[m].stream \in Streams
        BY <3>1, ThreadFacts DEF Working
      <3> QED
        BY <1>6, <3>1, <3>2, <3>3 DEF StreamsInv, Requested
    <2> QED
      BY <2>1, <2>2
  <1>12. ASSUME NEW b \in Conns, NEW s \in Streams, NEW i, Carries(b, s, i)'
         PROVE  Carries(b, s, i) \/ (b = c /\ s = added /\ i = id)
    <2>1. PICK k \in {"out", "in"} : OnWire(<<b, k>>, s, i)' \/ Holds(<<b, k>>, s, i)'
      BY <1>12 DEF Carries
    <2>2. <<b, k>> \in Ends /\ <<b, k>>[1] = b
      BY EndFacts
    <2>3. OnWire(<<b, k>>, s, i)' => OnWire(<<b, k>>, s, i)
      BY <1>3 DEF OnWire
    <2>4. Holds(<<b, k>>, s, i)' => Holds(<<b, k>>, s, i) \/ (<<b, k>> = e /\ s = added /\ i = id)
      BY <1>6, <2>2 DEF Holds
    <2> QED
      BY <1>1, <2>1, <2>2, <2>3, <2>4 DEF Carries
  <1>13. NumbersOK'
    <2> SUFFICES ASSUME NEW b \in Conns, NEW s \in Streams, NEW i, Carries(b, s, i)'
                 PROVE  /\ i \in 1 .. last_flow_id'[b]
                        /\ \A r \in Streams : Carries(b, r, i)' => r = s
      BY DEF NumbersOK
    <2>1. ~Carries(c, s, id) /\ \A r \in Streams : ~Carries(c, r, id)
      BY <1>1, <1>2 DEF StreamsInv, NumbersOK, id
    <2>2. CASE Carries(b, s, i)
      <3>1. i \in 1 .. last_flow_id[b] /\ \A r \in Streams : Carries(b, r, i) => r = s
        BY <2>2 DEF StreamsInv, NumbersOK
      <3>2. i \in 1 .. last_flow_id'[b]
        BY <1>1, <1>2, <1>7, <3>1 DEF id
      <3> QED
        BY <1>12, <2>1, <2>2, <3>1, <3>2
    <2>3. CASE b = c /\ s = added /\ i = id
      BY <1>2, <1>7, <1>12, <2>1, <2>3
    <2> QED
      BY <1>12, <2>2, <2>3
  <1> QED
    BY <1>5, <1>9, <1>10, <1>11, <1>13 DEF StreamsInv

\* The request names the flow the connecting end holds.
LEMMA RequestKeeps == ASSUME StreamsInv, NEW n \in Nodes, RequestFlow(n) PROVE StreamsInv'
  <1> DEFINE e == OutEnd(n)
             s == client[n].stream
             f == FlowRq(s, flows[e][s])
             x == [client[n] EXCEPT !.pc = "next"]
  <1>1. /\ client[n] \in Working /\ client[n].pc = "request" /\ s \in Streams /\ e \in Ends
        /\ client[n].conn[1] = n
    BY ThreadFacts, Parts DEF RequestFlow, Working, ThreadsOK
  <1>2. x \in ClientStates /\ x.pc = "next" /\ x.conn = client[n].conn
    BY <1>1 DEF ClientStates, Working
  <1>3. /\ HasRoom(e) /\ Put(e, f) /\ client' = [client EXCEPT ![n] = x]
        /\ opened' \subseteq opened
        /\ UNCHANGED <<find, items, peer, flows, last_flow_id, closed, tcsl, reader, writer>>
    BY Parts DEF RequestFlow, ThreadsOK
  <1>4. flows[e][s] \in Nat /\ (flows[e][s] # 0 \/ e \in closed)
    BY <1>1, Parts DEF FlowTypes, StreamsInv, Requested
  <1>5. f.stream = s /\ f.id = flows[e][s] /\ (f \in Frames \/ e \in closed)
    BY <1>1, <1>4 DEF FlowRq, Frames
  <1>6. e \notin closed => Holds(e, f.stream, f.id)
    BY <1>4, <1>5 DEF Holds
  <1> HIDE DEF e, f, x
  <1>7. WireTypes' /\ NumbersOK'
    BY <1>1, <1>3, <1>5, <1>6, SentFlowKeeps
  <1>8. ThreadsOK' /\ client'[n] = x /\ \A m \in Nodes \ {n} : client'[m] = client[m]
    BY <1>1, <1>2, <1>3, ClientMoves
  <1>9. StreamsTypeOK' /\ FindTypes' /\ WiresOK' /\ HubsKnowFlows'
    BY <1>3, <1>7, Parts DEF StreamsInv, StreamsTypeOK, FindTypes, WireTypes, WiresOK, HubsKnowFlows,
                             ConnTypes, find
  <1>10. Requested'
    BY <1>2, <1>3, <1>8 DEF StreamsInv, Requested, OutEnd
  <1> QED
    BY <1>7, <1>8, <1>9, <1>10 DEF StreamsInv

\* Data carries the flow the sending end holds.
LEMMA SendToKeeps == ASSUME StreamsInv, NEW n \in Nodes, NEW e \in Ends, SendTo(n, e) PROVE StreamsInv'
  <1> DEFINE s == writer[n].stream
             f == Data(s, flows[e][s])
  <1>1. s \in Streams /\ writer[n] \in [pc : {"send"}, stream : Streams, todo : SUBSET Ends]
    BY ThreadFacts DEF SendTo
  <1>2. [writer[n] EXCEPT !.todo = @ \ {e}] \in WriterStates
    BY <1>1 DEF WriterStates
  <1>3. ThreadsOK' /\ ConnTypes' /\ FindTypes'
    BY <1>2, Parts DEF SendTo, ThreadsOK, ConnTypes, find, FindTypes
  <1>4. WireTypes' /\ NumbersOK'
    <2>1. CASE e \in opened /\ flows[e][s] # 0
      <3>1. flows[e][s] \in Nat /\ f.stream = s /\ f.id = flows[e][s] /\ f \in Frames
        BY <1>1, <2>1, Parts DEF FlowTypes, Data, Frames
      <3>2. HasRoom(e) /\ Put(e, f) /\ UNCHANGED <<flows, last_flow_id>>
        BY <2>1 DEF SendTo
      <3>3. Holds(e, f.stream, f.id)
        BY <2>1, <3>1 DEF Holds
      <3> HIDE DEF f
      <3> QED
        BY <3>1, <3>2, <3>3, SentFlowKeeps
    <2>2. CASE ~(e \in opened /\ flows[e][s] # 0)
      <3>1. UNCHANGED <<wire, flows, last_flow_id>>
        BY <2>2 DEF SendTo
      <3> QED
        BY <3>1, CarriedOfEnd, NumbersShrink, Parts DEF StreamsInv, OnWire, Holds, WireTypes, WiresOK
    <2> QED
      BY <2>1, <2>2
  <1>5. StreamsTypeOK' /\ WiresOK' /\ HubsKnowFlows' /\ Requested'
    BY <1>3, <1>4 DEF SendTo, StreamsInv, StreamsTypeOK, FindTypes, ConnTypes, WireTypes, WiresOK,
                      HubsKnowFlows, Requested, OutEnd
  <1> QED
    BY <1>3, <1>4, <1>5 DEF StreamsInv

\* What the accepting end learns is what was on its way.
LEMMA FlowRqKeeps == ASSUME StreamsInv, NEW n \in Nodes, HandleFlowRq(n) PROVE StreamsInv'
  <1> DEFINE e == reader[n].end
             f == Head(wire[e])
  <1>1. e \in Ends /\ Home(e) = n /\ wire[e] # <<>> /\ Consumed(e) /\ n \in Nodes /\ Remote(e) \in Nodes
    BY ThreadFacts, EndFacts DEF HandleFlowRq, Reading
  <1>2. /\ WireTypes' /\ f \in Frames /\ OnWire(e, f.stream, f.id)
        /\ \A d \in Ends : \A s, i : OnWire(d, s, i)' => OnWire(d, s, i)
    BY <1>1, ConsumedFacts
  <1>3. f.stream \in Streams /\ f.id \in Nat \ {0}
    BY <1>2 DEF Frames
  <1>4. UNCHANGED <<find, items, last_flow_id, opened, closed, threads>>
    BY DEF HandleFlowRq
  <1>5. ConnTypes' /\ FindTypes' /\ ThreadsOK'
    <2>1. peer' = peer \/ peer' = [peer EXCEPT ![e] = object[n][Remote(e)]]
      BY DEF HandleFlowRq
    <2>2. object[n][Remote(e)] \in 0 .. MaxObject
      BY <1>1, Parts DEF FindTypes
    <2>3. peer' \in [Ends -> 0 .. MaxObject]
      BY <1>1, <2>1, <2>2, Parts DEF ConnTypes
    <2> QED
      BY <1>4, <2>3, Parts DEF ConnTypes, FindTypes, ThreadsOK, find, threads
  <1>6. CASE ~(Acknowledged(e) /\ flows[e][f.stream] = 0)
    <2>1. UNCHANGED <<flows, tcsl>>
      BY <1>6 DEF HandleFlowRq
    <2>2. NumbersOK'
      BY <1>2, <1>4, <2>1, CarriedOfEnd, NumbersShrink DEF StreamsInv, Holds
    <2>3. StreamsTypeOK' /\ WiresOK' /\ HubsKnowFlows' /\ Requested'
      BY <1>2, <1>4, <1>5, <2>1 DEF StreamsInv, StreamsTypeOK, FindTypes, ConnTypes, WireTypes, WiresOK,
                                    HubsKnowFlows, Requested, OutEnd, threads
    <2> QED
      BY <1>5, <2>2, <2>3 DEF StreamsInv
  <1>7. CASE Acknowledged(e) /\ flows[e][f.stream] = 0
    <2>1. /\ flows' = [flows EXCEPT ![e][f.stream] = f.id]
          /\ tcsl' = [tcsl EXCEPT ![n][f.stream] = tcsl[n][f.stream] \cup {e}]
      BY <1>3, <1>7, Parts DEF HandleFlowRq, NewFlow, HubTypes
    <2> HIDE DEF e, f
    <2>2. /\ flows' \in [Ends -> [Streams -> Nat]] /\ flows'[e][f.stream] = f.id
          /\ \A d \in Ends, s \in Streams : d # e \/ s # f.stream => flows'[d][s] = flows[d][s]
      BY <1>1, <1>3, <2>1, Parts DEF FlowTypes
    <2>3. /\ tcsl' \in [Nodes -> [Streams -> SUBSET Ends]]
          /\ \A m \in Nodes, s \in Streams :
               \A d \in tcsl'[m][s] : d \in tcsl[m][s] \/ (m = n /\ s = f.stream /\ d = e)
      BY <1>1, <1>3, <2>1, Parts DEF HubTypes
    <2>4. \A d \in Ends, s \in Streams : flows[d][s] # 0 => flows'[d][s] # 0
      BY <1>3, <2>2
    <2>5. StreamsTypeOK' /\ WiresOK'
      BY <1>2, <1>4, <1>5, <2>2, <2>3 DEF StreamsInv, StreamsTypeOK, FindTypes, ConnTypes, WireTypes, WiresOK
    <2>6. HubsKnowFlows'
      BY <1>1, <1>3, <2>2, <2>3, <2>4 DEF StreamsInv, HubsKnowFlows
    <2>7. Requested'
      <3> SUFFICES ASSUME NEW m \in Nodes, client[m].pc = "request"
                   PROVE  flows'[OutEnd(m)][client[m].stream] # 0 \/ OutEnd(m) \in closed
        BY <1>4 DEF Requested, threads, OutEnd
      <3>1. OutEnd(m) \in Ends /\ client[m].stream \in Streams
        BY ThreadFacts DEF Working
      <3> QED
        BY <2>4, <3>1 DEF StreamsInv, Requested
    <2>8. ASSUME NEW d \in Ends, NEW s \in Streams, NEW i, Holds(d, s, i)' PROVE Carries(d[1], s, i)
      <3>1. Holds(d, s, i) \/ (d = e /\ s = f.stream /\ i = f.id)
        BY <2>2, <2>8 DEF Holds
      <3> QED
        BY <1>2, <3>1, CarriedOfEnd
    <2>9. NumbersOK'
      BY <1>2, <1>4, <2>8, CarriedOfEnd, NumbersShrink DEF StreamsInv
    <2> QED
      BY <1>5, <2>5, <2>6, <2>7, <2>9 DEF StreamsInv
  <1> QED
    BY <1>6, <1>7

\* Data is read off the wire and goes to a hub.
LEMMA DataKeeps == ASSUME StreamsInv, NEW n \in Nodes, HandleData(n) PROVE StreamsInv'
  <1> DEFINE e == reader[n].end
  <1>1. e \in Ends /\ wire[e] # <<>> /\ Consumed(e)
    BY ThreadFacts DEF HandleData, Reading
  <1>2. WireTypes' /\ \A d \in Ends : \A s, i : OnWire(d, s, i)' => OnWire(d, s, i)
    BY <1>1, ConsumedFacts
  <1>3. UNCHANGED <<find, conns, tcsl, threads>>
    BY DEF HandleData
  <1>4. NumbersOK'
    BY <1>2, <1>3, CarriedOfEnd, NumbersShrink DEF StreamsInv, Holds, conns
  <1> QED
    BY <1>2, <1>3, <1>4 DEF StreamsInv, StreamsTypeOK, FindTypes, WireTypes, WiresOK, ThreadsOK, HubsKnowFlows,
                            Requested, OutEnd, find, conns, threads

\* The hubs forget an end with its flows.
LEMMA ClosedKeeps == ASSUME StreamsInv, NEW n \in Nodes, ReadClosed(n) PROVE StreamsInv'
  <1> DEFINE e == reader[n].end
             known == {s \in Streams : flows[e][s] # 0}
  <1>1. e \in Ends /\ Home(e) = n /\ e \in closed
    BY ThreadFacts DEF ReadClosed
  <1>2. /\ tcsl' = [tcsl EXCEPT ![n] = [s \in Streams |->
             IF s \in known THEN {x \in tcsl[n][s] : ~Unlinked(e, x)} ELSE tcsl[n][s]]]
        /\ flows' = [flows EXCEPT ![e] = NoFlows]
        /\ items' = items \ {e, Far(e)} /\ reader' = [reader EXCEPT ![n] = Idle]
        /\ UNCHANGED <<find, peer, last_flow_id, opened, closed, wire, client, writer>>
    BY Parts DEF ReadClosed, HubTypes
  <1>3. /\ flows' \in [Ends -> [Streams -> Nat]]
        /\ \A d \in Ends, s \in Streams : flows'[d][s] = IF d = e THEN 0 ELSE flows[d][s]
    BY <1>1, <1>2, Parts DEF FlowTypes, NoFlows
  <1>4. /\ tcsl' \in [Nodes -> [Streams -> SUBSET Ends]]
        /\ \A m \in Nodes, s \in Streams : \A d \in tcsl'[m][s] :
             /\ d \in tcsl[m][s]
             /\ m = n /\ s \in known => ~Unlinked(e, d)
    BY <1>1, <1>2, Parts DEF HubTypes
  <1>5. ThreadsOK'
    <2>1. Idle \in ReaderStates /\ Idle.pc = "idle"
      BY DEF ReaderStates, Idle
    <2> QED
      BY <1>2, <2>1, Parts DEF ThreadsOK
  <1>6. StreamsTypeOK' /\ FindTypes' /\ WiresOK'
    BY <1>2, <1>3, <1>4, Parts DEF StreamsInv, StreamsTypeOK, FindTypes, WiresOK, FlowTypes, find
  <1>7. HubsKnowFlows'
    <2> SUFFICES ASSUME NEW m \in Nodes, NEW s \in Streams, NEW d \in tcsl'[m][s]
                 PROVE  Home(d) = m /\ flows'[d][s] # 0
      BY DEF HubsKnowFlows
    <2>1. d \in Ends /\ d \in tcsl[m][s] /\ Home(d) = m /\ flows[d][s] # 0
      BY <1>4 DEF StreamsInv, HubsKnowFlows
    <2>2. d # e
      <3> SUFFICES ASSUME d = e PROVE FALSE
        OBVIOUS
      <3>1. m = n /\ s \in known
        BY <1>1, <2>1
      <3>2. Unlinked(e, e)
        BY DEF Unlinked
      <3> QED
        BY <1>4, <3>1, <3>2
    <2> QED
      BY <1>3, <2>1, <2>2
  <1>8. Requested'
    <2> SUFFICES ASSUME NEW m \in Nodes, client[m].pc = "request"
                 PROVE  flows'[OutEnd(m)][client[m].stream] # 0 \/ OutEnd(m) \in closed
      BY <1>2 DEF Requested, OutEnd
    <2>1. OutEnd(m) \in Ends /\ client[m].stream \in Streams
      BY ThreadFacts DEF Working
    <2> QED
      BY <1>1, <1>3, <2>1 DEF StreamsInv, Requested
  <1>9. ASSUME NEW d \in Ends, NEW s \in Streams, NEW i, Holds(d, s, i)' PROVE Holds(d, s, i)
    BY <1>3, <1>9 DEF Holds
  <1>10. NumbersOK'
    BY <1>2, <1>9, CarriedOfEnd, NumbersShrink DEF StreamsInv, OnWire
  <1> QED
    BY <1>5, <1>6, <1>7, <1>8, <1>10 DEF StreamsInv

\* A program that ends takes what it had not read with it.
LEMMA ExitKeeps == ASSUME StreamsInv, NEW n \in Nodes, Exit(n) PROVE StreamsInv'
  <1>1. /\ closed \subseteq closed' /\ closed' \subseteq Ends
        /\ wire' = [e \in Ends |-> IF Home(e) = n THEN <<>> ELSE wire[e]]
        /\ UNCHANGED <<find, items, peer, flows, last_flow_id, opened, tcsl, threads>>
    BY Parts DEF Exit, ConnTypes
  <1>2. \A e \in Ends : wire'[e] = <<>> \/ wire'[e] = wire[e]
    BY <1>1
  <1>3. WireTypes'
    <2>1. <<>> \in Seq(Frames) /\ Len(<<>>) <= WireCap
      BY StreamsAssumption, EmptySeq
    <2> QED
      BY <1>1, <2>1, Parts DEF WireTypes, WiresOK
  <1>4. ASSUME NEW d \in Ends, NEW s, NEW i, OnWire(d, s, i)' PROVE OnWire(d, s, i)
    BY <1>2, <1>4 DEF OnWire
  <1>5. NumbersOK'
    BY <1>1, <1>4, CarriedOfEnd, NumbersShrink DEF StreamsInv, Holds
  <1>6. StreamsTypeOK' /\ FindTypes' /\ WiresOK' /\ ThreadsOK' /\ HubsKnowFlows' /\ Requested'
    BY <1>1, <1>3 DEF StreamsInv, StreamsTypeOK, FindTypes, WireTypes, WiresOK, ThreadsOK, HubsKnowFlows,
                      Requested, OutEnd, find, threads
  <1> QED
    BY <1>5, <1>6 DEF StreamsInv

(***************************************************************************)
(* The theorems.                                                           *)
(***************************************************************************)

\* Nothing is known, connected or sent at first.
LEMMA StreamsStart == StreamsInit => StreamsInv
  <1> SUFFICES ASSUME StreamsInit PROVE StreamsInv
    OBVIOUS
  <1>1. /\ <<>> \in Seq(Frames) /\ Len(<<>>) = 0 /\ MaxObject \in Nat /\ WireCap \in Nat
        /\ NoFlows \in [Streams -> Nat] /\ \A s \in Streams : NoFlows[s] = 0
    BY StreamsAssumption, EmptySeq DEF NoFlows
  <1>2. StreamsTypeOK /\ FindTypes /\ WiresOK /\ HubsKnowFlows
    BY <1>1 DEF StreamsInit, StreamsTypeOK, FindTypes, WiresOK, HubsKnowFlows
  <1>3. Idle \in ClientStates /\ Idle \in ReaderStates /\ Idle \in WriterStates /\ Idle.pc = "idle"
    BY DEF ClientStates, ReaderStates, WriterStates, Idle
  <1>4. ThreadsOK /\ Requested
    BY <1>3 DEF StreamsInit, ThreadsOK, Requested
  <1>5. ASSUME NEW c \in Conns, NEW s \in Streams, NEW i, Carries(c, s, i) PROVE FALSE
    <2>1. PICK k \in {"out", "in"} : OnWire(<<c, k>>, s, i) \/ Holds(<<c, k>>, s, i)
      BY <1>5 DEF Carries
    <2>2. <<c, k>> \in Ends
      BY EndFacts
    <2>3. wire[<<c, k>>] = <<>> /\ flows[<<c, k>>][s] = 0
      BY <1>1, <2>2 DEF StreamsInit
    <2> QED
      BY <2>1, <2>3 DEF OnWire, Holds
  <1>6. NumbersOK
    BY <1>5 DEF NumbersOK
  <1> QED
    BY <1>2, <1>4, <1>6 DEF StreamsInv

\* Every step of every thread keeps the invariant.
LEMMA StreamsKeep == StreamsInv /\ [StreamsNext]_streamVars => StreamsInv'
  <1> SUFFICES ASSUME StreamsInv, [StreamsNext]_streamVars PROVE StreamsInv'
    OBVIOUS
  <1>1. CASE UNCHANGED streamVars
    BY <1>1, Parts, QuietKeeps DEF streamVars, find, conns, threads, FindTypes, ConnTypes, ThreadsOK
  <1>2. ASSUME NEW n \in Nodes, NEW m \in Nodes, Discover(n, m) \/ Forget(n, m) PROVE StreamsInv'
    BY <1>2, FindKeeps
  <1>3. ASSUME NEW n \in Nodes, NEW m \in Nodes, NEW ss \in SUBSET Streams, HandleInfo(n, m, ss)
        PROVE  StreamsInv'
    BY <1>3, ClientKeeps
  <1>4. ASSUME NEW c \in Conns, Accept(c) PROVE StreamsInv'
    BY <1>4, OthersKeep, EndFacts
  <1>5. ASSUME NEW n \in Nodes, NEW s \in Streams, SendMessage(n, s) PROVE StreamsInv'
    BY <1>5, OthersKeep
  <1>6. ASSUME NEW n \in Nodes, ClientThread(n) PROVE StreamsInv'
    <2>1. CASE \/ \E s \in Streams : RegisterEndpoint(n, s)
               \/ InfoHandled(n) \/ AddServer(n) \/ FindStream(n)
      BY <2>1, ClientKeeps
    <2>2. CASE AddServerFails(n) \/ FindStreamFails(n) \/ AddHubRace(n)
      BY <2>2, HaltKeeps DEF AddServerFails, FindStreamFails, AddHubRace
    <2>3. CASE AddHub(n)
      BY <2>3, AddHubKeeps
    <2>4. CASE RequestFlow(n)
      BY <2>4, RequestKeeps
    <2> QED
      BY <1>6, <2>1, <2>2, <2>3, <2>4 DEF ClientThread
  <1>7. ASSUME NEW n \in Nodes, ReaderThread(n) PROVE StreamsInv'
    <2>1. CASE (\E e \in Ends : Home(e) = n /\ Poll(e)) \/ ReadDone(n)
      BY <2>1, OthersKeep
    <2>2. CASE HandleFlowRq(n)
      BY <2>2, FlowRqKeeps
    <2>3. CASE HandleFlowRqRace(n)
      BY <2>3, HaltKeeps DEF HandleFlowRqRace
    <2>4. CASE HandleData(n)
      BY <2>4, DataKeeps
    <2>5. CASE ReadClosed(n)
      BY <2>5, ClosedKeeps
    <2> QED
      BY <1>7, <2>1, <2>2, <2>3, <2>4, <2>5 DEF ReaderThread
  <1>8. ASSUME NEW n \in Nodes, WriterThread(n) PROVE StreamsInv'
    BY <1>8, SendToKeeps, OthersKeep DEF WriterThread
  <1>9. ASSUME NEW n \in Nodes, Exit(n) PROVE StreamsInv'
    BY <1>9, ExitKeeps
  <1> QED
    BY <1>1, <1>2, <1>3, <1>4, <1>5, <1>6, <1>7, <1>8, <1>9 DEF StreamsNext

\* The invariant holds in every state of TCP streams.
THEOREM StreamsInvCorrect == StreamsSpec => []StreamsInv
  BY StreamsStart, StreamsKeep, PTL DEF StreamsSpec

\* Tables, connections, flows and hubs keep their types; no socket holds more
\* than it has room for (tcpstream.cpp).
THEOREM StreamsTypeCorrect == StreamsSpec => []StreamsTypeOK
  <1>1. StreamsInv => StreamsTypeOK
    BY DEF StreamsInv
  <1> QED
    BY <1>1, StreamsInvCorrect, PTL

\* A frame of one stream never ends in the hub of another, for any number of
\* nodes, connections and streams (TcpStream::add_hub, receive_message).
THEOREM NoCrossTalkCorrect == StreamsSpec => []NoCrossTalk
  <1>1. StreamsInv => NoCrossTalk
    <2> SUFFICES ASSUME StreamsInv, NEW e \in Ends, NEW j \in DOMAIN wire[e],
                        NEW s \in StreamOf(e, wire[e][j].id)
                 PROVE  s = wire[e][j].stream
      BY DEF NoCrossTalk
    <2>1. wire[e] \in Seq(Frames)
      BY DEF StreamsInv, WiresOK
    <2>2. wire[e][j] \in Frames
      BY <2>1, SeqFacts
    <2>3. wire[e][j].stream \in Streams /\ wire[e][j].id # 0 /\ s \in Streams /\ flows[e][s] = wire[e][j].id
      BY <2>2 DEF Frames, StreamOf
    <2>4. OnWire(e, wire[e][j].stream, wire[e][j].id) /\ Holds(e, s, wire[e][j].id)
      BY <2>3 DEF OnWire, Holds
    <2>5. e[1] \in Conns
      BY EndFacts
    <2> QED
      BY <2>3, <2>4, <2>5, CarriedOfEnd DEF StreamsInv, NumbersOK
  <1> QED
    BY <1>1, StreamsInvCorrect, PTL

\* A hub sends over connections of its own node that carry its stream, and no
\* ended connection stays in its list (tcpstream.cpp, p2hub.cpp).
THEOREM HubsKnowFlowsCorrect == StreamsSpec => []HubsKnowFlows
  <1>1. StreamsInv => HubsKnowFlows
    BY DEF StreamsInv
  <1> QED
    BY <1>1, StreamsInvCorrect, PTL

(***************************************************************************)
(* The frames of a connection.                                             *)
(***************************************************************************)

\* The least of some numbers.
LEMMA LeastIs ==
    ASSUME NEW T, T \subseteq Nat, T # {}
    PROVE  \E x \in T : \A y \in T : x <= y
  <1>1. PICK x \in T : \A y \in T : <<y, x>> \notin OpToRel(<, Nat)
    BY NatLessThanWellFounded, WFMin
  <1>2. \A y \in T : <<y, x>> \in OpToRel(<, Nat) <=> y < x
    BY DEF OpToRel
  <1>3. ASSUME NEW y \in T PROVE x <= y
    <2>1. ~(y < x) /\ x \in Nat /\ y \in Nat
      BY <1>1, <1>2
    <2> QED
      BY <2>1
  <1> QED
    BY <1>3

\* Induction over numbers, for a set of them.
LEMMA UpTo ==
    ASSUME NEW l \in Nat, NEW n \in Nat, NEW G, l \in G, \A m \in l .. n : m \in G => m + 1 \in G
    PROVE  \A m \in l .. n : m \in G
  <1> SUFFICES ASSUME NEW k \in l .. n, k \notin G PROVE FALSE
    OBVIOUS
  <1> DEFINE T == {m \in l .. n : m \notin G}
  <1>1. T \subseteq Nat /\ T # {}
    OBVIOUS
  <1>2. PICK x \in T : \A y \in T : x <= y
    BY <1>1, LeastIs
  <1>3. x \in l .. n /\ x \notin G /\ x # l
    BY <1>2
  <1>4. x - 1 \in l .. n /\ ~(x <= x - 1) /\ (x - 1) + 1 = x
    BY <1>3
  <1>5. x - 1 \in G
    BY <1>2, <1>4
  <1> QED
    BY <1>3, <1>4, <1>5

\* Sequences one after the other: each part is the one before it and one more.
LEMMA FlattenParts ==
    ASSUME NEW S, NEW ss \in Seq(Seq(S)), Len(ss) # 0
    PROVE  \E f \in [1 .. Len(ss) -> Seq(S)] :
             /\ FlattenSeq(ss) = f[Len(ss)] /\ f[1] = ss[1]
             /\ \A i \in 1 .. Len(ss) - 1 : f[i + 1] = f[i] \o ss[i + 1]
  <1> DEFINE n == Len(ss)
             Step(g) == [i \in 1 .. n |-> IF i = 1 THEN ss[i] ELSE g[i - 1] \o ss[i]]
             flatten == CHOOSE g : g = Step(g)
  <1>1. n \in Nat /\ \A i \in 1 .. n : ss[i] \in Seq(S)
    BY ElementOfSeq
  <1>2. n # 0 => FlattenSeq(ss) = flatten[n]
    BY DEF FlattenSeq
  <1>3. n = 0 => FlattenSeq(ss) = <<>>
    <2>1. n = 0 => FlattenSeq(ss) = ss
      BY DEF FlattenSeq
    <2> QED
      BY <2>1, EmptySeq
  <1> HIDE DEF n
  <1>4. CASE n # 0
    <2> DEFINE Good(f, m) == /\ f \in [1 .. m -> Seq(S)]
                             /\ \A i \in 1 .. m : f[i] = IF i = 1 THEN ss[i] ELSE f[i - 1] \o ss[i]
               G == {m \in 1 .. n + 1 : m = n + 1 \/ \E f : Good(f, m)}
    <2>1. 1 \in G
      <3> DEFINE f == [i \in 1 .. 1 |-> ss[1]]
      <3>1. ss[1] \in Seq(S)
        BY <1>1, <1>4
      <3>2. f \in [1 .. 1 -> Seq(S)] /\ \A i \in 1 .. 1 : i = 1 /\ f[i] = ss[i]
        BY <3>1
      <3> HIDE DEF f
      <3>3. Good(f, 1)
        BY <3>2
      <3> QED
        BY <1>1, <3>3
    <2>2. ASSUME NEW m \in 1 .. n, m \in G PROVE m + 1 \in G
      <3>1. m + 1 \in 1 .. n + 1
        BY <1>1
      <3>2. CASE m + 1 = n + 1
        BY <3>1, <3>2
      <3>3. CASE m + 1 # n + 1
        <4>1. m + 1 \in 1 .. n /\ m # n + 1
          BY <1>1, <3>3
        <4>2. PICK f : Good(f, m)
          BY <2>2, <4>1
        <4> DEFINE h == [i \in 1 .. m + 1 |-> IF i = m + 1 THEN f[m] \o ss[m + 1] ELSE f[i]]
        <4>3. f[m] \o ss[m + 1] \in Seq(S)
          BY <1>1, <4>1, <4>2, ConcatProperties
        <4>4. h \in [1 .. m + 1 -> Seq(S)]
          <5>1. \A i \in 1 .. m + 1 : i = m + 1 \/ i \in 1 .. m
            BY <1>1
          <5> QED
            BY <4>2, <4>3, <5>1
        <4>5. ASSUME NEW i \in 1 .. m + 1
              PROVE  h[i] = IF i = 1 THEN ss[i] ELSE h[i - 1] \o ss[i]
          <5>1. CASE i = m + 1
            <6>1. i # 1 /\ i - 1 = m /\ h[m] = f[m]
              BY <1>1, <5>1
            <6> QED
              BY <5>1, <6>1
          <5>2. CASE i # m + 1
            <6>1. i \in 1 .. m /\ (i # 1 => i - 1 \in 1 .. m /\ i - 1 # m + 1 /\ i - 1 \in 1 .. m + 1)
              BY <1>1, <5>2
            <6>2. h[i] = f[i] /\ (i # 1 => h[i - 1] = f[i - 1])
              BY <5>2, <6>1
            <6> QED
              BY <4>2, <6>1, <6>2
          <5> QED
            BY <5>1, <5>2
        <4> HIDE DEF h
        <4>6. Good(h, m + 1)
          BY <4>4, <4>5
        <4> QED
          BY <3>1, <4>6
      <3> QED
        BY <3>2, <3>3
    <2> HIDE DEF G
    <2>3. n \in G
      <3>1. \A m \in 1 .. n : m \in G
        BY <1>1, <2>1, <2>2, UpTo
      <3>2. n \in 1 .. n
        BY <1>1, <1>4
      <3> QED
        BY <3>1, <3>2
    <2>4. PICK f : Good(f, n)
      <3>1. n # n + 1
        BY <1>1
      <3> QED
        BY <2>3, <3>1 DEF G
    <2>5. f = Step(f)
      BY <2>4
    <2> HIDE DEF Step
    <2>6. flatten = Step(flatten)
      BY <2>5
    <2> HIDE DEF flatten
    <2>7. \A i \in 1 .. n : flatten[i] = IF i = 1 THEN ss[i] ELSE flatten[i - 1] \o ss[i]
      BY <2>6 DEF Step
    <2> DEFINE H == {m \in 1 .. n + 1 : m = n + 1 \/ flatten[m] \in Seq(S)}
    <2>8. 1 \in H
      BY <1>1, <1>4, <2>7
    <2>9. ASSUME NEW m \in 1 .. n, m \in H PROVE m + 1 \in H
      <3>1. CASE m + 1 = n + 1
        BY <1>1, <3>1
      <3>2. CASE m + 1 # n + 1
        <4>1. m + 1 \in 1 .. n /\ m # n + 1 /\ m + 1 # 1 /\ (m + 1) - 1 = m
          BY <1>1, <3>2
        <4>2. flatten[m] \in Seq(S) /\ flatten[m + 1] = flatten[m] \o ss[m + 1]
          BY <2>7, <2>9, <4>1
        <4>3. flatten[m + 1] \in Seq(S)
          BY <1>1, <4>1, <4>2, ConcatProperties
        <4> QED
          BY <1>1, <4>1, <4>3
      <3> QED
        BY <3>1, <3>2
    <2> HIDE DEF H
    <2>10. \A m \in 1 .. n : m \in H
      BY <1>1, <2>8, <2>9, UpTo
    <2>11. \A m \in 1 .. n : flatten[m] \in Seq(S)
      <3>1. n + 1 \notin 1 .. n
        BY <1>1
      <3> QED
        BY <2>10, <3>1 DEF H
    <2>12. flatten \in [1 .. n -> Seq(S)]
      BY <2>6, <2>11 DEF Step
    <2>13. flatten[1] = ss[1]
      <3>1. 1 \in 1 .. n
        BY <1>1, <1>4
      <3> QED
        BY <2>7, <3>1
    <2>14. \A i \in 1 .. n - 1 : flatten[i + 1] = flatten[i] \o ss[i + 1]
      <3> TAKE i \in 1 .. n - 1
      <3>1. i + 1 \in 1 .. n /\ i + 1 # 1 /\ (i + 1) - 1 = i
        BY <1>1
      <3> QED
        BY <2>7, <3>1
    <2> QED
      BY <1>2, <1>4, <2>12, <2>13, <2>14 DEF n
  <1> QED
    BY <1>4 DEF n

\* Where each of them lies in the whole.
LEMMA FlattenPlaces ==
    ASSUME NEW S, NEW ss \in Seq(Seq(S))
    PROVE  /\ FlattenSeq(ss) \in Seq(S)
           /\ \E e \in [0 .. Len(ss) -> Nat] :
                /\ e[0] = 0 /\ Len(FlattenSeq(ss)) = e[Len(ss)]
                /\ \A j \in 0 .. Len(ss) - 1 :
                     /\ e[j + 1] = e[j] + Len(ss[j + 1]) /\ e[j + 1] <= e[Len(ss)]
                     /\ \A i \in 1 .. Len(ss[j + 1]) : FlattenSeq(ss)[e[j] + i] = ss[j + 1][i]
  <1> DEFINE n == Len(ss)
  <1>1. n \in Nat /\ \A i \in 1 .. n : ss[i] \in Seq(S) /\ Len(ss[i]) \in Nat
    BY ElementOfSeq
  <1>2. CASE n = 0
    <2> DEFINE e == [j \in 0 .. 0 |-> 0]
    <2>1. ss = <<>>
      BY <1>2, EmptySeq
    <2>2. FlattenSeq(ss) = <<>>
      BY <1>2, <2>1 DEF FlattenSeq
    <2>3. e \in [0 .. n -> Nat] /\ e[0] = 0 /\ e[n] = 0 /\ \A j \in 0 .. n - 1 : FALSE
      BY <1>2
    <2> HIDE DEF e, n
    <2>4. Len(FlattenSeq(ss)) = 0 /\ FlattenSeq(ss) \in Seq(S)
      BY <2>2, EmptySeq
    <2> QED
      BY <2>3, <2>4 DEF n
  <1>3. CASE n # 0
    <2>1. PICK f \in [1 .. n -> Seq(S)] :
            /\ FlattenSeq(ss) = f[n] /\ f[1] = ss[1]
            /\ \A i \in 1 .. n - 1 : f[i + 1] = f[i] \o ss[i + 1]
      BY <1>3, FlattenParts
    <2> DEFINE e == [j \in 0 .. n |-> IF j = 0 THEN 0 ELSE Len(f[j])]
    <2> HIDE DEF n
    <2>2. e \in [0 .. n -> Nat]
      <3>1. \A j \in 0 .. n : j = 0 \/ j \in 1 .. n
        BY <1>1
      <3>2. \A j \in 1 .. n : Len(f[j]) \in Nat
        BY <2>1
      <3> QED
        BY <3>1, <3>2
    <2>3. e[0] = 0 /\ \A j \in 1 .. n : e[j] = Len(f[j])
      BY <1>1
    <2> HIDE DEF e
    <2>4. ASSUME NEW j \in 0 .. n - 1
          PROVE  /\ e[j + 1] = e[j] + Len(ss[j + 1])
                 /\ \A i \in 1 .. Len(ss[j + 1]) : f[j + 1][e[j] + i] = ss[j + 1][i]
      <3>1. CASE j = 0
        <4>1. e[1] = Len(ss[1]) /\ f[1] = ss[1] /\ 1 \in 1 .. n
          BY <1>1, <1>3, <2>1, <2>3
        <4>2. \A i \in 1 .. Len(ss[1]) : 0 + i = i
          BY <1>1, <4>1
        <4>3. j + 1 = 1 /\ Len(ss[1]) \in Nat
          BY <1>1, <3>1, <4>1
        <4> QED
          BY <2>3, <3>1, <4>1, <4>2, <4>3
      <3>2. CASE j # 0
        <4>1. j \in 1 .. n /\ j \in 1 .. n - 1 /\ j + 1 \in 1 .. n
          BY <1>1, <3>2
        <4>2. f[j + 1] = f[j] \o ss[j + 1] /\ f[j] \in Seq(S) /\ ss[j + 1] \in Seq(S)
          BY <1>1, <2>1, <4>1
        <4>3. /\ Len(f[j + 1]) = Len(f[j]) + Len(ss[j + 1])
              /\ \A i \in 1 .. Len(ss[j + 1]) : f[j + 1][Len(f[j]) + i] = ss[j + 1][i]
          <5> DEFINE a == f[j]
                     b == ss[j + 1]
          <5>1. a \in Seq(S) /\ b \in Seq(S)
            BY <4>2
          <5> HIDE DEF a, b
          <5>2. /\ Len(a \o b) = Len(a) + Len(b)
                /\ \A i \in 1 .. Len(b) : (a \o b)[Len(a) + i] = b[i]
            BY <5>1
          <5> QED
            BY <4>2, <5>2 DEF a, b
        <4> QED
          BY <2>3, <4>1, <4>3
      <3> QED
        BY <3>1, <3>2
    <2>5. ASSUME NEW j \in 0 .. n - 1
          PROVE  /\ e[j + 1] <= e[n]
                 /\ \A i \in 1 .. Len(ss[j + 1]) : f[n][e[j] + i] = ss[j + 1][i]
      <3> DEFINE G == {m \in 1 .. n + 1 :
                         m = n + 1 \/ /\ e[j + 1] <= e[m]
                                      /\ \A i \in 1 .. Len(ss[j + 1]) : f[m][e[j] + i] = ss[j + 1][i]}
      <3>1. j + 1 \in 1 .. n /\ j + 1 \in 1 .. n + 1 /\ e[j + 1] \in Nat /\ j \in 0 .. n
        BY <1>1, <2>2
      <3>2. j + 1 \in G
        BY <2>4, <3>1
      <3>3. ASSUME NEW m \in j + 1 .. n, m \in G PROVE m + 1 \in G
        <4>1. CASE m + 1 = n + 1
          BY <1>1, <4>1
        <4>2. CASE m + 1 # n + 1
          <5>1. m \in 1 .. n /\ m \in 1 .. n - 1 /\ m + 1 \in 1 .. n /\ m # n + 1 /\ m + 1 \in 1 .. n + 1
                /\ m \in 0 .. n - 1 /\ m \in 0 .. n /\ m + 1 \in 0 .. n
            BY <1>1, <3>1, <4>2
          <5>2. f[m + 1] = f[m] \o ss[m + 1] /\ f[m] \in Seq(S) /\ ss[m + 1] \in Seq(S)
            BY <1>1, <2>1, <5>1
          <5>3. /\ e[j + 1] <= e[m]
                /\ \A i \in 1 .. Len(ss[j + 1]) : f[m][e[j] + i] = ss[j + 1][i]
            BY <3>3, <5>1
          <5>4. e[m + 1] = e[m] + Len(ss[m + 1]) /\ e[m] = Len(f[m])
            BY <2>3, <2>4, <5>1
          <5>5. /\ e[m] \in Nat /\ e[j] \in Nat /\ Len(ss[m + 1]) \in Nat
                /\ e[j + 1] = e[j] + Len(ss[j + 1]) /\ Len(ss[j + 1]) \in Nat
            BY <1>1, <2>2, <2>4, <3>1, <5>1
          <5>6. e[j + 1] <= e[m + 1]
            <6>1. \A x, y, z \in Nat : x <= y => x <= y + z
              OBVIOUS
            <6> QED
              BY <3>1, <5>3, <5>4, <5>5, <6>1
          <5>7. ASSUME NEW i \in 1 .. Len(ss[j + 1]) PROVE f[m + 1][e[j] + i] = ss[j + 1][i]
            <6> DEFINE a == f[m]
                       b == ss[m + 1]
            <6>1. a \in Seq(S) /\ b \in Seq(S)
              BY <5>2
            <6> HIDE DEF a, b
            <6>2. \A l \in 1 .. Len(a) : (a \o b)[l] = a[l]
              BY <6>1
            <6>3. e[j] + i \in 1 .. Len(a)
              BY <5>3, <5>4, <5>5 DEF a
            <6> QED
              BY <5>2, <5>3, <6>2, <6>3 DEF a, b
          <5> QED
            BY <5>1, <5>6, <5>7
        <4> QED
          BY <4>1, <4>2
      <3> HIDE DEF G
      <3>4. j + 1 \in Nat
        BY <3>1
      <3>5. \A m \in j + 1 .. n : m \in G
        BY <1>1, <3>2, <3>3, <3>4, UpTo
      <3>6. n \in j + 1 .. n /\ n # n + 1
        BY <1>1, <3>1
      <3> QED
        BY <3>5, <3>6 DEF G
    <2>6. n \in 1 .. n
      BY <1>1, <1>3
    <2>7. FlattenSeq(ss) \in Seq(S) /\ Len(FlattenSeq(ss)) = e[n]
      BY <2>1, <2>3, <2>6
    <2>8. \A j \in 0 .. n - 1 :
            /\ e[j + 1] = e[j] + Len(ss[j + 1]) /\ e[j + 1] <= e[n]
            /\ \A i \in 1 .. Len(ss[j + 1]) : FlattenSeq(ss)[e[j] + i] = ss[j + 1][i]
      BY <2>1, <2>4, <2>5
    <2> QED
      BY <2>2, <2>3, <2>7, <2>8 DEF n
  <1> QED
    BY <1>2, <1>3

\* Two sequences, one after the other.
LEMMA ConcatIs ==
    ASSUME NEW S, NEW a \in Seq(S), NEW b \in Seq(S)
    PROVE  /\ a \o b \in Seq(S) /\ Len(a) \in Nat /\ Len(b) \in Nat
           /\ Len(a \o b) = Len(a) + Len(b)
           /\ \A i \in 1 .. Len(a) : (a \o b)[i] = a[i]
           /\ \A i \in 1 .. Len(b) : (a \o b)[Len(a) + i] = b[i]
  <1>1. a \o b \in Seq(S) /\ Len(a) \in Nat /\ Len(b) \in Nat
    OBVIOUS
  <1>2. Len(a \o b) = Len(a) + Len(b)
    OBVIOUS
  <1>3. \A i \in 1 .. Len(a) : (a \o b)[i] = a[i]
    OBVIOUS
  <1>4. \A i \in 1 .. Len(b) : (a \o b)[Len(a) + i] = b[i]
    OBVIOUS
  <1> QED
    BY <1>1, <1>2, <1>3, <1>4

Bytes == 0 .. 255
Special == {FrameStart, FrameEnd, FrameEscape}

\* A special byte is coded by an escape and a byte that stands for no other.
LEMMA CodedIs ==
    ASSUME NEW b \in Bytes
    PROVE  /\ Coded(b) \in Seq(Bytes) /\ Len(Coded(b)) \in {1, 2}
           /\ b \notin Special => Len(Coded(b)) = 1 /\ Coded(b)[1] = b
           /\ b \in Special => /\ Len(Coded(b)) = 2 /\ Coded(b)[1] = FrameEscape
                               /\ Decoded(Coded(b)[2]) = {b}
  <1> USE DEF FrameStart, FrameEnd, FrameEscape, Bytes
  <1>1. CASE b = FrameStart
    <2>1. Coded(b) = <<252, 203>>
      BY <1>1 DEF Coded
    <2>2. Decoded(203) = {b}
      BY <1>1 DEF Decoded
    <2> DEFINE s == <<252, 203>>
    <2>3. s \in Seq(Bytes) /\ Len(s) = 2 /\ s[1] = 252 /\ s[2] = 203
      OBVIOUS
    <2>4. Coded(b) = s
      BY <2>1
    <2>5. b \in Special
      BY <1>1 DEF Special
    <2> HIDE DEF s
    <2> QED
      BY <2>2, <2>3, <2>4, <2>5
  <1>2. CASE b = FrameEnd
    <2>1. Coded(b) = <<252, 206>>
      BY <1>2 DEF Coded
    <2>2. Decoded(206) = {b}
      BY <1>2 DEF Decoded
    <2> DEFINE s == <<252, 206>>
    <2>3. s \in Seq(Bytes) /\ Len(s) = 2 /\ s[1] = 252 /\ s[2] = 206
      OBVIOUS
    <2>4. Coded(b) = s
      BY <2>1
    <2>5. b \in Special
      BY <1>2 DEF Special
    <2> HIDE DEF s
    <2> QED
      BY <2>2, <2>3, <2>4, <2>5
  <1>3. CASE b = FrameEscape
    <2>1. Coded(b) = <<252, 252>>
      BY <1>3 DEF Coded
    <2>2. Decoded(252) = {b}
      BY <1>3 DEF Decoded
    <2> DEFINE s == <<252, 252>>
    <2>3. s \in Seq(Bytes) /\ Len(s) = 2 /\ s[1] = 252 /\ s[2] = 252
      OBVIOUS
    <2>4. Coded(b) = s
      BY <2>1
    <2>5. b \in Special
      BY <1>3 DEF Special
    <2> HIDE DEF s
    <2> QED
      BY <2>2, <2>3, <2>4, <2>5
  <1>4. CASE b \notin Special
    <2>1. Coded(b) = <<b>>
      BY <1>4 DEF Coded, Special
    <2>2. <<b>> \in Seq(Bytes) /\ Len(<<b>>) = 1
      OBVIOUS
    <2> QED
      BY <1>4, <2>1, <2>2
  <1> QED
    BY <1>1, <1>2, <1>3, <1>4 DEF Special

\* What the decoder stores of a message, and how many bytes of its frame are read
\* when it has stored so much.
Whole(m) == m \o <<0, 0>>
Placed(m, at) ==
  /\ at \in [0 .. Len(m) + 2 -> Nat]
  /\ at[0] = 1 /\ Coding(m)[1] = FrameStart
  /\ at[Len(m) + 2] + 1 = Len(Coding(m)) /\ Coding(m)[Len(Coding(m))] = FrameEnd
  /\ \A j \in 0 .. Len(m) + 1 :
       /\ at[j + 1] = at[j] + Len(Coded(Whole(m)[j + 1])) /\ at[j + 1] < Len(Coding(m))
       /\ \A i \in 1 .. Len(Coded(Whole(m)[j + 1])) :
            Coding(m)[at[j] + i] = Coded(Whole(m)[j + 1])[i]
Place(m) == CHOOSE at : Placed(m, at)

\* A message is bytes, and so is what the decoder stores of it.
LEMMA WholeIs ==
    ASSUME NEW m \in Messages
    PROVE  /\ m \in Seq(Bytes) /\ Len(m) \in Nat /\ Len(m) > 0
           /\ DOMAIN m = 1 .. Len(m) /\ \A i \in 1 .. Len(m) : m[i] \in Bytes
           /\ Whole(m) \in Seq(Bytes) /\ Len(Whole(m)) = Len(m) + 2
           /\ \A i \in 1 .. Len(m) : Whole(m)[i] = m[i]
           /\ Whole(m)[Len(m) + 1] = 0 /\ Whole(m)[Len(m) + 2] = 0
  <1>1. m \in Seq(Bytes) /\ m # <<>>
    BY FramesAssumption DEF Bytes
  <1>2. Len(m) \in Nat /\ Len(m) > 0 /\ DOMAIN m = 1 .. Len(m) /\ \A i \in 1 .. Len(m) : m[i] \in Bytes
    BY <1>1, EmptySeq, ElementOfSeq
  <1> DEFINE z == <<0, 0>>
  <1>3. z \in Seq(Bytes) /\ Len(z) = 2 /\ z[1] = 0 /\ z[2] = 0
    BY DEF Bytes
  <1> HIDE DEF z
  <1>4. /\ m \o z \in Seq(Bytes) /\ Len(m \o z) = Len(m) + 2
        /\ \A i \in 1 .. Len(m) : (m \o z)[i] = m[i]
        /\ \A i \in 1 .. 2 : (m \o z)[Len(m) + i] = z[i]
    <2>1. /\ m \o z \in Seq(Bytes) /\ Len(m \o z) = Len(m) + Len(z)
          /\ \A i \in 1 .. Len(m) : (m \o z)[i] = m[i]
          /\ \A i \in 1 .. Len(z) : (m \o z)[Len(m) + i] = z[i]
      <3>1. m \in Seq(Bytes) /\ z \in Seq(Bytes)
        BY <1>1, <1>3
      <3> QED
        BY ONLY <3>1, ConcatIs
    <2> QED
      BY <1>3, <2>1
  <1> QED
    BY <1>1, <1>2, <1>3, <1>4 DEF Whole, z

\* Coding sends the start, the bytes one by one, two more and the end.
LEMMA CodingIs ==
    ASSUME NEW m \in Messages
    PROVE  Coding(m) \in Seq(Bytes) /\ Placed(m, Place(m))
  <1> DEFINE L == Len(m)
             ss == [i \in DOMAIN m |-> Coded(m[i])]
             F == FlattenSeq(ss)
             a == <<FrameStart>>
             z == <<0, 0, FrameEnd>>
             c == Coding(m)
  <1>1. L \in Nat /\ L > 0 /\ DOMAIN m = 1 .. L /\ \A i \in 1 .. L : m[i] \in Bytes
    BY WholeIs
  <1>2. c = (a \o F) \o z
    BY DEF Coding
  <1> HIDE DEF L
  <1>3. ss \in Seq(Seq(Bytes)) /\ Len(ss) = L /\ \A i \in 1 .. L : ss[i] = Coded(m[i])
    <2>1. \A i \in 1 .. L : Coded(m[i]) \in Seq(Bytes)
      BY <1>1, CodedIs
    <2> QED
      BY <1>1, <2>1
  <1> HIDE DEF ss
  <1>4. F \in Seq(Bytes)
    BY <1>3, FlattenPlaces
  <1>5. PICK e \in [0 .. L -> Nat] :
          /\ e[0] = 0 /\ Len(F) = e[L]
          /\ \A j \in 0 .. L - 1 :
               /\ e[j + 1] = e[j] + Len(ss[j + 1]) /\ e[j + 1] <= e[L]
               /\ \A i \in 1 .. Len(ss[j + 1]) : F[e[j] + i] = ss[j + 1][i]
    BY <1>3, FlattenPlaces
  <1>6. a \in Seq(Bytes) /\ Len(a) = 1 /\ a[1] = FrameStart
    BY DEF Bytes, FrameStart
  <1>7. z \in Seq(Bytes) /\ Len(z) = 3 /\ z[1] = 0 /\ z[2] = 0 /\ z[3] = FrameEnd
    BY DEF Bytes, FrameEnd
  <1> HIDE DEF F, a, z, c
  <1>8. /\ a \o F \in Seq(Bytes) /\ Len(a \o F) = 1 + e[L] /\ (a \o F)[1] = FrameStart
        /\ \A i \in 1 .. e[L] : (a \o F)[1 + i] = F[i]
    <2>1. 1 \in 1 .. 1
      OBVIOUS
    <2> QED
      BY <1>4, <1>5, <1>6, <2>1, ConcatIs
  <1>9. /\ c \in Seq(Bytes) /\ Len(c) = e[L] + 4
        /\ c[1] = FrameStart /\ c[e[L] + 2] = 0 /\ c[e[L] + 3] = 0 /\ c[e[L] + 4] = FrameEnd
        /\ \A i \in 1 .. e[L] : c[1 + i] = F[i]
    <2> DEFINE b == a \o F
    <2>1. b \in Seq(Bytes) /\ Len(b) = 1 + e[L] /\ e[L] \in Nat /\ c = b \o z
      BY <1>1, <1>2, <1>5, <1>8
    <2>2. b[1] = FrameStart /\ \A i \in 1 .. e[L] : b[1 + i] = F[i]
      BY <1>8
    <2> HIDE DEF b
    <2>3. /\ b \o z \in Seq(Bytes) /\ Len(b \o z) = Len(b) + 3
          /\ \A i \in 1 .. Len(b) : (b \o z)[i] = b[i]
          /\ \A i \in 1 .. 3 : (b \o z)[Len(b) + i] = z[i]
      <3>1. /\ b \o z \in Seq(Bytes) /\ Len(b \o z) = Len(b) + Len(z)
            /\ \A i \in 1 .. Len(b) : (b \o z)[i] = b[i]
            /\ \A i \in 1 .. Len(z) : (b \o z)[Len(b) + i] = z[i]
        <4>1. b \in Seq(Bytes) /\ z \in Seq(Bytes)
          BY <1>7, <2>1
        <4> QED
          BY ONLY <4>1, ConcatIs
      <3> QED
        BY <1>7, <3>1
    <2>4. /\ Len(b) + 1 = e[L] + 2 /\ Len(b) + 2 = e[L] + 3 /\ Len(b) + 3 = e[L] + 4
          /\ 1 \in 1 .. Len(b) /\ \A i \in 1 .. e[L] : 1 + i \in 1 .. Len(b)
          /\ 1 \in 1 .. 3 /\ 2 \in 1 .. 3 /\ 3 \in 1 .. 3
      BY <2>1
    <2> QED
      BY <1>7, <2>1, <2>2, <2>3, <2>4
  <1> DEFINE at == [j \in 0 .. L + 2 |-> IF j <= L THEN 1 + e[j] ELSE 1 + e[L] + (j - L)]
             w == Whole(m)
  <1>10. /\ at \in [0 .. L + 2 -> Nat] /\ at[0] = 1 /\ at[L + 2] + 1 = Len(c)
         /\ at[L] = 1 + e[L] /\ at[L + 1] = e[L] + 2 /\ at[L + 2] = e[L] + 3
         /\ \A j \in 0 .. L : at[j] = 1 + e[j]
    <2>1. \A j \in 0 .. L : j \in 0 .. L + 2 /\ j <= L /\ e[j] \in Nat
      BY <1>1, <1>5
    <2>2. L + 1 \in 0 .. L + 2 /\ ~(L + 1 <= L) /\ L + 2 \in 0 .. L + 2 /\ ~(L + 2 <= L)
          /\ L \in 0 .. L /\ 0 \in 0 .. L /\ (L + 1) - L = 1 /\ (L + 2) - L = 2 /\ e[L] \in Nat
      BY <1>1, <1>5
    <2>3. at \in [0 .. L + 2 -> Nat]
      <3>1. ASSUME NEW j \in 0 .. L + 2
            PROVE  (IF j <= L THEN 1 + e[j] ELSE 1 + e[L] + (j - L)) \in Nat
        <4>1. CASE j <= L
          <5>1. j \in 0 .. L /\ e[j] \in Nat
            BY <1>1, <1>5, <4>1
          <5> QED
            BY <4>1, <5>1
        <4>2. CASE ~(j <= L)
          <5>1. j - L \in Nat /\ e[L] \in Nat
            BY <1>1, <2>2, <4>2
          <5> QED
            BY <4>2, <5>1
        <4> QED
          BY <4>1, <4>2
      <3> QED
        BY <3>1
    <2>4. at[L + 1] = 1 + e[L] + 1 /\ at[L + 2] = 1 + e[L] + 2
      BY <2>2
    <2>5. \A j \in 0 .. L : at[j] = 1 + e[j]
      BY <2>1
    <2> HIDE DEF at
    <2>6. at[0] = 1 /\ at[L] = 1 + e[L]
      BY <1>5, <2>2, <2>5
    <2>7. at[L + 1] = e[L] + 2 /\ at[L + 2] = e[L] + 3
      BY <2>2, <2>4
    <2>8. at[L + 2] + 1 = Len(c)
      BY <1>9, <2>2, <2>7
    <2> QED
      BY <2>3, <2>5, <2>6, <2>7, <2>8
  <1>11. /\ \A i \in 1 .. L : w[i] = m[i]
         /\ w[L + 1] = 0 /\ w[L + 2] = 0
    BY WholeIs DEF L
  <1>12. Len(Coded(0)) = 1 /\ Coded(0)[1] = 0
    <2>1. 0 \in Bytes /\ 0 \notin Special
      BY DEF Bytes, Special, FrameStart, FrameEnd, FrameEscape
    <2> QED
      BY <2>1, CodedIs
  <1> HIDE DEF at, w
  <1>13. ASSUME NEW j \in 0 .. L + 1
         PROVE  /\ at[j + 1] = at[j] + Len(Coded(w[j + 1])) /\ at[j + 1] < Len(c)
                /\ \A i \in 1 .. Len(Coded(w[j + 1])) : c[at[j] + i] = Coded(w[j + 1])[i]
    <2>0. e[L] \in Nat /\ L \in 0 .. L
      BY <1>1, <1>5
    <2>1. CASE j \in 0 .. L - 1
      <3>1. j \in 0 .. L /\ j + 1 \in 0 .. L /\ j + 1 \in 1 .. L
        BY <1>1, <2>1
      <3>2. ss[j + 1] = Coded(w[j + 1]) /\ Len(ss[j + 1]) \in Nat
        BY <1>1, <1>3, <1>11, <3>1, CodedIs
      <3>3. /\ e[j + 1] = e[j] + Len(ss[j + 1]) /\ e[j + 1] <= e[L]
            /\ \A i \in 1 .. Len(ss[j + 1]) : F[e[j] + i] = ss[j + 1][i]
        BY <1>5, <2>1
      <3>4. at[j] = 1 + e[j] /\ at[j + 1] = 1 + e[j + 1] /\ e[j] \in Nat /\ e[j + 1] \in Nat
        BY <1>5, <1>10, <3>1
      <3>5. at[j + 1] = at[j] + Len(ss[j + 1]) /\ at[j + 1] < Len(c)
        <4>1. \A x, y, t \in Nat :
                x + y <= t => 1 + (x + y) = (1 + x) + y /\ 1 + (x + y) < t + 4
          OBVIOUS
        <4>2. Len(c) = e[L] + 4 /\ e[j] + Len(ss[j + 1]) <= e[L]
          BY <1>9, <3>3
        <4> QED
          BY <2>0, <3>2, <3>3, <3>4, <4>1, <4>2
      <3>6. ASSUME NEW i \in 1 .. Len(ss[j + 1]) PROVE c[at[j] + i] = ss[j + 1][i]
        <4>1. e[j] + i \in 1 .. e[L] /\ at[j] + i = 1 + (e[j] + i)
          <5> DEFINE x == e[j]
                     y == Len(ss[j + 1])
                     t == e[L]
          <5>1. x \in Nat /\ y \in Nat /\ t \in Nat /\ x + y <= t /\ i \in 1 .. y /\ at[j] = 1 + x
            BY <2>0, <3>2, <3>3, <3>4
          <5> HIDE DEF x, y, t
          <5>2. x + i \in 1 .. t /\ (1 + x) + i = 1 + (x + i)
            BY <5>1
          <5> QED
            BY <5>1, <5>2 DEF x, t
        <4> QED
          BY <1>9, <3>3, <4>1
      <3> QED
        BY <3>2, <3>5, <3>6
    <2>2. CASE j = L
      <3>1. w[j + 1] = 0 /\ at[j] + 1 = e[L] + 2 /\ at[j + 1] = e[L] + 2
        BY <1>10, <1>11, <2>0, <2>2
      <3>2. e[L] + 2 < Len(c) /\ c[at[j] + 1] = 0
        BY <1>9, <2>0, <3>1
      <3>3. \A i \in 1 .. 1 : i = 1
        OBVIOUS
      <3> QED
        BY <1>12, <3>1, <3>2, <3>3
    <2>3. CASE j = L + 1
      <3>1. j + 1 = L + 2
        BY <1>1, <2>3
      <3>2. w[j + 1] = 0 /\ at[j] + 1 = e[L] + 3 /\ at[j + 1] = e[L] + 3
        BY <1>10, <1>11, <2>0, <2>3, <3>1
      <3>3. e[L] + 3 < Len(c) /\ c[at[j] + 1] = 0
        BY <1>9, <2>0, <3>2
      <3>4. \A i \in 1 .. 1 : i = 1
        OBVIOUS
      <3> QED
        BY <1>12, <3>2, <3>3, <3>4
    <2> QED
      BY <1>1, <2>1, <2>2, <2>3
  <1>14. Placed(m, at)
    <2>1. c[Len(c)] = FrameEnd
      BY <1>9
    <2> QED
      BY <1>9, <1>10, <1>13, <2>1 DEF Placed, L, c, w
  <1>15. Placed(m, Place(m))
    BY <1>14 DEF Place
  <1> QED
    BY <1>9, <1>15 DEF c

\* How much of the frame it is in the decoder has read.
ReadOf(m, s, b) ==
  IF s = "unknown" THEN 0 ELSE Place(m)[Len(b)] + (IF s = "escape" THEN 1 ELSE 0)
Coming == Len(got) + 1
ReadSoFar == ReadOf(frames[Coming], bps, body)

\* All bytes that were sent, read or not, and where each frame starts in them.
Sent(w, start) ==
  /\ w \in Seq(Bytes) /\ start \in [1 .. Len(frames) + 1 -> Nat]
  /\ start[Len(frames) + 1] = Len(w)
  /\ \A f \in 1 .. Len(frames) :
       /\ start[f] < start[f + 1] /\ start[f + 1] <= start[f] + Len(Coding(frames[f]))
       /\ start[f + 1] <= Len(w)
       /\ start[f + 1] # start[f] + Len(Coding(frames[f])) => cut
       /\ \A i \in 1 .. start[f + 1] - start[f] : w[start[f] + i] = Coding(frames[f])[i]

\* The socket holds those behind what the decoder has read of the next frame.
Unread(w, start) ==
  /\ start[Coming] + ReadSoFar + Len(socket) = Len(w)
  /\ \A i \in 1 .. Len(socket) : socket[i] = w[start[Coming] + ReadSoFar + i]
  /\ bps # "unknown" => start[Coming] + ReadSoFar <= start[Coming + 1]

FramesTypes ==
  /\ socket \in Seq(Bytes) /\ frames \in Seq(Messages) /\ got \in Seq(Messages) /\ body \in Seq(Bytes)
  /\ bps \in {"unknown", "body", "escape"} /\ cut \in BOOLEAN /\ exited \in BOOLEAN

Delivered == Len(got) <= Len(frames) /\ \A i \in 1 .. Len(got) : got[i] = frames[i]

\* What the decoder stores is the start of the next message.
Storing ==
  bps # "unknown" =>
    /\ Len(got) < Len(frames)
    /\ LET x == Whole(frames[Coming])
       IN  /\ Len(body) <= Len(x) /\ \A i \in 1 .. Len(body) : body[i] = x[i]
           /\ bps = "escape" => Len(body) < Len(x) /\ Len(Coded(x[Len(body) + 1])) = 2

FramesInv ==
  /\ FramesTypes /\ Delivered /\ ExitExplained
  /\ ~exited => Storing /\ \E w, start : Sent(w, start) /\ Unread(w, start)

\* The marks of a frame differ, and a start stands for no coded byte.
LEMMA MarksDiffer ==
    /\ FrameStart # FrameEnd /\ FrameStart # FrameEscape /\ FrameEnd # FrameEscape
    /\ Decoded(FrameStart) = {} /\ 0 \notin Special
    /\ FrameStart \in Bytes /\ FrameStart \in Special /\ FrameEnd \in Special /\ FrameEscape \in Special
  BY DEF FrameStart, FrameEnd, FrameEscape, Decoded, Special, Bytes

\* What is known of the next message while there is one.
LEMMA NextIs ==
    ASSUME FramesTypes, Delivered, Len(got) < Len(frames)
    PROVE  /\ Len(got) \in Nat /\ Len(frames) \in Nat /\ Len(body) \in Nat /\ Len(socket) \in Nat
           /\ Coming \in 1 .. Len(frames) /\ Coming \in 1 .. Len(frames) + 1 /\ Coming + 1 \in 1 .. Len(frames) + 1
           /\ frames[Coming] \in Messages
  <1>1. Len(got) \in Nat /\ Len(frames) \in Nat /\ Len(body) \in Nat /\ Len(socket) \in Nat
    BY DEF FramesTypes
  <1>2. Coming \in 1 .. Len(frames) /\ Coming \in 1 .. Len(frames) + 1 /\ Coming + 1 \in 1 .. Len(frames) + 1
    BY <1>1 DEF Coming
  <1>3. frames[Coming] \in Messages
    BY <1>2, ElementOfSeq DEF FramesTypes
  <1> QED
    BY <1>1, <1>2, <1>3

\* Where the decoder is in the frame of a message, by what it has stored.
LEMMA PlaceIs ==
    ASSUME NEW m \in Messages
    PROVE  /\ Coding(m) \in Seq(Bytes) /\ Len(Coding(m)) \in Nat /\ Len(Coding(m)) > 0
           /\ Coding(m)[1] = FrameStart /\ Coding(m)[Len(Coding(m))] = FrameEnd
           /\ Len(Whole(m)) = Len(m) + 2
           /\ Place(m)[0] = 1 /\ Place(m)[Len(m) + 2] + 1 = Len(Coding(m))
           /\ \A j \in 0 .. Len(m) + 2 : Place(m)[j] \in Nat
           /\ \A j \in 0 .. Len(m) + 1 :
                /\ Whole(m)[j + 1] \in Bytes /\ Len(Coded(Whole(m)[j + 1])) \in {1, 2}
                /\ Place(m)[j + 1] = Place(m)[j] + Len(Coded(Whole(m)[j + 1]))
                /\ Place(m)[j + 1] < Len(Coding(m))
                /\ \A i \in 1 .. Len(Coded(Whole(m)[j + 1])) :
                     Coding(m)[Place(m)[j] + i] = Coded(Whole(m)[j + 1])[i]
  <1>1. Coding(m) \in Seq(Bytes) /\ Placed(m, Place(m))
    BY CodingIs
  <1>2. Len(m) \in Nat /\ Whole(m) \in Seq(Bytes) /\ Len(Whole(m)) = Len(m) + 2
    BY WholeIs
  <1>3. Place(m) \in [0 .. Len(m) + 2 -> Nat]
    BY <1>1 DEF Placed
  <1>4. \A j \in 0 .. Len(m) + 2 : Place(m)[j] \in Nat
    BY <1>3
  <1>5. Len(Coding(m)) \in Nat
    BY <1>1
  <1>6. Len(m) + 2 \in 0 .. Len(m) + 2 /\ Place(m)[Len(m) + 2] + 1 = Len(Coding(m))
    BY <1>1, <1>2 DEF Placed
  <1>7. Len(Coding(m)) > 0
    BY <1>4, <1>5, <1>6
  <1>8. ASSUME NEW j \in 0 .. Len(m) + 1
        PROVE  Whole(m)[j + 1] \in Bytes /\ Len(Coded(Whole(m)[j + 1])) \in {1, 2}
    <2>1. j + 1 \in 1 .. Len(Whole(m))
      BY <1>2
    <2>2. Whole(m)[j + 1] \in Bytes
      BY <1>2, <2>1, ElementOfSeq
    <2> QED
      BY <2>2, CodedIs
  <1> QED
    BY <1>1, <1>2, <1>4, <1>5, <1>6, <1>7, <1>8 DEF Placed

\* What is next on the socket: the byte of the frame behind what was read of it
\* or, when this frame was cut, the start of another.
LEMMA NextByte ==
    ASSUME FramesTypes, Delivered, Storing, NEW w, NEW start, Sent(w, start), Unread(w, start),
           socket # <<>>, ReadSoFar \in Nat
    PROVE  /\ Len(got) < Len(frames)
           /\ \/ /\ start[Coming] + ReadSoFar + 1 <= start[Coming + 1]
                 /\ Byte = Coding(frames[Coming])[ReadSoFar + 1]
              \/ cut /\ bps # "unknown" /\ Byte = FrameStart
              \/ ReadSoFar >= Len(Coding(frames[Coming]))
  <1>1. /\ Len(got) \in Nat /\ Len(frames) \in Nat /\ Len(socket) \in Nat /\ Len(socket) > 0
        /\ Byte = socket[1] /\ Len(w) \in Nat
    <2>1. Len(socket) \in Nat /\ Len(socket) # 0
      BY EmptySeq DEF FramesTypes
    <2>2. Byte = socket[1]
      BY DEF Byte
    <2> QED
      BY <2>1, <2>2 DEF FramesTypes, Sent
  <1> DEFINE r == ReadSoFar
             n == Len(frames)
  <1>2. /\ start \in [1 .. n + 1 -> Nat] /\ start[n + 1] = Len(w)
        /\ start[Coming] + r + Len(socket) = Len(w)
        /\ \A i \in 1 .. Len(socket) : socket[i] = w[start[Coming] + r + i]
    BY DEF Sent, Unread
  <1>3. r \in Nat /\ (bps = "unknown" => r = 0)
    BY DEF ReadSoFar, ReadOf
  <1> HIDE DEF r
  <1>4. Len(got) < n
    <2>1. SUFFICES ASSUME Len(got) = n PROVE FALSE
      BY <1>1 DEF Delivered
    <2>2. r = 0
      BY <1>1, <1>3, <2>1 DEF Storing
    <2>3. start[n + 1] + 0 + Len(socket) = Len(w)
      BY <1>2, <2>1, <2>2 DEF Coming
    <2> QED
      BY <1>1, <1>2, <2>3
  <1>5. Coming \in 1 .. n /\ Coming + 1 \in 1 .. n + 1 /\ frames[Coming] \in Messages /\ Coming \in Nat
    BY <1>1, <1>4, NextIs
  <1>6. start[Coming] \in Nat /\ start[Coming + 1] \in Nat
    <2>1. \A f \in 1 .. n + 1 : start[f] \in Nat
      BY <1>2
    <2>2. Coming \in 1 .. n + 1 /\ Coming + 1 \in 1 .. n + 1
      BY <1>1, <1>5
    <2> QED
      BY ONLY <2>1, <2>2
  <1>7. /\ start[Coming] < start[Coming + 1]
        /\ start[Coming + 1] <= start[Coming] + Len(Coding(frames[Coming]))
        /\ start[Coming + 1] # start[Coming] + Len(Coding(frames[Coming])) => cut
        /\ \A i \in 1 .. start[Coming + 1] - start[Coming] :
             w[start[Coming] + i] = Coding(frames[Coming])[i]
    BY <1>5 DEF Sent
  <1>8. Len(Coding(frames[Coming])) \in Nat
    BY <1>5, PlaceIs
  <1>9. Byte = w[start[Coming] + (r + 1)]
    <2>1. 1 \in 1 .. Len(socket)
      BY <1>1
    <2>2. \A x, y \in Nat : x + y + 1 = x + (y + 1)
      OBVIOUS
    <2>3. start[Coming] + r + 1 = start[Coming] + (r + 1)
      BY <1>3, <1>6, <2>2
    <2> QED
      BY <1>1, <1>2, <2>1, <2>3
  <1>10. CASE start[Coming] + r < start[Coming + 1]
    <2>1. start[Coming] + r + 1 <= start[Coming + 1] /\ r + 1 \in 1 .. start[Coming + 1] - start[Coming]
      BY <1>3, <1>6, <1>10
    <2> QED
      BY <1>4, <1>7, <1>9, <2>1 DEF r
  <1>11. CASE ~(start[Coming] + r < start[Coming + 1]) /\ r < Len(Coding(frames[Coming]))
    <2>1. r # 0
      BY <1>3, <1>6, <1>7, <1>11
    <2>2. bps # "unknown" /\ start[Coming] + r <= start[Coming + 1]
      BY <1>3, <2>1 DEF Unread, r
    <2>3. start[Coming] + r = start[Coming + 1]
      BY <1>3, <1>6, <1>11, <2>2
    <2>4. cut
      BY <1>3, <1>6, <1>7, <1>8, <1>11, <2>3
    <2>5. Coming + 1 # n + 1
      BY <1>1, <1>2, <1>6, <2>3
    <2>6. Coming + 1 \in 1 .. n /\ (Coming + 1) + 1 \in 1 .. n + 1 /\ frames[Coming + 1] \in Messages
      <3>1. Coming + 1 \in 1 .. n /\ (Coming + 1) + 1 \in 1 .. n + 1
        BY <1>1, <1>5, <2>5
      <3> QED
        BY <3>1, ElementOfSeq DEF FramesTypes
    <2>7. start[(Coming + 1) + 1] \in Nat /\ start[Coming + 1] < start[(Coming + 1) + 1]
          /\ \A i \in 1 .. start[(Coming + 1) + 1] - start[Coming + 1] :
               w[start[Coming + 1] + i] = Coding(frames[Coming + 1])[i]
      BY <1>2, <2>6 DEF Sent
    <2>8. 1 \in 1 .. start[(Coming + 1) + 1] - start[Coming + 1]
      BY <1>6, <2>7
    <2>9. w[start[Coming + 1] + 1] = FrameStart
      BY <2>6, <2>7, <2>8, PlaceIs
    <2>10. start[Coming] + (r + 1) = start[Coming + 1] + 1
      BY <1>3, <1>6, <2>3
    <2> QED
      BY <1>4, <1>9, <2>2, <2>4, <2>9, <2>10 DEF r
  <1> QED
    BY <1>3, <1>4, <1>8, <1>10, <1>11 DEF r

\* How much the decoder has read is a number, and less than the frame.
LEMMA ReadIs ==
    ASSUME FramesTypes, Delivered, Storing
    PROVE  /\ ReadSoFar \in Nat
           /\ Len(got) < Len(frames) => ReadSoFar < Len(Coding(frames[Coming]))
  <1>1. CASE bps = "unknown"
    <2>1. ReadSoFar = 0
      BY <1>1 DEF ReadSoFar, ReadOf
    <2>2. ASSUME Len(got) < Len(frames) PROVE 0 < Len(Coding(frames[Coming]))
      BY <2>2, NextIs, PlaceIs
    <2> QED
      BY <2>1, <2>2
  <1>2. CASE bps # "unknown"
    <2> DEFINE m == frames[Coming]
               p == Place(m)[Len(body)]
    <2>1. /\ Len(got) < Len(frames) /\ Len(body) <= Len(Whole(m))
          /\ bps = "escape" => Len(body) < Len(Whole(m)) /\ Len(Coded(Whole(m)[Len(body) + 1])) = 2
      BY <1>2 DEF Storing
    <2>2. m \in Messages /\ Len(body) \in Nat
      BY <2>1, NextIs
    <2>3. Len(m) \in Nat /\ Len(Whole(m)) = Len(m) + 2
      BY <2>2, WholeIs
    <2>4. Len(body) \in 0 .. Len(m) + 2
      BY <2>1, <2>2, <2>3
    <2>5. p \in Nat /\ Len(Coding(m)) \in Nat
      BY <2>2, <2>4, PlaceIs
    <2>6. CASE bps = "escape"
      <3>1. Len(body) \in 0 .. Len(m) + 1 /\ Len(Coded(Whole(m)[Len(body) + 1])) = 2
        BY <2>1, <2>2, <2>3, <2>6
      <3>2. Place(m)[Len(body) + 1] = p + 2 /\ Place(m)[Len(body) + 1] < Len(Coding(m))
        BY <2>2, <3>1, PlaceIs
      <3>3. ReadSoFar = p + 1
        BY <1>2, <2>6 DEF ReadSoFar, ReadOf
      <3> HIDE DEF p, m
      <3>4. p + 1 \in Nat /\ p + 1 < Len(Coding(m))
        BY <2>5, <3>2
      <3> QED
        BY <3>3, <3>4 DEF m
    <2>7. CASE bps # "escape"
      <3>1. ReadSoFar = p + 0
        BY <1>2, <2>7 DEF ReadSoFar, ReadOf
      <3>2. CASE Len(body) = Len(m) + 2
        <4>1. p + 1 = Len(Coding(m))
          BY <2>2, <3>2, PlaceIs
        <4> HIDE DEF p, m
        <4>2. p + 0 \in Nat /\ p + 0 < Len(Coding(m))
          BY <2>5, <4>1
        <4> QED
          BY <3>1, <4>2 DEF m
      <3>3. CASE Len(body) # Len(m) + 2
        <4>1. Len(body) \in 0 .. Len(m) + 1
          BY <2>2, <2>3, <2>4, <3>3
        <4>2. /\ Place(m)[Len(body) + 1] = p + Len(Coded(Whole(m)[Len(body) + 1]))
              /\ Place(m)[Len(body) + 1] < Len(Coding(m))
              /\ Len(Coded(Whole(m)[Len(body) + 1])) \in {1, 2}
          BY <2>2, <4>1, PlaceIs
        <4> HIDE DEF p, m
        <4>3. p + 0 \in Nat /\ p + 0 < Len(Coding(m))
          BY <2>5, <4>2
        <4> QED
          BY <3>1, <4>3 DEF m
      <3> QED
        BY <3>2, <3>3
    <2> QED
      BY <2>6, <2>7
  <1> QED
    BY <1>1, <1>2

\* Reading one more byte of a frame leaves what was sent where it is.
LEMMA MoreRead ==
    ASSUME FramesTypes, NEW w, NEW start, Sent(w, start), Unread(w, start),
           Read, SenderKept, got' = got, Len(got) < Len(frames), Delivered,
           ReadSoFar \in Nat, ReadSoFar' = ReadSoFar + 1,
           start[Coming] + ReadSoFar + 1 <= start[Coming + 1]
    PROVE  Sent(w, start)' /\ Unread(w, start)'
  <1>1. Sent(w, start)'
    BY DEF Sent, SenderKept
  <1>2. /\ socket # <<>> /\ socket' = Tail(socket) /\ Len(socket') = Len(socket) - 1
        /\ Len(socket) \in Nat /\ Len(socket) > 0
        /\ \A i \in 1 .. Len(socket') : socket'[i] = socket[i + 1]
    <2>1. socket \in Seq(Bytes) /\ socket # <<>> /\ socket' = Tail(socket)
      BY DEF FramesTypes, Read
    <2> QED
      BY <2>1
  <1>3. Coming' = Coming /\ Coming \in 1 .. Len(frames) + 1 /\ Coming + 1 \in 1 .. Len(frames) + 1
    BY NextIs DEF Coming
  <1>4. start[Coming] \in Nat /\ start[Coming + 1] \in Nat
    <2>1. start \in [1 .. Len(frames) + 1 -> Nat]
      BY DEF Sent
    <2>2. \A f \in 1 .. Len(frames) + 1 : start[f] \in Nat
      BY <2>1
    <2>3. Coming \in 1 .. Len(frames) + 1 /\ Coming + 1 \in 1 .. Len(frames) + 1
      BY <1>3
    <2> QED
      BY ONLY <2>2, <2>3
  <1> DEFINE s == start[Coming]
             r == ReadSoFar
  <1>5. s + r + Len(socket) = Len(w) /\ \A i \in 1 .. Len(socket) : socket[i] = w[s + r + i]
    BY DEF Unread
  <1>6. s \in Nat /\ r \in Nat /\ r' = r + 1 /\ s + r + 1 <= start[Coming + 1]
    BY <1>4
  <1>7. Unread(w, start)' <=>
          /\ s + r' + Len(socket') = Len(w)
          /\ \A i \in 1 .. Len(socket') : socket'[i] = w[s + r' + i]
          /\ bps' # "unknown" => s + r' <= start[Coming + 1]
    BY <1>3 DEF Unread
  <1> HIDE DEF s, r
  <1>8. \A x, y, z \in Nat : x + y + z = x + (y + 1) + (z - 1) /\ x + (y + 1) = x + y + 1
                             /\ x + (y + 1) + z = x + y + (z + 1)
    OBVIOUS
  <1>9. s + (r + 1) + (Len(socket) - 1) = Len(w) /\ s + (r + 1) <= start[Coming + 1]
    BY <1>2, <1>5, <1>6, <1>8
  <1>10. ASSUME NEW i \in 1 .. Len(socket') PROVE socket'[i] = w[s + (r + 1) + i]
    <2>1. i \in Nat /\ i + 1 \in 1 .. Len(socket) /\ socket'[i] = socket[i + 1]
      BY <1>2
    <2>2. s + (r + 1) + i = s + r + (i + 1)
      BY <1>6, <1>8, <2>1
    <2> QED
      BY <1>5, <2>1, <2>2
  <1> QED
    BY <1>1, <1>2, <1>6, <1>7, <1>9, <1>10

\* Reading keeps the types of what it leaves alone.
LEMMA ReadTypes ==
    ASSUME FramesTypes, Delivered, Read, SenderKept
    PROVE  /\ socket' \in Seq(Bytes) /\ frames' \in Seq(Messages) /\ cut' \in BOOLEAN /\ cut' = cut
           /\ frames' = frames /\ ~exited
           /\ got' = got => got' \in Seq(Messages) /\ Delivered' /\ Coming' = Coming
  <1>1. socket' \in Seq(Bytes)
    <2>1. socket \in Seq(Bytes) /\ socket # <<>> /\ socket' = Tail(socket)
      BY DEF FramesTypes, Read
    <2> QED
      BY <2>1
  <1> QED
    BY <1>1 DEF FramesTypes, Read, SenderKept, Delivered, Coming

\* The decoder stores the byte of the message that comes next.
LEMMA StoredKeeps ==
    ASSUME FramesTypes, Delivered, ExitExplained, Storing, Read, SenderKept,
           bps # "unknown", bps' = "body", NEW b, Stored(b),
           Len(body) < Len(Whole(frames[Coming])), b = Whole(frames[Coming])[Len(body) + 1],
           ReadSoFar + 1 = Place(frames[Coming])[Len(body) + 1]
    PROVE  FramesTypes' /\ Delivered' /\ ExitExplained' /\ Storing' /\ ReadSoFar' = ReadSoFar + 1
  <1> DEFINE m == frames[Coming]
             x == Whole(m)
  <1>1. Len(got) < Len(frames) /\ Len(body) <= Len(x) /\ \A i \in 1 .. Len(body) : body[i] = x[i]
    BY DEF Storing
  <1>2. m \in Messages /\ Len(body) \in Nat /\ Coming \in 1 .. Len(frames)
    BY <1>1, NextIs
  <1>3. x \in Seq(Bytes) /\ Len(x) = Len(m) + 2 /\ Len(m) \in Nat
    BY <1>2, WholeIs
  <1>4. Len(body) + 1 \in 1 .. Len(x) /\ Len(body) + 1 <= Len(x)
    BY <1>2, <1>3
  <1>5. b \in Bytes
    BY <1>3, <1>4, ElementOfSeq
  <1>6. body' = Append(body, b) /\ got' = got /\ exited' = (Len(body) + 1 >= MaxRcvBuf)
    BY DEF Stored
  <1>7. /\ body' \in Seq(Bytes) /\ Len(body') = Len(body) + 1
        /\ \A i \in 1 .. Len(body) : body'[i] = body[i]
        /\ body'[Len(body) + 1] = b
    <2>1. body \in Seq(Bytes)
      BY DEF FramesTypes
    <2> QED
      BY <1>5, <1>6, <2>1, AppendProperties
  <1>8. /\ frames' = frames /\ cut' = cut /\ Coming' = Coming /\ Delivered'
        /\ got' \in Seq(Messages) /\ socket' \in Seq(Bytes)
        /\ frames' \in Seq(Messages) /\ cut' \in BOOLEAN
    BY <1>6, ReadTypes
  <1>9. FramesTypes'
    BY <1>6, <1>7, <1>8 DEF FramesTypes
  <1>10. Storing'
    <2>1. \A i \in 1 .. Len(body) + 1 : body'[i] = x[i]
      <3>1. \A i \in 1 .. Len(body) + 1 : i \in 1 .. Len(body) \/ i = Len(body) + 1
        BY <1>2
      <3> HIDE DEF x
      <3> QED
        BY <1>1, <1>7, <3>1 DEF x
    <2>2. bps' # "escape" /\ Len(got') < Len(frames') /\ frames'[Coming'] = m
      BY <1>1, <1>6, <1>8
    <2> HIDE DEF m
    <2> QED
      BY <1>4, <1>7, <2>1, <2>2 DEF Storing
  <1>11. ReadSoFar' = ReadSoFar + 1
    <2>1. bps' # "unknown" /\ bps' # "escape" /\ frames'[Coming'] = m
      BY <1>8
    <2>2. ReadSoFar' = Place(m)[Len(body')] + 0
      BY <2>1 DEF ReadSoFar, ReadOf
    <2>3. Place(m)[Len(body) + 1] \in Nat
      <3>1. Len(body) + 1 \in 0 .. Len(m) + 2
        BY <1>2, <1>3, <1>4
      <3> QED
        BY <1>2, <3>1, PlaceIs
    <2> QED
      BY <1>7, <2>2, <2>3
  <1>12. ExitExplained'
    <2>1. CASE Len(body) + 1 >= MaxRcvBuf
      <3>1. ~(Len(m) + 2 < MaxRcvBuf)
        BY <1>2, <1>3, <1>4, <2>1, FramesAssumption
      <3>2. Coming \in DOMAIN frames
        BY <1>2 DEF FramesTypes
      <3> QED
        BY <1>8, <3>1, <3>2 DEF ExitExplained, Fits
    <2>2. CASE ~(Len(body) + 1 >= MaxRcvBuf)
      BY <1>6, <2>2 DEF ExitExplained
    <2> QED
      BY <2>1, <2>2
  <1> QED
    BY <1>8, <1>9, <1>10, <1>11, <1>12

\* What the next byte of a frame can be while the message is being stored.
LEMMA BodyByte ==
    ASSUME FramesTypes, Delivered, Storing, bps = "body",
           Byte = Coding(frames[Coming])[ReadSoFar + 1]
    PROVE  LET m == frames[Coming]
               x == Whole(m)
               j == Len(body)
           IN  \/ /\ j < Len(x) /\ j \in 0 .. Len(m) + 1 /\ x[j + 1] \in Bytes
                  /\ Byte = Coded(x[j + 1])[1] /\ ReadSoFar = Place(m)[j] /\ Byte \notin {FrameStart, FrameEnd}
                  /\ Byte = FrameEscape => Len(Coded(x[j + 1])) = 2
                  /\ Byte # FrameEscape => Len(Coded(x[j + 1])) = 1 /\ Byte = x[j + 1]
               \/ j = Len(x) /\ Byte = FrameEnd /\ ReadSoFar + 1 = Len(Coding(m))
  <1> DEFINE m == frames[Coming]
             x == Whole(m)
             j == Len(body)
             p == Place(m)[j]
  <1>1. Len(got) < Len(frames) /\ j <= Len(x)
    BY DEF Storing
  <1>2. m \in Messages /\ j \in Nat
    BY <1>1, NextIs
  <1>3. Len(x) = Len(m) + 2 /\ Len(m) \in Nat
    BY <1>2, WholeIs
  <1>4. j \in 0 .. Len(m) + 2
    BY <1>1, <1>2, <1>3
  <1>5. p \in Nat
    BY <1>2, <1>4, PlaceIs
  <1>6. ReadSoFar = p + 0
    BY DEF ReadSoFar, ReadOf
  <1>7. ReadSoFar = p
    <2> HIDE DEF p
    <2> QED
      BY <1>5, <1>6
  <1>8. CASE j = Len(x)
    <2>1. p + 1 = Len(Coding(m)) /\ Coding(m)[Len(Coding(m))] = FrameEnd
      BY <1>2, <1>3, <1>8, PlaceIs
    <2> QED
      BY <1>7, <1>8, <2>1
  <1>9. CASE j # Len(x)
    <2>1. j < Len(x) /\ j \in 0 .. Len(m) + 1
      BY <1>1, <1>2, <1>3, <1>9
    <2>2. /\ x[j + 1] \in Bytes /\ Len(Coded(x[j + 1])) \in {1, 2}
          /\ \A i \in 1 .. Len(Coded(x[j + 1])) : Coding(m)[p + i] = Coded(x[j + 1])[i]
      BY <1>2, <2>1, PlaceIs
    <2> DEFINE b == x[j + 1]
    <2>3. Byte = Coded(b)[1]
      <3>1. \A y \in {1, 2} : 1 \in 1 .. y
        OBVIOUS
      <3>2. 1 \in 1 .. Len(Coded(b))
        BY <2>2, <3>1
      <3> QED
        BY <1>7, <2>2, <3>2
    <2>4. b \in Bytes
      BY <2>2
    <2> HIDE DEF b
    <2>5. /\ Byte \notin {FrameStart, FrameEnd}
          /\ Byte = FrameEscape => Len(Coded(b)) = 2
          /\ Byte # FrameEscape => Len(Coded(b)) = 1 /\ Byte = b
      <3>1. CASE b \in Special
        BY <2>3, <2>4, <3>1, CodedIs, MarksDiffer
      <3>2. CASE b \notin Special
        BY <2>3, <2>4, <3>2, CodedIs, MarksDiffer
      <3> QED
        BY <3>1, <3>2
    <2>6. x[j + 1] = b
      BY DEF b
    <2> HIDE DEF x, m, j, p
    <2>7. /\ j < Len(x) /\ j \in 0 .. Len(m) + 1 /\ x[j + 1] \in Bytes
          /\ Byte = Coded(x[j + 1])[1] /\ ReadSoFar = p /\ Byte \notin {FrameStart, FrameEnd}
          /\ Byte = FrameEscape => Len(Coded(x[j + 1])) = 2
          /\ Byte # FrameEscape => Len(Coded(x[j + 1])) = 1 /\ Byte = x[j + 1]
      BY <1>7, <2>1, <2>3, <2>4, <2>5, <2>6
    <2> QED
      BY <2>7 DEF x, m, j, p
  <1> QED
    BY <1>8, <1>9

\* What a read finds.
LEMMA ReadFinds ==
    ASSUME FramesInv, Read
    PROVE  /\ FramesTypes /\ Delivered /\ ExitExplained /\ Storing /\ ~exited
           /\ Len(got) < Len(frames) /\ ReadSoFar \in Nat
           /\ \E w, start :
                /\ Sent(w, start) /\ Unread(w, start)
                /\ \/ /\ start[Coming] + ReadSoFar + 1 <= start[Coming + 1]
                      /\ Byte = Coding(frames[Coming])[ReadSoFar + 1]
                   \/ cut /\ bps # "unknown" /\ Byte = FrameStart
  <1>1. FramesTypes /\ Delivered /\ ExitExplained /\ ~exited /\ Storing /\ socket # <<>>
    BY DEF FramesInv, Read
  <1>2. PICK w, start : Sent(w, start) /\ Unread(w, start)
    BY <1>1 DEF FramesInv
  <1>3. ReadSoFar \in Nat /\ (Len(got) < Len(frames) => ReadSoFar < Len(Coding(frames[Coming])))
    BY <1>1, ReadIs
  <1>4. /\ Len(got) < Len(frames)
        /\ \/ /\ start[Coming] + ReadSoFar + 1 <= start[Coming + 1]
              /\ Byte = Coding(frames[Coming])[ReadSoFar + 1]
           \/ cut /\ bps # "unknown" /\ Byte = FrameStart
           \/ ReadSoFar >= Len(Coding(frames[Coming]))
    BY <1>1, <1>2, <1>3, NextByte
  <1>5. ~(ReadSoFar >= Len(Coding(frames[Coming])))
    <2>1. frames[Coming] \in Messages
      BY <1>1, <1>4, NextIs
    <2>2. Len(Coding(frames[Coming])) \in Nat
      BY <2>1, PlaceIs
    <2> QED
      BY <1>3, <1>4, <2>2
  <1> QED
    BY <1>1, <1>2, <1>3, <1>4, <1>5

\* A start opens the body of the next message.
LEMMA OutsideKeeps == ASSUME FramesInv, ReadOutside PROVE FramesInv'
  <1>1. Read /\ SenderKept /\ bps = "unknown" /\ body' = <<>> /\ got' = got /\ exited' = exited
        /\ bps' = (IF Byte = FrameStart THEN "body" ELSE "unknown")
    BY DEF ReadOutside
  <1>2. /\ FramesTypes /\ Delivered /\ ExitExplained /\ Storing /\ ~exited
        /\ Len(got) < Len(frames) /\ ReadSoFar \in Nat
    BY <1>1, ReadFinds
  <1>3. PICK w, start :
          /\ Sent(w, start) /\ Unread(w, start)
          /\ start[Coming] + ReadSoFar + 1 <= start[Coming + 1]
          /\ Byte = Coding(frames[Coming])[ReadSoFar + 1]
    BY <1>1, ReadFinds
  <1> DEFINE m == frames[Coming]
  <1>4. m \in Messages
    BY <1>2, NextIs
  <1>5. ReadSoFar = 0
    BY <1>1 DEF ReadSoFar, ReadOf
  <1>6. Byte = FrameStart
    BY <1>3, <1>4, <1>5, PlaceIs
  <1>7. /\ socket' \in Seq(Bytes) /\ frames' \in Seq(Messages) /\ cut' \in BOOLEAN /\ cut' = cut
        /\ frames' = frames /\ got' \in Seq(Messages) /\ Delivered' /\ Coming' = Coming
    BY <1>1, <1>2, ReadTypes
  <1>8. FramesTypes'
    BY <1>1, <1>2, <1>6, <1>7 DEF FramesTypes
  <1>9. ExitExplained'
    BY <1>1, <1>2, <1>7 DEF ExitExplained
  <1>10. Len(body') = 0 /\ 0 <= Len(Whole(m))
    <2>1. Whole(m) \in Seq(Bytes)
      BY <1>4, WholeIs
    <2>2. Len(Whole(m)) \in Nat
      BY <2>1
    <2> QED
      BY <1>1, <2>2
  <1>11. Storing'
    <2>1. Len(got') < Len(frames') /\ frames'[Coming'] = m
      BY <1>1, <1>2, <1>7
    <2>2. bps' # "escape" /\ \A i \in 1 .. 0 : FALSE
      BY <1>1, <1>6
    <2> HIDE DEF m
    <2> QED
      BY <1>10, <2>1, <2>2 DEF Storing
  <1>12. ReadSoFar' = ReadSoFar + 1
    <2>1. ReadSoFar' = Place(m)[0] + 0
      BY <1>1, <1>6, <1>7, <1>10 DEF ReadSoFar, ReadOf
    <2> QED
      BY <1>4, <1>5, <2>1, PlaceIs
  <1>13. Sent(w, start)' /\ Unread(w, start)'
    BY <1>1, <1>2, <1>3, <1>12, MoreRead
  <1> QED
    BY <1>7, <1>8, <1>9, <1>11, <1>13 DEF FramesInv

\* A byte that is no mark is stored as it is.
LEMMA BodyKeeps == ASSUME FramesInv, ReadBody PROVE FramesInv'
  <1>1. Read /\ SenderKept /\ bps = "body" /\ Byte \notin {FrameStart, FrameEnd, FrameEscape}
        /\ Stored(Byte) /\ bps' = bps
    BY DEF ReadBody
  <1>2. /\ FramesTypes /\ Delivered /\ ExitExplained /\ Storing /\ ~exited
        /\ Len(got) < Len(frames) /\ ReadSoFar \in Nat
    BY <1>1, ReadFinds
  <1>3. PICK w, start :
          /\ Sent(w, start) /\ Unread(w, start)
          /\ start[Coming] + ReadSoFar + 1 <= start[Coming + 1]
          /\ Byte = Coding(frames[Coming])[ReadSoFar + 1]
    BY <1>1, ReadFinds
  <1> DEFINE m == frames[Coming]
             x == Whole(m)
             j == Len(body)
  <1>4. /\ j < Len(x) /\ j \in 0 .. Len(m) + 1 /\ ReadSoFar = Place(m)[j]
        /\ Len(Coded(x[j + 1])) = 1 /\ Byte = x[j + 1]
    BY <1>1, <1>2, <1>3, BodyByte
  <1>5. m \in Messages
    BY <1>2, NextIs
  <1>6. ReadSoFar + 1 = Place(m)[j + 1]
    BY <1>4, <1>5, PlaceIs
  <1>7. FramesTypes' /\ Delivered' /\ ExitExplained' /\ Storing' /\ ReadSoFar' = ReadSoFar + 1
    BY <1>1, <1>2, <1>4, <1>6, StoredKeeps
  <1>8. Sent(w, start)' /\ Unread(w, start)'
    <2>1. got' = got
      BY <1>1 DEF Stored
    <2> QED
      BY <1>1, <1>2, <1>3, <1>7, <2>1, MoreRead
  <1> QED
    BY <1>7, <1>8 DEF FramesInv

\* An escape announces a byte that is coded by two.
LEMMA EscapeKeeps == ASSUME FramesInv, ReadEscape PROVE FramesInv'
  <1>1. Read /\ SenderKept /\ bps = "body" /\ Byte = FrameEscape
        /\ bps' = "escape" /\ body' = body /\ got' = got /\ exited' = exited
    BY DEF ReadEscape
  <1>2. /\ FramesTypes /\ Delivered /\ ExitExplained /\ Storing /\ ~exited
        /\ Len(got) < Len(frames) /\ ReadSoFar \in Nat
    BY <1>1, ReadFinds
  <1>3. PICK w, start :
          /\ Sent(w, start) /\ Unread(w, start)
          /\ start[Coming] + ReadSoFar + 1 <= start[Coming + 1]
          /\ Byte = Coding(frames[Coming])[ReadSoFar + 1]
    BY <1>1, ReadFinds, MarksDiffer
  <1> DEFINE m == frames[Coming]
             x == Whole(m)
             j == Len(body)
  <1>4. j < Len(x) /\ ReadSoFar = Place(m)[j] /\ Len(Coded(x[j + 1])) = 2
    BY <1>1, <1>2, <1>3, BodyByte, MarksDiffer
  <1>5. /\ socket' \in Seq(Bytes) /\ frames' \in Seq(Messages) /\ cut' \in BOOLEAN /\ cut' = cut
        /\ frames' = frames /\ got' \in Seq(Messages) /\ Delivered' /\ Coming' = Coming
    BY <1>1, <1>2, ReadTypes
  <1>6. FramesTypes'
    BY <1>1, <1>2, <1>5 DEF FramesTypes
  <1>7. ExitExplained'
    BY <1>1, <1>2, <1>5 DEF ExitExplained
  <1>8. Storing'
    BY <1>1, <1>2, <1>4, <1>5 DEF Storing
  <1>9. ReadSoFar' = ReadSoFar + 1
    BY <1>1, <1>4, <1>5 DEF ReadSoFar, ReadOf
  <1>10. Sent(w, start)' /\ Unread(w, start)'
    BY <1>1, <1>2, <1>3, <1>9, MoreRead
  <1> QED
    BY <1>5, <1>6, <1>7, <1>8, <1>10 DEF FramesInv

\* Behind an escape comes the byte that stands for the one to store, or the frame
\* was cut there.
LEMMA EscapedKeeps == ASSUME FramesInv, ReadEscaped PROVE FramesInv'
  <1>1. Read /\ SenderKept /\ bps = "escape" /\ bps' = "body"
    BY DEF ReadEscaped
  <1>2. /\ FramesTypes /\ Delivered /\ ExitExplained /\ Storing /\ ~exited
        /\ Len(got) < Len(frames) /\ ReadSoFar \in Nat
    BY <1>1, ReadFinds
  <1>3. PICK w, start :
          /\ Sent(w, start) /\ Unread(w, start)
          /\ \/ /\ start[Coming] + ReadSoFar + 1 <= start[Coming + 1]
                /\ Byte = Coding(frames[Coming])[ReadSoFar + 1]
             \/ cut /\ Byte = FrameStart
    BY <1>1, ReadFinds
  <1> DEFINE m == frames[Coming]
             x == Whole(m)
             j == Len(body)
             b == x[j + 1]
             p == Place(m)[j]
  <1>4. CASE cut /\ Byte = FrameStart
    <2>1. Decoded(Byte) = {}
      BY <1>4, MarksDiffer
    <2>2. exited' = TRUE /\ body' = body /\ got' = got
      BY <2>1 DEF ReadEscaped
    <2>3. /\ socket' \in Seq(Bytes) /\ frames' \in Seq(Messages) /\ cut' \in BOOLEAN /\ cut' = cut
          /\ got' \in Seq(Messages) /\ Delivered'
      BY <1>1, <1>2, <2>2, ReadTypes
    <2>4. FramesTypes'
      BY <1>1, <1>2, <2>2, <2>3 DEF FramesTypes
    <2>5. ExitExplained'
      BY <1>4, <2>3 DEF ExitExplained
    <2> QED
      BY <2>2, <2>3, <2>4, <2>5 DEF FramesInv
  <1>5. CASE /\ start[Coming] + ReadSoFar + 1 <= start[Coming + 1]
             /\ Byte = Coding(frames[Coming])[ReadSoFar + 1]
    <2>1. j < Len(x) /\ Len(Coded(b)) = 2
      <3>1. bps # "unknown"
        BY <1>1
      <3>2. bps = "escape" => j < Len(x) /\ Len(Coded(b)) = 2
        BY ONLY <1>2, <3>1 DEF Storing
      <3> QED
        BY <1>1, <3>2
    <2>2. m \in Messages /\ j \in Nat
      BY <1>2, NextIs
    <2>3. Len(x) = Len(m) + 2 /\ Len(m) \in Nat
      BY <2>2, WholeIs
    <2>4. j \in 0 .. Len(m) + 1 /\ j \in 0 .. Len(m) + 2
      BY <2>1, <2>2, <2>3
    <2>5. /\ b \in Bytes /\ Place(m)[j + 1] = p + 2 /\ p \in Nat
          /\ \A i \in 1 .. 2 : Coding(m)[p + i] = Coded(b)[i]
      BY <2>1, <2>2, <2>4, PlaceIs
    <2>6. ReadSoFar = p + 1
      BY <1>1 DEF ReadSoFar, ReadOf
    <2>7. b \in Special
      BY <2>1, <2>5, CodedIs
    <2> HIDE DEF p
    <2>8. ReadSoFar + 1 = p + 2 /\ 2 \in 1 .. 2
      BY <2>5, <2>6
    <2>9. Byte = Coded(b)[2]
      BY <1>5, <2>5, <2>8
    <2>10. Decoded(Byte) = {b}
      BY <2>5, <2>7, <2>9, CodedIs
    <2>11. Stored(b)
      BY <2>10 DEF ReadEscaped
    <2>12. ReadSoFar + 1 = Place(m)[j + 1]
      BY <2>5, <2>8
    <2>13. FramesTypes' /\ Delivered' /\ ExitExplained' /\ Storing' /\ ReadSoFar' = ReadSoFar + 1
      BY <1>1, <1>2, <2>1, <2>11, <2>12, StoredKeeps
    <2>14. got' = got
      BY <2>11 DEF Stored
    <2>15. Sent(w, start)' /\ Unread(w, start)'
      BY <1>1, <1>2, <1>3, <1>5, <2>13, <2>14, MoreRead
    <2> QED
      BY <2>13, <2>15 DEF FramesInv
  <1> QED
    BY <1>3, <1>4, <1>5

\* A start in a body shows that the frame before it was cut.
LEMMA StartKeeps == ASSUME FramesInv, ReadStart PROVE FramesInv'
  <1>1. Read /\ SenderKept /\ bps = "body" /\ Byte = FrameStart
        /\ exited' = TRUE /\ bps' = bps /\ body' = body /\ got' = got
    BY DEF ReadStart, decoder
  <1>2. FramesTypes /\ Delivered /\ Storing
    BY <1>1, ReadFinds
  <1>3. cut
    <2>1. ~(Byte = Coding(frames[Coming])[ReadSoFar + 1])
      BY <1>1, <1>2, BodyByte, MarksDiffer
    <2> QED
      BY <1>1, <2>1, ReadFinds
  <1>4. /\ socket' \in Seq(Bytes) /\ frames' \in Seq(Messages) /\ cut' \in BOOLEAN /\ cut' = cut
        /\ got' \in Seq(Messages) /\ Delivered'
    BY <1>1, <1>2, ReadTypes
  <1>5. FramesTypes'
    BY <1>1, <1>2, <1>4 DEF FramesTypes
  <1>6. ExitExplained'
    BY <1>3, <1>4 DEF ExitExplained
  <1> QED
    BY <1>1, <1>4, <1>5, <1>6 DEF FramesInv

\* The end of a frame passes on the message it held.
LEMMA EndKeeps == ASSUME FramesInv, ReadEnd PROVE FramesInv'
  <1>1. Read /\ SenderKept /\ bps = "body" /\ Byte = FrameEnd /\ bps' = "unknown" /\ body' = body
    BY DEF ReadEnd
  <1>2. /\ FramesTypes /\ Delivered /\ ExitExplained /\ Storing /\ ~exited
        /\ Len(got) < Len(frames) /\ ReadSoFar \in Nat
    BY <1>1, ReadFinds
  <1>3. PICK w, start :
          /\ Sent(w, start) /\ Unread(w, start)
          /\ start[Coming] + ReadSoFar + 1 <= start[Coming + 1]
          /\ Byte = Coding(frames[Coming])[ReadSoFar + 1]
    BY <1>1, ReadFinds, MarksDiffer
  <1> DEFINE m == frames[Coming]
             x == Whole(m)
             j == Len(body)
             r == ReadSoFar
  <1>4. j = Len(x) /\ r + 1 = Len(Coding(m))
    BY <1>1, <1>2, <1>3, BodyByte
  <1>5. /\ m \in Messages /\ Coming \in 1 .. Len(frames) /\ Coming \in 1 .. Len(frames) + 1
        /\ Coming + 1 \in 1 .. Len(frames) + 1 /\ Len(got) \in Nat /\ Len(frames) \in Nat
    BY <1>2, NextIs
  <1>6. /\ m \in Seq(Bytes) /\ Len(m) \in Nat /\ Len(x) = Len(m) + 2
        /\ \A i \in 1 .. Len(m) : x[i] = m[i]
    BY <1>5, WholeIs
  <1>7. Payload(body) = m
    <2>1. body \in Seq(Bytes) /\ Len(body) = Len(m) + 2
      BY <1>2, <1>4, <1>6 DEF FramesTypes
    <2>2. \A i \in 1 .. Len(body) : body[i] = x[i]
      BY <1>1, <1>2 DEF Storing
    <2>3. \A i \in 1 .. Len(m) : body[i] = m[i]
      <3>1. \A i \in 1 .. Len(m) : i \in 1 .. Len(m) + 2
        BY <1>6
      <3> HIDE DEF m, x
      <3> QED
        BY <1>6, <2>1, <2>2, <3>1
    <2> DEFINE s == SubSeq(body, 1, Len(body) - 2)
    <2>4. Len(body) - 2 = Len(m)
      BY <1>6, <2>1
    <2> HIDE DEF m
    <2>5. s = SubSeq(body, 1, Len(m))
      BY <2>4
    <2>6. s \in Seq(Bytes) /\ Len(s) = Len(m) /\ \A i \in 1 .. Len(m) : s[i] = body[i]
      <3>1. 1 \in 1 .. Len(body) + 1 /\ Len(m) \in 0 .. Len(body) /\ \A i \in 1 .. Len(m) : 1 + i - 1 = i
        BY <1>6, <2>1
      <3> QED
        BY <1>6, <2>1, <2>5, <3>1, SubSeqProperties
    <2> HIDE DEF s
    <2>7. s = m
      BY <1>6, <2>3, <2>6, SeqEqual
    <2> QED
      BY <2>7 DEF Payload, s
  <1>8. got' = Append(got, m) /\ exited' = exited
    <2>1. ~(Len(body) < 1)
      <3> HIDE DEF m, x
      <3> QED
        BY <1>4, <1>6
    <2> QED
      BY <1>7, <2>1 DEF ReadEnd
  <1>9. /\ got' \in Seq(Messages) /\ Len(got') = Len(got) + 1
        /\ \A i \in 1 .. Len(got) : got'[i] = got[i]
        /\ got'[Len(got) + 1] = m
    <2>1. got \in Seq(Messages)
      BY <1>2 DEF FramesTypes
    <2> QED
      BY <1>5, <1>8, <2>1, AppendProperties
  <1>10. /\ socket' \in Seq(Bytes) /\ frames' \in Seq(Messages) /\ cut' \in BOOLEAN /\ cut' = cut
         /\ frames' = frames
    BY <1>1, <1>2, ReadTypes
  <1>11. FramesTypes'
    BY <1>1, <1>2, <1>8, <1>9, <1>10 DEF FramesTypes
  <1>12. ExitExplained'
    BY <1>2, <1>8, <1>10 DEF ExitExplained
  <1>13. Storing'
    BY <1>1 DEF Storing
  <1>14. Delivered'
    <2>1. Len(got) + 1 <= Len(frames)
      BY <1>2, <1>5
    <2>2. ASSUME NEW i \in 1 .. Len(got) + 1 PROVE got'[i] = frames[i]
      <3>1. i \in 1 .. Len(got) \/ i = Len(got) + 1
        BY <1>5
      <3> QED
        BY <1>2, <1>9, <3>1 DEF Delivered, Coming
    <2> QED
      BY <1>9, <1>10, <2>1, <2>2 DEF Delivered
  <1>15. Sent(w, start)'
    BY <1>3, <1>10 DEF Sent
  <1>16. /\ Coming' = Coming + 1 /\ ReadSoFar' = 0
         /\ socket' = Tail(socket) /\ socket \in Seq(Bytes) /\ socket # <<>>
    BY <1>1, <1>2, <1>9 DEF Coming, ReadSoFar, ReadOf, FramesTypes, Read
  <1>17. /\ Len(socket') = Len(socket) - 1 /\ Len(socket) \in Nat /\ Len(socket) > 0
         /\ \A i \in 1 .. Len(socket') : socket'[i] = socket[i + 1]
    BY <1>16
  <1> DEFINE s == start[Coming]
             e == start[Coming + 1]
  <1>18. /\ s \in Nat /\ e \in Nat /\ r \in Nat /\ s + r + 1 <= e /\ e <= s + Len(Coding(m))
         /\ s + r + Len(socket) = Len(w)
         /\ \A i \in 1 .. Len(socket) : socket[i] = w[s + r + i]
    BY <1>2, <1>3, <1>5 DEF Sent, Unread
  <1>19. Unread(w, start)' <=>
           /\ e + 0 + Len(socket') = Len(w)
           /\ \A i \in 1 .. Len(socket') : socket'[i] = w[e + 0 + i]
    BY <1>1, <1>16 DEF Unread
  <1> HIDE DEF s, e, r, m, x, j
  <1>20. e = s + r + 1
    <2>1. \A y, z, l, u \in Nat : z + 1 = l /\ y + z + 1 <= u /\ u <= y + l => u = y + z + 1
      OBVIOUS
    <2>2. r + 1 \in Nat
      BY <1>18
    <2> QED
      BY <1>4, <1>18, <2>1, <2>2
  <1>21. e + 0 + Len(socket') = Len(w)
    <2> DEFINE K == Len(socket)
    <2>1. K \in Nat /\ K > 0 /\ s + r + K = Len(w) /\ Len(socket') = K - 1 /\ s \in Nat /\ r \in Nat
      BY <1>17, <1>18
    <2> HIDE DEF K
    <2>2. s + r + 1 + 0 + (K - 1) = s + r + K
      BY <2>1
    <2> QED
      BY <1>20, <2>1, <2>2
  <1>22. ASSUME NEW i \in 1 .. Len(socket') PROVE socket'[i] = w[e + 0 + i]
    <2>1. i + 1 \in 1 .. Len(socket) /\ socket'[i] = socket[i + 1] /\ i \in Nat
      BY <1>17
    <2>2. \A y, z \in Nat : y + z + 1 + 0 + i = y + z + (i + 1)
      BY <2>1
    <2> QED
      BY <1>18, <1>20, <2>1, <2>2
  <1>23. FramesTypes' /\ Delivered' /\ ExitExplained' /\ Storing' /\ Sent(w, start)' /\ Unread(w, start)'
    BY <1>11, <1>12, <1>13, <1>14, <1>15, <1>19, <1>21, <1>22
  <1> QED
    BY <1>23 DEF FramesInv

\* A frame that is sent, whole or in part, comes behind all that was sent before.
LEMMA SendKeeps ==
    ASSUME FramesInv, ~exited, NEW m \in Messages, NEW q \in 1 .. Len(Coding(m)), NEW p \in Seq(Bytes),
           Len(p) = q, \A i \in 1 .. q : p[i] = Coding(m)[i],
           q # Len(Coding(m)) => cut', cut => cut', cut' \in BOOLEAN,
           socket' = socket \o p, frames' = Append(frames, m),
           bps' = bps, body' = body, got' = got, exited' = exited
    PROVE  FramesInv'
  <1> DEFINE n == Len(frames)
  <1>1. FramesTypes /\ Delivered /\ Storing
    BY DEF FramesInv
  <1>2. PICK w, start : Sent(w, start) /\ Unread(w, start)
    BY DEF FramesInv
  <1>3. /\ n \in Nat /\ Len(got) \in Nat /\ Len(socket) \in Nat /\ q \in Nat /\ q > 0
        /\ Len(Coding(m)) \in Nat /\ q <= Len(Coding(m))
    BY <1>1, PlaceIs DEF FramesTypes
  <1>4. /\ frames' \in Seq(Messages) /\ Len(frames') = n + 1
        /\ \A f \in 1 .. n : frames'[f] = frames[f]
        /\ frames'[n + 1] = m
    <2>1. frames \in Seq(Messages)
      BY <1>1 DEF FramesTypes
    <2> QED
      BY <1>3, <2>1, AppendProperties
  <1> HIDE DEF n
  <1>5. /\ socket' \in Seq(Bytes) /\ Len(socket') = Len(socket) + q
        /\ \A i \in 1 .. Len(socket) : socket'[i] = socket[i]
        /\ \A i \in 1 .. q : socket'[Len(socket) + i] = p[i]
    <2>1. socket \in Seq(Bytes)
      BY <1>1 DEF FramesTypes
    <2>2. /\ socket \o p \in Seq(Bytes) /\ Len(socket \o p) = Len(socket) + Len(p)
          /\ \A i \in 1 .. Len(socket) : (socket \o p)[i] = socket[i]
          /\ \A i \in 1 .. Len(p) : (socket \o p)[Len(socket) + i] = p[i]
      BY ONLY <2>1, p \in Seq(Bytes), ConcatIs
    <2> QED
      BY <2>2
  <1>6. FramesTypes'
    BY <1>1, <1>4, <1>5 DEF FramesTypes
  <1>7. Delivered'
    <2>1. Len(got) <= n + 1
      BY <1>1, <1>3 DEF Delivered, n
    <2>2. \A i \in 1 .. Len(got) : i \in 1 .. n
      BY <1>1, <1>3 DEF Delivered, n
    <2> QED
      BY <1>1, <1>4, <2>1, <2>2 DEF Delivered
  <1>8. ExitExplained'
    BY DEF ExitExplained
  <1>9. Coming' = Coming /\ Coming \in Nat /\ Coming <= n + 1
    BY <1>1, <1>3 DEF Coming, Delivered, n
  <1>10. Len(got) < n => frames'[Coming] = frames[Coming] /\ Coming \in 1 .. n
    BY <1>3, <1>4 DEF Coming
  <1>11. Storing'
    <2>1. CASE bps = "unknown"
      BY <2>1 DEF Storing
    <2>2. CASE bps # "unknown"
      <3>1. Len(got) < n
        BY <1>1, <2>2 DEF Storing, n
      <3>2. frames'[Coming'] = frames[Coming] /\ Len(got') < Len(frames')
        BY <1>3, <1>4, <1>9, <1>10, <3>1
      <3> QED
        BY <1>1, <2>2, <3>2 DEF Storing
    <2> QED
      BY <2>1, <2>2
  <1>12. ReadSoFar' = ReadSoFar /\ ReadSoFar \in Nat
    <2>1. CASE bps = "unknown"
      BY <2>1 DEF ReadSoFar, ReadOf
    <2>2. CASE bps # "unknown"
      <3>1. Len(got) < n
        BY <1>1, <2>2 DEF Storing, n
      <3> QED
        BY <1>1, <1>9, <1>10, <3>1, ReadIs DEF ReadSoFar
    <2> QED
      BY <2>1, <2>2
  <1>13. /\ w \in Seq(Bytes) /\ start \in [1 .. n + 1 -> Nat] /\ start[n + 1] = Len(w) /\ Len(w) \in Nat
    BY <1>2 DEF Sent, n
  <1>14. PICK v \in Seq(Bytes) :
           /\ Len(v) = Len(w) + q
           /\ \A i \in 1 .. Len(w) : v[i] = w[i]
           /\ \A i \in 1 .. q : v[Len(w) + i] = p[i]
    <2>1. /\ w \o p \in Seq(Bytes) /\ Len(w \o p) = Len(w) + Len(p)
          /\ \A i \in 1 .. Len(w) : (w \o p)[i] = w[i]
          /\ \A i \in 1 .. Len(p) : (w \o p)[Len(w) + i] = p[i]
      BY ONLY <1>13, p \in Seq(Bytes), ConcatIs
    <2> QED
      BY <2>1
  <1> DEFINE L == Len(w)
  <1>15. L \in Nat /\ Len(v) = L + q /\ Len(v) \in Nat
    BY <1>3, <1>13, <1>14
  <1>16. PICK begin \in [1 .. n + 2 -> Nat] :
           /\ begin[n + 2] = Len(w) + q
           /\ \A f \in 1 .. n + 1 : begin[f] = start[f] /\ start[f] \in Nat
    <2> DEFINE b == [f \in 1 .. n + 2 |-> IF f = n + 2 THEN Len(w) + q ELSE start[f]]
    <2>1. n + 2 \in 1 .. n + 2 /\ \A f \in 1 .. n + 1 : f \in 1 .. n + 2 /\ f # n + 2
      BY <1>3
    <2>2. \A f \in 1 .. n + 2 : f # n + 2 => f \in 1 .. n + 1
      BY <1>3
    <2>3. Len(w) + q \in Nat
      BY <1>3, <1>13
    <2>4. /\ b \in [1 .. n + 2 -> Nat] /\ b[n + 2] = Len(w) + q
          /\ \A f \in 1 .. n + 1 : b[f] = start[f] /\ start[f] \in Nat
      BY <1>13, <2>1, <2>2, <2>3
    <2> HIDE DEF b
    <2> QED
      BY <2>4
  <1>17. Sent(v, begin)'
    <2>1. ASSUME NEW f \in 1 .. n
          PROVE  /\ begin[f] < begin[f + 1]
                 /\ begin[f + 1] <= begin[f] + Len(Coding(frames'[f]))
                 /\ begin[f + 1] <= Len(v)
                 /\ begin[f + 1] # begin[f] + Len(Coding(frames'[f])) => cut'
                 /\ \A i \in 1 .. begin[f + 1] - begin[f] : v[begin[f] + i] = Coding(frames'[f])[i]
      <3>1. f \in 1 .. n + 1 /\ f + 1 \in 1 .. n + 1
        BY <1>3
      <3>2. begin[f] = start[f] /\ begin[f + 1] = start[f + 1] /\ frames'[f] = frames[f]
            /\ start[f] \in Nat /\ start[f + 1] \in Nat
        BY <1>4, <1>16, <3>1
      <3>3. /\ start[f] < start[f + 1]
            /\ start[f + 1] <= start[f] + Len(Coding(frames[f]))
            /\ start[f + 1] <= Len(w)
            /\ start[f + 1] # start[f] + Len(Coding(frames[f])) => cut
            /\ \A i \in 1 .. start[f + 1] - start[f] : w[start[f] + i] = Coding(frames[f])[i]
        BY <1>2 DEF Sent, n
      <3>4. start[f + 1] <= Len(v)
        <4>1. \A x \in Nat : x <= L => x <= L + q
          <5> HIDE DEF L
          <5> QED
            BY <1>3, <1>15
        <4> QED
          BY <1>15, <3>2, <3>3, <4>1
      <3>5. ASSUME NEW i \in 1 .. start[f + 1] - start[f]
            PROVE  v[start[f] + i] = Coding(frames[f])[i]
        <4>1. start[f] + i \in 1 .. Len(w)
          <5>1. \A x, y \in Nat : y <= L => \A z \in 1 .. y - x : x + z \in 1 .. L
            <6> HIDE DEF L
            <6> QED
              BY <1>15
          <5> QED
            BY <3>2, <3>3, <5>1
        <4> QED
          BY <1>14, <3>3, <4>1
      <3> QED
        BY <3>2, <3>3, <3>4, <3>5
    <2>2. /\ begin[n + 1] < begin[(n + 1) + 1]
          /\ begin[(n + 1) + 1] <= begin[n + 1] + Len(Coding(frames'[n + 1]))
          /\ begin[(n + 1) + 1] <= Len(v)
          /\ begin[(n + 1) + 1] # begin[n + 1] + Len(Coding(frames'[n + 1])) => cut'
          /\ \A i \in 1 .. begin[(n + 1) + 1] - begin[n + 1] :
               v[begin[n + 1] + i] = Coding(frames'[n + 1])[i]
      <3>1. n + 1 \in 1 .. n + 1 /\ (n + 1) + 1 = n + 2
        BY <1>3
      <3>2. begin[n + 1] = Len(w) /\ begin[(n + 1) + 1] = Len(w) + q /\ frames'[n + 1] = m
        BY <1>4, <1>13, <1>16, <3>1
      <3>3. (Len(w) + q) - Len(w) = q /\ Len(w) < Len(w) + q
            /\ Len(w) + q <= Len(w) + Len(Coding(m)) /\ Len(w) + q <= Len(v)
            /\ (Len(w) + q # Len(w) + Len(Coding(m)) => q # Len(Coding(m)))
        <4> DEFINE C == Len(Coding(m))
        <4>1. C \in Nat /\ q <= C /\ q \in Nat /\ q > 0
          BY <1>3
        <4> HIDE DEF L, C
        <4>2. (L + q) - L = q /\ L < L + q /\ L + q <= L + C /\ L + q <= Len(v)
              /\ (L + q # L + C => q # C)
          BY <1>15, <4>1
        <4> QED
          BY <4>2 DEF L, C
      <3> QED
        BY <1>14, <3>2, <3>3
    <2>3. \A f \in 1 .. n + 1 : f \in 1 .. n \/ f = n + 1
      BY <1>3
    <2>4. Len(frames') + 1 = n + 2
      BY <1>3, <1>4
    <2> QED
      BY <1>4, <1>14, <1>16, <2>1, <2>2, <2>3, <2>4 DEF Sent
  <1>18. Unread(v, begin)'
    <2> DEFINE s == start[Coming]
               r == ReadSoFar
    <2>1. /\ s + r + Len(socket) = Len(w)
          /\ \A i \in 1 .. Len(socket) : socket[i] = w[s + r + i]
          /\ bps # "unknown" => s + r <= start[Coming + 1]
      BY <1>2 DEF Unread
    <2>2. Coming \in 1 .. n + 1
      BY <1>3, <1>9 DEF Coming
    <2>3. begin[Coming] = s /\ s \in Nat /\ r \in Nat
      BY <1>12, <1>16, <2>2
    <2>4. bps # "unknown" => begin[Coming + 1] = start[Coming + 1]
      <3>1. ASSUME bps # "unknown" PROVE Coming + 1 \in 1 .. n + 1
        <4>1. Len(got) < n
          BY <1>1, <3>1 DEF Storing, n
        <4>2. Coming \in 1 .. n
          BY <1>10, <4>1
        <4> QED
          BY <1>3, <4>2
      <3> QED
        BY <1>16, <3>1
    <2>5. Unread(v, begin)' <=>
            /\ s + r + Len(socket') = Len(v)
            /\ \A i \in 1 .. Len(socket') : socket'[i] = v[s + r + i]
            /\ bps # "unknown" => s + r <= begin[Coming + 1]
      BY <1>9, <1>12, <2>3 DEF Unread
    <2> HIDE DEF s, r
    <2>6. s + r + Len(socket') = Len(v)
      <3> DEFINE K == Len(socket)
      <3>1. K \in Nat /\ q \in Nat /\ s + r + K = L
        BY <1>3, <2>1
      <3> HIDE DEF K, L
      <3>2. s + r + (K + q) = L + q
        BY <1>15, <2>3, <3>1
      <3> QED
        BY <1>5, <1>15, <3>2 DEF K
    <2>7. ASSUME NEW i \in 1 .. Len(socket') PROVE socket'[i] = v[s + r + i]
      <3>1. CASE i \in 1 .. Len(socket)
        <4>1. s + r + i \in 1 .. Len(w)
          BY <1>3, <2>1, <2>3, <3>1
        <4> QED
          BY <1>5, <1>14, <2>1, <3>1, <4>1
      <3>2. CASE i \notin 1 .. Len(socket)
        <4>1. PICK l \in 1 .. q : i = Len(socket) + l
          <5>1. i - Len(socket) \in 1 .. q /\ i = Len(socket) + (i - Len(socket))
            BY <1>3, <1>5, <3>2
          <5> QED
            BY <5>1
        <4>2. s + r + i = Len(w) + l
          <5> DEFINE K == Len(socket)
          <5>1. K \in Nat /\ l \in Nat /\ s + r + K = L /\ i = K + l
            BY <1>3, <2>1, <4>1
          <5> HIDE DEF K, L
          <5>2. s + r + (K + l) = L + l
            BY <1>15, <2>3, <5>1
          <5> QED
            BY <5>1, <5>2 DEF L
        <4> QED
          BY <1>5, <1>14, <4>1, <4>2
      <3> QED
        BY <3>1, <3>2
    <2> QED
      BY <2>1, <2>4, <2>5, <2>6, <2>7
  <1> QED
    BY <1>6, <1>7, <1>8, <1>11, <1>17, <1>18 DEF FramesInv

\* A frame is sent when the socket has room for it whole.
LEMMA FrameKeeps == ASSUME FramesInv, NEW m \in Messages, SendFrame(m) PROVE FramesInv'
  <1>1. /\ Coding(m) \in Seq(Bytes) /\ Len(Coding(m)) \in 1 .. Len(Coding(m))
    BY PlaceIs
  <1>2. /\ ~exited /\ cut' = cut /\ socket' = socket \o Coding(m) /\ frames' = Append(frames, m)
        /\ bps' = bps /\ body' = body /\ got' = got /\ exited' = exited
    BY DEF SendFrame, decoder
  <1>3. cut' \in BOOLEAN
    BY <1>2 DEF FramesInv, FramesTypes
  <1>4. PICK p \in Seq(Bytes) : p = Coding(m)
    BY <1>1
  <1>5. PICK q \in 1 .. Len(Coding(m)) : q = Len(p)
    BY <1>1, <1>4
  <1>6. (q # Len(Coding(m)) => cut') /\ (cut => cut') /\ socket' = socket \o p
        /\ \A i \in 1 .. q : p[i] = Coding(m)[i]
    BY <1>2, <1>4, <1>5
  <1> QED
    BY <1>2, <1>3, <1>5, <1>6, SendKeeps

\* A part of a frame is sent when the socket has no room for it whole.
LEMMA PartKeeps == ASSUME FramesInv, NEW m \in Messages, SendPart(m) PROVE FramesInv'
  <1>1. Coding(m) \in Seq(Bytes) /\ Len(Coding(m)) \in Nat
    BY PlaceIs
  <1>2. /\ ~exited /\ cut' = TRUE /\ socket' = socket \o SubSeq(Coding(m), 1, Room)
        /\ frames' = Append(frames, m) /\ 0 < Room /\ Room < Len(Coding(m))
        /\ bps' = bps /\ body' = body /\ got' = got /\ exited' = exited
    BY DEF SendPart, decoder
  <1>3. Room \in Int
    <2>1. Len(socket) \in Nat
      BY DEF FramesInv, FramesTypes
    <2> QED
      BY <2>1, FramesAssumption DEF Room
  <1>4. Room \in 1 .. Len(Coding(m))
    BY <1>1, <1>2, <1>3
  <1>5. PICK q \in 1 .. Len(Coding(m)) : q = Room
    BY <1>4
  <1>6. PICK p \in Seq(Bytes) :
          Len(p) = q /\ (\A i \in 1 .. q : p[i] = Coding(m)[i]) /\ p = SubSeq(Coding(m), 1, Room)
    <2>1. 1 \in 1 .. Len(Coding(m)) + 1 /\ Room \in 0 .. Len(Coding(m))
          /\ Room - 1 + 1 = Room /\ \A i \in 1 .. Room : 1 + i - 1 = i
      BY <1>1, <1>4
    <2> DEFINE p == SubSeq(Coding(m), 1, Room)
    <2>2. p \in Seq(Bytes) /\ Len(p) = Room /\ \A i \in 1 .. Room : p[i] = Coding(m)[i]
      BY <1>1, <2>1, SubSeqProperties
    <2>3. p = SubSeq(Coding(m), 1, Room)
      OBVIOUS
    <2> HIDE DEF p
    <2> QED
      BY <1>5, <2>2, <2>3
  <1>7. cut' \in BOOLEAN /\ (cut => cut') /\ (q # Len(Coding(m)) => cut') /\ socket' = socket \o p
    BY <1>2, <1>6
  <1> QED
    BY <1>2, <1>6, <1>7, SendKeeps

\* Closing for sending changes nothing that is sent or read.
LEMMA FramesKept ==
    ASSUME FramesInv, socket' = socket, bps' = bps, body' = body, frames' = frames, cut' = cut,
           got' = got, exited' = exited
    PROVE  FramesInv'
  <1>1. (FramesTypes => FramesTypes') /\ (Delivered => Delivered') /\ (ExitExplained => ExitExplained')
    BY DEF FramesTypes, Delivered, ExitExplained
  <1>2. Coming' = Coming
    BY DEF Coming
  <1>3. ReadSoFar' = ReadSoFar
    BY <1>2 DEF ReadSoFar
  <1>4. Storing => Storing'
    BY <1>2 DEF Storing
  <1>5. ASSUME NEW w, NEW start, Sent(w, start), Unread(w, start)
        PROVE  Sent(w, start)' /\ Unread(w, start)'
    <2>1. Sent(w, start)'
      BY <1>5 DEF Sent
    <2>2. Unread(w, start)'
      BY <1>2, <1>3, <1>5 DEF Unread
    <2> QED
      BY <2>1, <2>2
  <1> QED
    BY <1>1, <1>4, <1>5 DEF FramesInv

\* A full socket closes the connection for sending.
LEMMA OverflowKeeps == ASSUME FramesInv, SendOverflow PROVE FramesInv'
  BY FramesKept DEF SendOverflow, decoder

\* At the start nothing was sent.
LEMMA FramesStart == FramesInit => FramesInv
  <1> SUFFICES ASSUME FramesInit PROVE FramesInv
    OBVIOUS
  <1>1. /\ socket = <<>> /\ bps = "unknown" /\ body = <<>> /\ frames = <<>> /\ cut = FALSE
        /\ got = <<>> /\ exited = FALSE
    BY DEF FramesInit
  <1>2. FramesTypes
    <2>1. <<>> \in Seq(Bytes) /\ <<>> \in Seq(Messages)
      OBVIOUS
    <2> QED
      BY <1>1, <2>1 DEF FramesTypes
  <1>3. Len(got) = 0 /\ Len(frames) = 0 /\ Len(socket) = 0
    BY <1>1
  <1>4. Delivered
    BY <1>3 DEF Delivered
  <1>5. ExitExplained /\ Storing
    BY <1>1 DEF ExitExplained, Storing
  <1> DEFINE w == <<>>
             start == [f \in 1 .. 1 |-> 0]
  <1>6. w \in Seq(Bytes) /\ Len(w) = 0 /\ start \in [1 .. 1 -> Nat] /\ start[1] = 0
    OBVIOUS
  <1> HIDE DEF w, start
  <1>7. Sent(w, start)
    BY <1>3, <1>6 DEF Sent
  <1>8. ReadSoFar = 0 /\ Coming = 1
    BY <1>1, <1>3 DEF ReadSoFar, ReadOf, Coming
  <1>9. Unread(w, start)
    BY <1>1, <1>3, <1>6, <1>8 DEF Unread
  <1> QED
    BY <1>2, <1>4, <1>5, <1>7, <1>9 DEF FramesInv

\* Every step of the sender and of the decoder keeps the invariant.
LEMMA FramesKeep == FramesInv /\ [FramesNext]_frameVars => FramesInv'
  <1> SUFFICES ASSUME FramesInv, [FramesNext]_frameVars PROVE FramesInv'
    OBVIOUS
  <1>1. CASE \E m \in Messages : SendFrame(m) \/ SendPart(m)
    BY <1>1, FrameKeeps, PartKeeps
  <1>2. CASE SendOverflow
    BY <1>2, OverflowKeeps
  <1>3. CASE ReadOutside
    BY <1>3, OutsideKeeps
  <1>4. CASE ReadBody
    BY <1>4, BodyKeeps
  <1>5. CASE ReadEscape
    BY <1>5, EscapeKeeps
  <1>6. CASE ReadEscaped
    BY <1>6, EscapedKeeps
  <1>7. CASE ReadEnd
    BY <1>7, EndKeeps
  <1>8. CASE ReadStart
    BY <1>8, StartKeeps
  <1>9. CASE UNCHANGED frameVars
    BY <1>9, FramesKept DEF frameVars, sender, decoder
  <1> QED
    BY <1>1, <1>2, <1>3, <1>4, <1>5, <1>6, <1>7, <1>8, <1>9 DEF FramesNext

\* The socket, the decoder and the history agree: what is on the socket is the
\* rest of what was sent, from where the decoder is.
THEOREM FramesInvCorrect == FramesSpec => []FramesInv
  BY FramesStart, FramesKeep, PTL DEF FramesSpec

\* What the decoder passes on are the messages that were sent, whole and in
\* order, whatever bytes they hold and wherever the socket was full.
THEOREM FramesWholeCorrect == FramesSpec => []FramesWhole
  <1>1. FramesInv => FramesWhole
    <2> SUFFICES ASSUME FramesInv PROVE FramesWhole
      OBVIOUS
    <2>1. got \in Seq(Messages) /\ frames \in Seq(Messages) /\ Delivered
      BY DEF FramesInv, FramesTypes
    <2>2. Len(got) \in Nat /\ Len(frames) \in Nat /\ Len(got) <= Len(frames)
          /\ \A i \in 1 .. Len(got) : got[i] = frames[i]
      BY <2>1 DEF Delivered
    <2>3. ASSUME NEW s \in Seq(Messages), Len(got) <= Len(s), \A i \in 1 .. Len(got) : got[i] = s[i]
          PROVE  SubSeq(s, 1, Len(got)) = got
      <3> DEFINE t == SubSeq(s, 1, Len(got))
      <3>1. 1 \in 1 .. Len(s) + 1 /\ Len(got) \in 0 .. Len(s) /\ Len(got) - 1 + 1 = Len(got)
            /\ \A i \in 1 .. Len(got) : 1 + i - 1 = i
        BY <2>2, <2>3
      <3>2. t \in Seq(Messages) /\ Len(t) = Len(got) /\ \A i \in 1 .. Len(got) : t[i] = s[i]
        BY <2>2, <3>1, SubSeqProperties
      <3> HIDE DEF t
      <3>3. t = got
        BY <2>1, <2>3, <3>2, SeqEqual
      <3> QED
        BY <3>3 DEF t
    <2>4. SubSeq(got, 1, Len(got)) = got /\ SubSeq(frames, 1, Len(got)) = got
      BY <2>1, <2>2, <2>3
    <2> QED
      BY <2>2, <2>4 DEF FramesWhole, IsPrefix
  <1> QED
    BY <1>1, FramesInvCorrect, PTL

\* The receiver exits only behind a frame that was sent in part or that is too
\* long for its buffer.
THEOREM ExitExplainedCorrect == FramesSpec => []ExitExplained
  <1>1. FramesInv => ExitExplained
    BY DEF FramesInv
  <1> QED
    BY <1>1, FramesInvCorrect, PTL

================================================================================
