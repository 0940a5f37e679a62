-------------------------------- MODULE P2Vera --------------------------------
(***************************************************************************)
(* Nodes of p2vera that share one stream (src/p2vera/source/p2vera.cpp,    *)
(* p2hub.cpp, p2queue.cpp, p2stream.cpp).  A node keeps a hub for the      *)
(* stream; clients of the node hold queues linked to the hub.  A message   *)
(* is put into every queue of the hub and sent to the hubs of other nodes  *)
(* as a datagram; the receiving thread of a node puts what arrives into    *)
(* its own queues.  Every queue has a pipe, and a byte in it wakes the     *)
(* thread that polls the queue.                                            *)
(*                                                                         *)
(* A queue and the client thread that uses it are one element of Queues;   *)
(* a node names its receiving thread.  A behaviour ends with a status      *)
(* other than "run" where the code runs into undefined behaviour or        *)
(* std::terminate.                                                         *)
(***************************************************************************)
EXTENDS Naturals, Sequences, FiniteSets

CONSTANTS Nodes, Queues,
          Home,      \* the node of a queue
          Dir,       \* the stream_direction of a queue
          None,      \* no thread
          MaxQq,     \* max_incoming_qq_size
          PipeCap,   \* bytes a pipe holds
          MaxSent    \* bound: messages sent by all clients

ASSUME NodesAssumption ==
  /\ Home \in [Queues -> Nodes]
  /\ Dir \in [Queues -> {"bidir", "income", "outcome"}]
  /\ Nodes \cap Queues = {}
  /\ None \notin Nodes \cup Queues
  /\ MaxQq \in Nat \ {0} /\ PipeCap \in Nat /\ MaxQq <= PipeCap
  /\ MaxSent \in Nat

VARIABLES
  registered, active, polled, \* nodes: stream registered, networking_active, hub in the poll set
  qqs, targets,               \* the hub: its queues in order, the nodes it sends to
  holder,                     \* the thread that holds the mutex of the hub
  qq, pipe,                   \* the queue: in_qq and the bytes in its pipe
  pc, msg, todo,              \* a thread: where it is, its message, the queues left to walk
  net,                        \* datagrams on their way
  sent, log,                  \* history: messages sent, messages that passed a hub
  status

setup == <<registered, active, polled>>
hub == <<qqs, targets, holder>>
queue == <<qq, pipe>>
thread == <<pc, msg, todo>>
vars == <<setup, hub, queue, thread, net, sent, log, status>>

Payloads == 1 .. MaxSent
Threads == Nodes \cup Queues
NodeOf(t) == IF t \in Nodes THEN t ELSE Home[t]
Linked(q) == \E i \in DOMAIN qqs[Home[q]] : qqs[Home[q]][i] = q
Reads(q) == Dir[q] \in {"bidir", "income"}
Writes(q) == Dir[q] \in {"bidir", "outcome"}

Init ==
  /\ registered = {} /\ active = {} /\ polled = {}
  /\ qqs = [n \in Nodes |-> <<>>]
  /\ targets = [n \in Nodes |-> {}]
  /\ holder = [n \in Nodes |-> None]
  /\ qq = [q \in Queues |-> <<>>]
  /\ pipe = [q \in Queues |-> 0]
  /\ pc = [t \in Threads |-> IF t \in Nodes THEN "off" ELSE "idle"]
  /\ msg = [t \in Threads |-> 0]
  /\ todo = [t \in Threads |-> <<>>]
  /\ net = {}
  /\ sent = 0
  /\ log = [n \in Nodes |-> <<>>]
  /\ status = "run"

Running == status = "run"
Halt(s) == status' = s /\ UNCHANGED <<setup, hub, queue, thread, net, sent, log>>

(***************************************************************************)
(* Setting up a node.                                                      *)
(***************************************************************************)

\* register_stream does nothing once the network runs or for a known name.
CanRegister(n) == n \notin active /\ n \notin registered

\* Discovery opens a socket for the stream at the first free port and keeps its
\* hub; a port is always found.
WithSocket(n) == registered \cup {n}

Register(n) ==
  /\ Running
  /\ CanRegister(n)
  /\ registered' = WithSocket(n)
  /\ UNCHANGED <<active, polled, hub, queue, thread, net, sent, log, status>>

StartNetwork(n) ==
  /\ Running
  /\ pc[n] = "off"
  /\ pc' = [pc EXCEPT ![n] = "starting"]
  /\ active' = active \cup {n}
  /\ UNCHANGED <<registered, polled, hub, queue, msg, todo, net, sent, log, status>>

\* The receiving thread copies hub_fds once, before its loop.
Snapshot(n) ==
  /\ Running
  /\ pc[n] = "starting"
  /\ pc' = [pc EXCEPT ![n] = "idle"]
  /\ polled' = polled \cup ({n} \cap registered)
  /\ UNCHANGED <<registered, active, hub, queue, msg, todo, net, sent, log, status>>

\* create_instream and create_outstream take the mutex of the hub, create_stream does not.
LinkedUnlocked(q) == Dir[q] = "bidir"

CreateStream(q) ==
  /\ Running
  /\ ~Linked(q)
  /\ Home[q] \in registered
  /\ holder[Home[q]] = None
  /\ qqs' = [qqs EXCEPT ![Home[q]] = Append(@, q)]
  /\ UNCHANGED <<setup, targets, holder, queue, thread, net, sent, log, status>>

\* The list of the hub is changed while a thread walks it.
CreateStreamRace(q) ==
  /\ Running
  /\ ~Linked(q)
  /\ Home[q] \in registered
  /\ holder[Home[q]] # None
  /\ LinkedUnlocked(q)
  /\ Halt("race")

\* throw without an exception to throw.
CreateStreamUnknown(q) ==
  /\ Running
  /\ ~Linked(q)
  /\ Home[q] \notin registered
  /\ Halt("terminate")

(***************************************************************************)
(* The hub.                                                                *)
(***************************************************************************)

\* Discovery tells the hub which nodes know its stream.
AddMessageTarget(n, m) ==
  /\ Running
  /\ {n, m} \subseteq registered
  /\ m \notin {n} \cup targets[n]
  /\ holder[n] = None
  /\ targets' = [targets EXCEPT ![n] = @ \cup {m}]
  /\ UNCHANGED <<setup, qqs, holder, queue, thread, net, sent, log, status>>

RemoveMessageTarget(n, m) ==
  /\ Running
  /\ m \in targets[n]
  /\ holder[n] = None
  /\ targets' = [targets EXCEPT ![n] = @ \ {m}]
  /\ UNCHANGED <<setup, qqs, holder, queue, thread, net, sent, log, status>>

\* A client writes to its stream.
Send(q) ==
  /\ Running
  /\ Linked(q) /\ Writes(q)
  /\ pc[q] = "idle"
  /\ sent < MaxSent
  /\ sent' = sent + 1
  /\ pc' = [pc EXCEPT ![q] = "lock"]
  /\ msg' = [msg EXCEPT ![q] = sent + 1]
  /\ UNCHANGED <<setup, hub, queue, todo, net, log, status>>

\* The receiving thread reads a datagram of the stream.
Receive(n, d) ==
  /\ Running
  /\ n \in polled
  /\ pc[n] = "idle"
  /\ d \in net /\ d.to = n
  /\ net' = net \ {d}
  /\ pc' = [pc EXCEPT ![n] = "lock"]
  /\ msg' = [msg EXCEPT ![n] = d.msg]
  /\ UNCHANGED <<setup, hub, queue, todo, sent, log, status>>

\* send_message and receive_message: the mutex, and the list of queues to walk.
Lock(t) ==
  /\ Running
  /\ pc[t] = "lock"
  /\ holder[NodeOf(t)] = None
  /\ holder' = [holder EXCEPT ![NodeOf(t)] = t]
  /\ todo' = [todo EXCEPT ![t] = qqs[NodeOf(t)]]
  /\ pc' = [pc EXCEPT ![t] = "fill"]
  /\ log' = [log EXCEPT ![NodeOf(t)] = Append(@, msg[t])]
  /\ UNCHANGED <<setup, qqs, targets, queue, msg, net, sent, status>>

\* Mutants: no bound, or the oldest message makes room.
InsertedAnyway(s, m) == Append(s, m)
InsertedOverOldest(s, m) == IF Len(s) < MaxQq THEN Append(s, m) ELSE Append(Tail(s), m)

\* A full queue loses the message.
Inserted(s, m) == IF Len(s) < MaxQq THEN Append(s, m) ELSE s

\* A queue that only writes is passed over.
Skip(t) ==
  /\ Running
  /\ pc[t] = "fill" /\ todo[t] # <<>> /\ ~Reads(Head(todo[t]))
  /\ todo' = [todo EXCEPT ![t] = Tail(@)]
  /\ UNCHANGED <<setup, hub, queue, pc, msg, net, sent, log, status>>

Insert(t) ==
  /\ Running
  /\ pc[t] = "fill" /\ todo[t] # <<>> /\ Reads(Head(todo[t]))
  /\ qq' = [qq EXCEPT ![Head(todo[t])] = Inserted(@, msg[t])]
  /\ pc' = [pc EXCEPT ![t] = "wake"]
  /\ UNCHANGED <<setup, hub, pipe, msg, todo, net, sent, log, status>>

\* Mutants: a byte only where none waits, or only for the first message.
WokenOnce(bytes, s) == IF bytes > 0 THEN bytes ELSE 1
WokenForFirst(bytes, s) == IF Len(s) = 1 THEN bytes + 1 ELSE bytes

\* One byte for every message, lost or not.
Woken(bytes, s) == bytes + 1

\* A full pipe blocks the thread, which keeps the mutex of the hub.
Wake(t) ==
  /\ Running
  /\ pc[t] = "wake"
  /\ pipe[Head(todo[t])] < PipeCap
  /\ pipe' = [pipe EXCEPT ![Head(todo[t])] = Woken(@, qq[Head(todo[t])])]
  /\ todo' = [todo EXCEPT ![t] = Tail(@)]
  /\ pc' = [pc EXCEPT ![t] = "fill"]
  /\ UNCHANGED <<setup, hub, qq, msg, net, sent, log, status>>

\* Mutant: what came from another node is sent on as well.
ForwardsAll(t) == t \in Threads

\* Only what a client of the node wrote goes on to other nodes.
Forwards(t) == t \in Queues

Unlock(t) ==
  /\ Running
  /\ pc[t] = "fill" /\ todo[t] = <<>>
  /\ holder' = [holder EXCEPT ![NodeOf(t)] = None]
  /\ net' = IF Forwards(t) THEN net \cup [to : targets[NodeOf(t)], msg : {msg[t]}] ELSE net
  /\ pc' = [pc EXCEPT ![t] = "idle"]
  /\ msg' = [msg EXCEPT ![t] = 0]
  /\ UNCHANGED <<setup, qqs, targets, queue, todo, sent, log, status>>

Lose(d) ==
  /\ Running
  /\ d \in net
  /\ net' = net \ {d}
  /\ UNCHANGED <<setup, hub, queue, thread, sent, log, status>>

(***************************************************************************)
(* The reader of a queue: poll, one byte, then the message.                *)
(***************************************************************************)

ReadByte(q) ==
  /\ Running
  /\ Reads(q) /\ pc[q] = "idle"
  /\ pipe[q] > 0
  /\ pipe' = [pipe EXCEPT ![q] = @ - 1]
  /\ pc' = [pc EXCEPT ![q] = "pop"]
  /\ UNCHANGED <<setup, hub, qq, msg, todo, net, sent, log, status>>

Pop(q) ==
  /\ Running
  /\ pc[q] = "pop"
  /\ qq[q] # <<>>
  /\ qq' = [qq EXCEPT ![q] = Tail(@)]
  /\ pc' = [pc EXCEPT ![q] = "idle"]
  /\ UNCHANGED <<setup, hub, pipe, msg, todo, net, sent, log, status>>

\* in_qq.size() < 0 never holds: an empty queue is read and popped.
PopEmpty(q) ==
  /\ Running
  /\ pc[q] = "pop"
  /\ qq[q] = <<>>
  /\ Halt("empty_front")

Setup ==
  \/ \E n \in Nodes : Register(n) \/ StartNetwork(n) \/ Snapshot(n)
  \/ \E q \in Queues : CreateStream(q) \/ CreateStreamRace(q) \/ CreateStreamUnknown(q)
  \/ \E n, m \in Nodes : AddMessageTarget(n, m) \/ RemoveMessageTarget(n, m)

Network == \E d \in net : Lose(d) \/ \E n \in Nodes : Receive(n, d)

Deliver(t) == Lock(t) \/ Skip(t) \/ Insert(t) \/ Wake(t) \/ Unlock(t)
Read(q) == ReadByte(q) \/ Pop(q) \/ PopEmpty(q)

Next ==
  \/ Setup
  \/ Network
  \/ \E t \in Threads : Deliver(t)
  \/ \E q \in Queues : Send(q) \/ Read(q)

\* The threads of the node run; what they are told to do is up to its callers.
Fairness ==
  /\ \A t \in Threads : WF_vars(Deliver(t))
  /\ \A q \in Queues : WF_vars(Read(q))

Spec == Init /\ [][Next]_vars /\ Fairness

(***************************************************************************)
(* Properties.                                                             *)
(***************************************************************************)

\* The types of the variables.
NodesTypeOK ==
  /\ registered \subseteq Nodes /\ active \subseteq Nodes /\ polled \subseteq Nodes
  /\ qqs \in [Nodes -> Seq(Queues)]
  /\ targets \in [Nodes -> SUBSET Nodes]
  /\ holder \in [Nodes -> Threads \cup {None}]
  /\ qq \in [Queues -> Seq(Payloads)]
  /\ \A q \in Queues : Len(qq[q]) <= MaxQq
  /\ pipe \in [Queues -> 0 .. PipeCap]
  /\ pc \in [Threads -> {"off", "starting", "idle", "lock", "fill", "wake", "pop"}]
  /\ msg \in [Threads -> 0 .. MaxSent]
  /\ todo \in [Threads -> Seq(Queues)]
  /\ net \subseteq [to : Nodes, msg : Payloads]
  /\ sent \in 0 .. MaxSent
  /\ log \in [Nodes -> Seq(Payloads)]
  /\ status \in {"run", "race", "terminate", "empty_front"}

\* Bytes that are still to come to a queue or were just taken from it.
Coming(q) == Cardinality({t \in Threads : pc[t] = "wake" /\ Head(todo[t]) = q})
Taking(q) == IF pc[q] = "pop" THEN 1 ELSE 0

\* No message lies in a queue without a byte that will wake the reader
\* (pop_message and _insert_message touch queue and pipe in different order
\* and under different locks).
WakeUpForEveryMessage ==
  \A q \in Queues : Len(qq[q]) <= pipe[q] + Coming(q) + Taking(q)

\* A message passes a hub at most once, although two hubs send to each other
\* (send_message forwards, receive_message must not).
NoEcho ==
  \A n \in Nodes : \A i, j \in DOMAIN log[n] : log[n][i] = log[n][j] => i = j

\* Readers of a hub get its messages in one order and lose one only when
\* their queue is full: the nodes implement OrderedBroadcast.
LeftToFill(t) ==
  CASE pc[t] = "fill" -> todo[t]
    [] pc[t] = "wake" -> Tail(todo[t])
    [] OTHER -> <<>>
Unoffered(q) ==
  Cardinality({t \in Threads : \E i \in DOMAIN LeftToFill(t) : LeftToFill(t)[i] = q})

Readers == {q \in Queues : Reads(q)}

Broadcast == INSTANCE OrderedBroadcast WITH
  Hubs <- Nodes,
  HubOf <- [q \in Readers |-> Home[q]],
  Messages <- Payloads,
  Capacity <- MaxQq,
  joined <- {q \in Readers : Linked(q)},
  offered <- [q \in Readers |-> IF Linked(q) THEN Len(log[Home[q]]) - Unoffered(q) ELSE 0],
  box <- [q \in Readers |-> qq[q]]

BroadcastSpec == Broadcast!Spec

\* The writer waits for room in a pipe, and the reader of that pipe is itself
\* or waits for the mutex the writer holds.
Jammed ==
  \E t \in Threads :
    /\ pc[t] = "wake" /\ pipe[Head(todo[t])] = PipeCap
    /\ pc[Head(todo[t])] \in {"lock", "wake"}

\* Every queue is read empty again, unless the hub jammed: no reader sleeps
\* while its queue holds a message (poll, then one byte, then one message).
ReadersServed ==
  \A q \in Readers : qq[q] # <<>> ~> qq[q] = <<>> \/ Jammed \/ ~Running

===============================================================================
