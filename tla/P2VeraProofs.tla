----------------------------- MODULE P2VeraProofs -----------------------------
(***************************************************************************)
(* Theorems about P2Vera: for any number of nodes, clients and messages,   *)
(* queues and pipes of any size, and a network that loses and reorders.    *)
(***************************************************************************)
EXTENDS P2Vera, FiniteSetTheorems, SequenceTheorems, TLAPS

Filling(t) == pc[t] \in {"fill", "wake"}
Delivering(t) == pc[t] \in {"lock", "fill", "wake"}
NoneTwice(s) == \A i, j \in DOMAIN s : s[i] = s[j] => i = j

\* Whoever walks the queues of a hub holds its mutex.
MutexHeld == \A t \in Threads : Filling(t) => holder[NodeOf(t)] = t

\* A hub has each of its own queues once.
HubsOwn ==
  \A n \in Nodes : NoneTwice(qqs[n]) /\ \A i \in DOMAIN qqs[n] : Home[qqs[n][i]] = n

\* What a thread has left to walk are queues of its hub, each once, and it puts
\* bytes only into the pipe of a reader.
Walks ==
  \A t \in Threads :
    /\ NoneTwice(todo[t])
    /\ \A i \in DOMAIN todo[t] : Home[todo[t][i]] = NodeOf(t) /\ Linked(todo[t][i])
    /\ pc[t] = "wake" => todo[t] # <<>> /\ Reads(Head(todo[t]))

\* The message a thread walks with is the last one that passed its hub.
LastLogged ==
  \A t \in Threads : Filling(t) =>
    LET l == log[NodeOf(t)] IN l # <<>> /\ l[Len(l)] = msg[t]

WalkInv == MutexHeld /\ HubsOwn /\ Walks /\ LastLogged

(***************************************************************************)
(* Where a message is.  A client has it alone until it lets go of the      *)
(* mutex; then every other hub gets it at most once: as a datagram, in     *)
(* the hands of its receiving thread, or in its log.                       *)
(***************************************************************************)
Logged(n, m) == \E i \in DOMAIN log[n] : log[n][i] = m

Numbered ==
  /\ \A t \in Threads : Delivering(t) => msg[t] \in 1 .. sent
  /\ \A d \in net : d.msg \in 1 .. sent
  /\ \A n \in Nodes : \A i \in DOMAIN log[n] : log[n][i] \in 1 .. sent

ClientAlone ==
  \A q \in Queues : Delivering(q) =>
    /\ \A t \in Threads : Delivering(t) /\ msg[t] = msg[q] => t = q
    /\ \A d \in net : d.msg # msg[q]
    /\ \A n \in Nodes : Logged(n, msg[q]) => n = Home[q] /\ Filling(q)

HubOnce ==
  \A n \in Nodes :
    /\ n \notin targets[n]
    /\ \A d \in net : d.to = n => ~Logged(n, d.msg)
    /\ pc[n] = "lock" => ~Logged(n, msg[n]) /\ [to |-> n, msg |-> msg[n]] \notin net

FreshInv == Numbered /\ ClientAlone /\ HubOnce /\ NoEcho

NodesInv == NodesTypeOK /\ WalkInv /\ FreshInv /\ WakeUpForEveryMessage

(***************************************************************************)
(* Threads, sets and sequences.                                            *)
(***************************************************************************)

\* Every thread has a node.
LEMMA ThreadNode ==
  /\ \A t \in Threads : NodeOf(t) \in Nodes
  /\ \A n \in Nodes : n \in Threads /\ NodeOf(n) = n
  /\ \A q \in Queues : q \in Threads /\ q \notin Nodes /\ NodeOf(q) = Home[q] /\ Home[q] \in Nodes
  /\ None \notin Threads
  BY NodesAssumption DEF Threads, NodeOf

\* A set without two elements has none or one.
LEMMA AtMostOne ==
  ASSUME NEW S, \A x, y \in S : x = y
  PROVE  Cardinality(S) = IF S = {} THEN 0 ELSE 1
  <1>1. CASE S = {}
    BY <1>1, FS_EmptySet
  <1>2. CASE S # {}
    <2>1. PICK x : S = {x}
      BY <1>2
    <2> QED
      BY <1>2, <2>1, FS_Singleton
  <1> QED
    BY <1>1, <1>2

\* A sequence after its first element.
LEMMA TailSeq ==
  ASSUME NEW S, NEW s \in Seq(S), s # <<>>
  PROVE  /\ Head(s) \in S /\ Head(s) = s[1] /\ 1 \in DOMAIN s /\ Len(s) >= 1
         /\ Tail(s) \in Seq(S) /\ Len(Tail(s)) = Len(s) - 1
         /\ \A i \in DOMAIN Tail(s) : i + 1 \in DOMAIN s /\ Tail(s)[i] = s[i + 1]
         /\ \A x : (\E i \in DOMAIN s : s[i] = x)
                     <=> x = Head(s) \/ \E i \in DOMAIN Tail(s) : Tail(s)[i] = x
         /\ NoneTwice(s) => NoneTwice(Tail(s)) /\ \A i \in DOMAIN Tail(s) : Tail(s)[i] # Head(s)
  <1>1. /\ Head(s) = s[1] /\ Tail(s) \in Seq(S) /\ Len(Tail(s)) = Len(s) - 1
        /\ \A i \in 1 .. Len(Tail(s)) : Tail(s)[i] = s[i + 1]
    BY HeadTailProperties
  <1>2. DOMAIN s = 1 .. Len(s) /\ DOMAIN Tail(s) = 1 .. Len(Tail(s)) /\ Len(s) \in Nat
    BY <1>1
  <1>3. Len(s) >= 1
    BY <1>2, EmptySeq
  <1>4. /\ 1 \in DOMAIN s /\ Head(s) \in S
        /\ \A i \in DOMAIN Tail(s) : i + 1 \in DOMAIN s /\ Tail(s)[i] = s[i + 1]
    BY <1>1, <1>2, <1>3, ElementOfSeq
  <1>5. \A x : (\E i \in DOMAIN s : s[i] = x)
                     <=> x = Head(s) \/ \E i \in DOMAIN Tail(s) : Tail(s)[i] = x
    <2>1. ASSUME NEW i \in DOMAIN s PROVE i = 1 \/ (i - 1 \in DOMAIN Tail(s) /\ Tail(s)[i - 1] = s[i])
      BY <1>1, <1>2
    <2> QED
      BY <1>1, <1>4, <2>1
  <1>6. NoneTwice(s) => NoneTwice(Tail(s)) /\ \A i \in DOMAIN Tail(s) : Tail(s)[i] # Head(s)
    BY <1>1, <1>2, <1>4 DEF NoneTwice
  <1> QED
    BY <1>1, <1>3, <1>4, <1>5, <1>6

\* and with an element more.
LEMMA AppendSeq ==
  ASSUME NEW S, NEW s \in Seq(S), NEW e \in S
  PROVE  /\ Append(s, e) \in Seq(S) /\ Len(Append(s, e)) = Len(s) + 1
         /\ Append(s, e)[Len(s) + 1] = e /\ Append(s, e) # <<>>
         /\ DOMAIN s = 1 .. Len(s) /\ DOMAIN Append(s, e) = 1 .. Len(s) + 1
         /\ \A i \in DOMAIN s : i \in DOMAIN Append(s, e) /\ Append(s, e)[i] = s[i]
         /\ \A i \in DOMAIN Append(s, e) : i \in DOMAIN s \/ i = Len(s) + 1
         /\ \A x : (\E i \in DOMAIN Append(s, e) : Append(s, e)[i] = x)
                     <=> x = e \/ \E i \in DOMAIN s : s[i] = x
         /\ NoneTwice(s) /\ (\A i \in DOMAIN s : s[i] # e) => NoneTwice(Append(s, e))
  <1>1. /\ Append(s, e) \in Seq(S) /\ Len(Append(s, e)) = Len(s) + 1
        /\ \A i \in 1 .. Len(s) : Append(s, e)[i] = s[i]
        /\ Append(s, e)[Len(s) + 1] = e
    BY AppendProperties
  <1>2. DOMAIN s = 1 .. Len(s) /\ DOMAIN Append(s, e) = 1 .. Len(s) + 1 /\ Len(s) \in Nat
    BY <1>1
  <1>3. /\ \A i \in DOMAIN s : i \in DOMAIN Append(s, e) /\ Append(s, e)[i] = s[i]
        /\ \A i \in DOMAIN Append(s, e) : i \in DOMAIN s \/ i = Len(s) + 1
        /\ Len(s) + 1 \in DOMAIN Append(s, e) /\ Append(s, e) # <<>>
    BY <1>1, <1>2
  <1>4. \A x : (\E i \in DOMAIN Append(s, e) : Append(s, e)[i] = x)
                     <=> x = e \/ \E i \in DOMAIN s : s[i] = x
    BY <1>1, <1>3
  <1>5. NoneTwice(s) /\ (\A i \in DOMAIN s : s[i] # e) => NoneTwice(Append(s, e))
    BY <1>1, <1>3 DEF NoneTwice
  <1> QED
    BY <1>1, <1>2, <1>3, <1>4, <1>5

(***************************************************************************)
(* What a step leaves alone.                                               *)
(***************************************************************************)

\* A thread that delivers has a message.
LEMMA DeliversPayload ==
  ASSUME NodesInv, NEW t \in Threads, Delivering(t)
  PROVE  msg[t] \in Payloads
  BY DEF NodesInv, NodesTypeOK, FreshInv, Numbered, Payloads

\* Two threads never walk the same hub.
LEMMA OneWalks ==
  ASSUME NodesInv, NEW t \in Threads, NEW u \in Threads, Filling(t), Filling(u),
         NodeOf(t) = NodeOf(u)
  PROVE  t = u
  BY DEF NodesInv, WalkInv, MutexHeld

\* While nobody holds the mutex of a hub, nobody walks it.
LEMMA NobodyWalks ==
  ASSUME NodesInv, NEW n \in Nodes, holder[n] = None, NEW t \in Threads, NodeOf(t) = n
  PROVE  ~Filling(t)
  BY ThreadNode DEF NodesInv, WalkInv, MutexHeld

\* A step in which no thread begins or goes on to walk.
Idles ==
  /\ UNCHANGED <<qqs, holder, todo, log>>
  /\ \A t \in Threads : Filling(t)' => Filling(t) /\ msg'[t] = msg[t]
  /\ \A t \in Threads : pc'[t] = "wake" => pc[t] = "wake"

LEMMA WalkKept ==
  ASSUME NodesInv, Idles
  PROVE  WalkInv'
  <1>1. UNCHANGED <<qqs, holder, todo, log>>
    BY DEF Idles
  <1>2. MutexHeld' /\ LastLogged'
    BY <1>1 DEF Idles, NodesInv, WalkInv, MutexHeld, LastLogged
  <1>3. HubsOwn'
    BY <1>1 DEF NodesInv, WalkInv, HubsOwn
  <1>4. Walks'
    BY <1>1 DEF Idles, NodesInv, WalkInv, Walks, Linked
  <1> QED
    BY <1>2, <1>3, <1>4 DEF WalkInv

\* A step that brings no message to a hub or a thread.
BringsNothing ==
  /\ UNCHANGED <<sent, log>>
  /\ net' \subseteq net
  /\ \A n \in Nodes : n \notin targets'[n]
  /\ \A t \in Threads : Delivering(t)' => /\ Delivering(t) /\ msg'[t] = msg[t]
                                          /\ pc'[t] = "lock" => pc[t] = "lock"

LEMMA FreshKept ==
  ASSUME NodesInv, BringsNothing
  PROVE  FreshInv'
  <1>1. /\ UNCHANGED <<sent, log>> /\ net' \subseteq net
        /\ \A n \in Nodes : n \notin targets'[n]
        /\ \A t \in Threads : Delivering(t)' => Delivering(t) /\ msg'[t] = msg[t]
    BY DEF BringsNothing
  <1>2. \A t \in Threads : /\ pc'[t] = "lock" => pc[t] = "lock" /\ msg'[t] = msg[t]
                           /\ Delivering(t)' /\ Filling(t) => Filling(t)'
    BY DEF BringsNothing, Delivering, Filling
  <1>3. \A n, m : Logged(n, m)' <=> Logged(n, m)
    BY <1>1 DEF Logged
  <1>4. Numbered'
    BY <1>1 DEF NodesInv, FreshInv, Numbered
  <1>5. ClientAlone'
    <2>1. ASSUME NEW q \in Queues, Delivering(q)'
          PROVE  /\ \A t \in Threads : Delivering(t)' /\ msg'[t] = msg'[q] => t = q
                 /\ \A d \in net' : d.msg # msg'[q]
                 /\ \A n \in Nodes : (\E i \in DOMAIN log'[n] : log'[n][i] = msg'[q]) => n = Home[q] /\ Filling(q)'
      <3>1. Delivering(q) /\ msg'[q] = msg[q] /\ q \in Threads
        BY <1>1, <2>1, ThreadNode
      <3>2. /\ \A t \in Threads : Delivering(t) /\ msg[t] = msg[q] => t = q
            /\ \A d \in net : d.msg # msg[q]
            /\ \A n \in Nodes : Logged(n, msg[q]) => n = Home[q] /\ Filling(q)
        BY <3>1 DEF NodesInv, FreshInv, ClientAlone
      <3>3. Filling(q) => Filling(q)'
        BY <1>2, <2>1, <3>1
      <3>4. \A n \in Nodes : (\E i \in DOMAIN log'[n] : log'[n][i] = msg'[q]) => n = Home[q] /\ Filling(q)'
        BY <3>1, <3>2, <3>3, <1>1 DEF Logged
      <3> QED
        BY <1>1, <3>1, <3>2, <3>4
    <2> QED
      BY <2>1 DEF ClientAlone, Logged
  <1>6. HubOnce'
    <2>1. ASSUME NEW n \in Nodes
          PROVE  /\ \A d \in net' : d.to = n => ~(\E i \in DOMAIN log'[n] : log'[n][i] = d.msg)
                 /\ pc'[n] = "lock" => /\ ~(\E i \in DOMAIN log'[n] : log'[n][i] = msg'[n])
                                      /\ [to |-> n, msg |-> msg'[n]] \notin net'
      <3>1. /\ \A d \in net : d.to = n => ~Logged(n, d.msg)
            /\ pc[n] = "lock" => ~Logged(n, msg[n]) /\ [to |-> n, msg |-> msg[n]] \notin net
        BY DEF NodesInv, FreshInv, HubOnce
      <3>2. pc'[n] = "lock" => pc[n] = "lock" /\ msg'[n] = msg[n]
        BY <1>2, ThreadNode
      <3> QED
        BY <1>1, <3>1, <3>2 DEF Logged
    <2> QED
      BY <1>1, <2>1 DEF HubOnce, Logged
  <1>7. NoEcho'
    BY <1>1 DEF NodesInv, FreshInv, NoEcho
  <1> QED
    BY <1>4, <1>5, <1>6, <1>7 DEF FreshInv

\* A step that touches neither a queue nor its pipe, and in which nobody is
\* about to.
LeavesQueues ==
  /\ UNCHANGED queue
  /\ \A t \in Threads : /\ pc'[t] = "wake" <=> pc[t] = "wake"
                        /\ pc[t] = "wake" => todo'[t] = todo[t]
  /\ \A q \in Queues : pc'[q] = "pop" <=> pc[q] = "pop"

Comes(q) == {t \in Threads : pc[t] = "wake" /\ Head(todo[t]) = q}

LEMMA WakeKept ==
  ASSUME NodesInv, LeavesQueues
  PROVE  WakeUpForEveryMessage'
  <1>1. \A q \in Queues : Comes(q)' = Comes(q)
    BY DEF LeavesQueues, Comes
  <1>2. \A q \in Queues : Coming(q)' = Coming(q) /\ Taking(q)' = Taking(q)
    BY <1>1 DEF LeavesQueues, Coming, Comes, Taking
  <1> QED
    BY <1>2 DEF NodesInv, WakeUpForEveryMessage, LeavesQueues, queue

\* A byte is brought to a queue by a thread that walks its hub.
LEMMA OnesComing ==
  ASSUME NodesInv, NEW q \in Queues, NEW x \in Comes(q)
  PROVE  x \in Threads /\ Filling(x) /\ NodeOf(x) = Home[q]
  <1>1. x \in Threads /\ pc[x] = "wake" /\ Head(todo[x]) = q /\ todo[x] # <<>> /\ todo[x] \in Seq(Queues)
    BY DEF Comes, NodesInv, NodesTypeOK, WalkInv, Walks
  <1>2. 1 \in DOMAIN todo[x] /\ todo[x][1] = q
    BY <1>1, TailSeq
  <1> QED
    BY <1>1, <1>2 DEF Filling, NodesInv, WalkInv, Walks

\* At most one byte is on its way to a queue.
LEMMA OneComes ==
  ASSUME NodesInv, NEW q \in Queues
  PROVE  /\ \A x, y \in Comes(q) : x = y
         /\ Coming(q) = IF Comes(q) = {} THEN 0 ELSE 1
  <1>2. \A x, y \in Comes(q) : x = y
    BY OnesComing, OneWalks
  <1> QED
    BY <1>2, AtMostOne DEF Coming, Comes

(***************************************************************************)
(* Types.                                                                  *)
(***************************************************************************)

\* The types of a hub, of the queues and of the threads.
HubTypes == qqs \in [Nodes -> Seq(Queues)] /\ targets \in [Nodes -> SUBSET Nodes]
            /\ holder \in [Nodes -> Threads \cup {None}]
QueueTypes == qq \in [Queues -> Seq(Payloads)] /\ (\A q \in Queues : Len(qq[q]) <= MaxQq)
              /\ pipe \in [Queues -> 0 .. PipeCap]
ThreadTypes == pc \in [Threads -> {"off", "starting", "idle", "lock", "fill", "wake", "pop"}]
               /\ msg \in [Threads -> 0 .. MaxSent] /\ todo \in [Threads -> Seq(Queues)]
LogTypes == net \subseteq [to : Nodes, msg : Payloads] /\ log \in [Nodes -> Seq(Payloads)]
            /\ sent \in 0 .. MaxSent
SetupTypes == /\ registered \subseteq Nodes /\ active \subseteq Nodes /\ polled \subseteq Nodes
              /\ status \in {"run", "race", "terminate", "empty_front"}

LEMMA TypesSplit ==
  NodesTypeOK <=> SetupTypes /\ HubTypes /\ QueueTypes /\ ThreadTypes /\ LogTypes
  BY DEF NodesTypeOK, SetupTypes, HubTypes, QueueTypes, ThreadTypes, LogTypes

\* The variables keep their types.
LEMMA TypeStep ==
  ASSUME NodesInv, [Next]_vars
  PROVE  NodesTypeOK'
  <1>a. SetupTypes /\ HubTypes /\ QueueTypes /\ ThreadTypes /\ LogTypes
    BY TypesSplit DEF NodesInv
  <1>b. MaxSent \in Nat /\ MaxQq \in Nat \ {0} /\ PipeCap \in Nat
    BY NodesAssumption
  <1>c. \A t \in Threads : /\ Delivering(t) => msg[t] \in Payloads
                           /\ todo[t] \in Seq(Queues) /\ NodeOf(t) \in Nodes
                           /\ todo[t] # <<>> => Head(todo[t]) \in Queues /\ Tail(todo[t]) \in Seq(Queues)
    BY <1>a, DeliversPayload, ThreadNode, TailSeq DEF ThreadTypes
  <1>1. CASE UNCHANGED vars
    BY <1>a, <1>1 DEF NodesTypeOK, vars, setup, hub, queue, thread,
       SetupTypes, HubTypes, QueueTypes, ThreadTypes, LogTypes
  <1>2. ASSUME NEW s \in {"race", "terminate", "empty_front"}, Halt(s) PROVE NodesTypeOK'
    BY <1>a, <1>2 DEF NodesTypeOK, Halt, setup, hub, queue, thread,
       SetupTypes, HubTypes, QueueTypes, ThreadTypes, LogTypes
  <1>3. CASE Setup
    <2>1. ASSUME NEW n \in Nodes, Register(n) PROVE NodesTypeOK'
      BY <1>a, <2>1 DEF NodesTypeOK, Register, WithSocket, hub, queue, thread,
         SetupTypes, HubTypes, QueueTypes, ThreadTypes, LogTypes
    <2>2. ASSUME NEW n \in Nodes, StartNetwork(n) PROVE NodesTypeOK'
      BY <1>a, <2>2 DEF NodesTypeOK, StartNetwork, hub, queue,
         SetupTypes, HubTypes, QueueTypes, ThreadTypes, LogTypes
    <2>3. ASSUME NEW n \in Nodes, Snapshot(n) PROVE NodesTypeOK'
      BY <1>a, <2>3 DEF NodesTypeOK, Snapshot, hub, queue,
         SetupTypes, HubTypes, QueueTypes, ThreadTypes, LogTypes
    <2>4. ASSUME NEW q \in Queues, CreateStream(q) PROVE NodesTypeOK'
      BY <1>a, <2>4 DEF NodesTypeOK, CreateStream, setup, queue, thread,
         SetupTypes, HubTypes, QueueTypes, ThreadTypes, LogTypes
    <2>5. ASSUME NEW q \in Queues, CreateStreamRace(q) \/ CreateStreamUnknown(q) PROVE NodesTypeOK'
      BY <1>2, <2>5 DEF CreateStreamRace, CreateStreamUnknown
    <2>6. ASSUME NEW n \in Nodes, NEW m \in Nodes, AddMessageTarget(n, m) PROVE NodesTypeOK'
      BY <1>a, <2>6 DEF NodesTypeOK, AddMessageTarget, setup, queue, thread,
         SetupTypes, HubTypes, QueueTypes, ThreadTypes, LogTypes
    <2>7. ASSUME NEW n \in Nodes, NEW m \in Nodes, RemoveMessageTarget(n, m) PROVE NodesTypeOK'
      BY <1>a, <2>7 DEF NodesTypeOK, RemoveMessageTarget, setup, queue, thread,
         SetupTypes, HubTypes, QueueTypes, ThreadTypes, LogTypes
    <2> QED
      BY <1>3, <2>1, <2>2, <2>3, <2>4, <2>5, <2>6, <2>7 DEF Setup
  <1>4. CASE Network
    <2>1. ASSUME NEW d \in net, Lose(d) PROVE NodesTypeOK'
      BY <1>a, <2>1 DEF NodesTypeOK, Lose, setup, hub, queue, thread,
         SetupTypes, HubTypes, QueueTypes, ThreadTypes, LogTypes
    <2>2. ASSUME NEW d \in net, NEW n \in Nodes, Receive(n, d) PROVE NodesTypeOK'
      <3>1. d.msg \in 0 .. MaxSent
        BY <1>a, <1>b DEF LogTypes, Payloads
      <3> QED
        BY <1>a, <2>2, <3>1 DEF NodesTypeOK, Receive, setup, hub, queue,
           SetupTypes, HubTypes, QueueTypes, ThreadTypes, LogTypes
    <2> QED
      BY <1>4, <2>1, <2>2 DEF Network
  <1>5. ASSUME NEW t \in Threads, Deliver(t) PROVE NodesTypeOK'
    <2>1. CASE Lock(t)
      <3>1. msg[t] \in Payloads
        BY <1>c, <2>1 DEF Lock, Delivering
      <3> QED
        BY <1>a, <1>c, <2>1, <3>1 DEF NodesTypeOK, Lock, setup, queue,
           SetupTypes, HubTypes, QueueTypes, ThreadTypes, LogTypes
    <2>2. CASE Skip(t)
      BY <1>a, <1>c, <2>2 DEF NodesTypeOK, Skip, setup, hub, queue,
         SetupTypes, HubTypes, QueueTypes, ThreadTypes, LogTypes
    <2>3. CASE Insert(t)
      <3>1. msg[t] \in Payloads /\ Head(todo[t]) \in Queues
        BY <1>c, <2>3 DEF Insert, Delivering
      <3>2. ASSUME NEW s \in Seq(Payloads), Len(s) <= MaxQq
            PROVE  Inserted(s, msg[t]) \in Seq(Payloads) /\ Len(Inserted(s, msg[t])) <= MaxQq
        BY <1>b, <3>1, <3>2, AppendSeq DEF Inserted
      <3>3. QueueTypes'
        BY <1>a, <2>3, <3>1, <3>2 DEF Insert, QueueTypes
      <3> QED
        BY <1>a, <2>3, <3>3 DEF NodesTypeOK, Insert, setup, hub,
           SetupTypes, HubTypes, QueueTypes, ThreadTypes, LogTypes
    <2>4. CASE Wake(t)
      <3>1. Head(todo[t]) \in Queues /\ Tail(todo[t]) \in Seq(Queues)
        BY <1>c, <2>4 DEF Wake, NodesInv, WalkInv, Walks
      <3>2. QueueTypes'
        BY <1>a, <1>b, <2>4, <3>1 DEF Wake, Woken, QueueTypes
      <3> QED
        BY <1>a, <2>4, <3>1, <3>2 DEF NodesTypeOK, Wake, setup, hub,
           SetupTypes, HubTypes, QueueTypes, ThreadTypes, LogTypes
    <2>5. CASE Unlock(t)
      <3>1. msg[t] \in Payloads /\ NodeOf(t) \in Nodes /\ 0 \in 0 .. MaxSent
        BY <1>b, <1>c, <2>5 DEF Unlock, Delivering
      <3>2. LogTypes'
        BY <1>a, <2>5, <3>1 DEF Unlock, LogTypes, HubTypes
      <3> QED
        BY <1>a, <2>5, <3>1, <3>2 DEF NodesTypeOK, Unlock, setup, queue,
           SetupTypes, HubTypes, QueueTypes, ThreadTypes, LogTypes
    <2> QED
      BY <1>5, <2>1, <2>2, <2>3, <2>4, <2>5 DEF Deliver
  <1>6. ASSUME NEW q \in Queues, Send(q) PROVE NodesTypeOK'
    <2>1. sent + 1 \in 0 .. MaxSent
      BY <1>a, <1>b, <1>6 DEF Send, LogTypes
    <2>2. ThreadTypes' /\ sent' \in 0 .. MaxSent
      BY <1>a, <1>6, <2>1 DEF Send, ThreadTypes
    <2> QED
      BY <1>a, <1>6, <2>2 DEF NodesTypeOK, Send, setup, hub, queue,
         SetupTypes, HubTypes, QueueTypes, ThreadTypes, LogTypes
  <1>7. ASSUME NEW q \in Queues, Read(q) PROVE NodesTypeOK'
    <2>1. CASE ReadByte(q)
      <3>1. QueueTypes'
        BY <1>a, <1>b, <2>1 DEF ReadByte, QueueTypes
      <3>2. ThreadTypes'
        BY <1>a, <2>1 DEF ReadByte, ThreadTypes
      <3> QED
        BY <1>a, <2>1, <3>1, <3>2 DEF NodesTypeOK, ReadByte, setup, hub,
           SetupTypes, HubTypes, QueueTypes, ThreadTypes, LogTypes
    <2>2. CASE Pop(q)
      <3>1. Tail(qq[q]) \in Seq(Payloads) /\ Len(Tail(qq[q])) <= MaxQq
        BY <1>a, <1>b, <2>2, TailSeq DEF Pop, QueueTypes
      <3>2. QueueTypes'
        BY <1>a, <2>2, <3>1 DEF Pop, QueueTypes
      <3> QED
        BY <1>a, <2>2, <3>2 DEF NodesTypeOK, Pop, setup, hub,
           SetupTypes, HubTypes, QueueTypes, ThreadTypes, LogTypes
    <2> QED
      BY <1>2, <1>7, <2>1, <2>2 DEF Read, PopEmpty
  <1> QED
    BY <1>1, <1>3, <1>4, <1>5, <1>6, <1>7 DEF Next

(***************************************************************************)
(* Walking the queues of a hub.                                            *)
(***************************************************************************)

\* Setting up, datagrams, writers and readers leave the walks alone.
LEMMA WalkElsewhere ==
  ASSUME NodesInv,
         \/ Network
         \/ \E n \in Nodes : Register(n) \/ StartNetwork(n) \/ Snapshot(n)
         \/ \E q \in Queues : CreateStreamRace(q) \/ CreateStreamUnknown(q)
         \/ \E n, m \in Nodes : AddMessageTarget(n, m) \/ RemoveMessageTarget(n, m)
         \/ \E q \in Queues : Send(q) \/ Read(q)
  PROVE  WalkInv'
  <1>a. pc \in [Threads -> {"off", "starting", "idle", "lock", "fill", "wake", "pop"}]
        /\ msg \in [Threads -> 0 .. MaxSent]
    BY DEF NodesInv, NodesTypeOK
  <1>1. ASSUME Network PROVE Idles
    BY <1>a, <1>1 DEF Network, Lose, Receive, Idles, Filling, setup, hub, queue, thread
  <1>2. ASSUME NEW n \in Nodes, Register(n) \/ StartNetwork(n) \/ Snapshot(n) PROVE Idles
    BY <1>a, <1>2 DEF Register, StartNetwork, Snapshot, Idles, Filling, setup, hub, queue, thread
  <1>3. ASSUME NEW q \in Queues, CreateStreamRace(q) \/ CreateStreamUnknown(q) PROVE Idles
    BY <1>3 DEF CreateStreamRace, CreateStreamUnknown, Halt, Idles, Filling, setup, hub, queue, thread
  <1>4. ASSUME NEW n \in Nodes, NEW m \in Nodes, AddMessageTarget(n, m) \/ RemoveMessageTarget(n, m)
        PROVE  Idles
    BY <1>4 DEF AddMessageTarget, RemoveMessageTarget, Idles, Filling, setup, hub, queue, thread
  <1>5. ASSUME NEW q \in Queues, Send(q) \/ Read(q) PROVE Idles
    BY <1>a, <1>5 DEF Send, Read, ReadByte, Pop, PopEmpty, Halt, Idles, Filling, setup, hub, queue, thread
  <1> QED
    BY <1>1, <1>2, <1>3, <1>4, <1>5, WalkKept

\* A new stream goes to the end of its hub, which nobody walks.
LEMMA WalkCreateStream ==
  ASSUME NodesInv, NEW q \in Queues, CreateStream(q)
  PROVE  WalkInv'
  <1>a. /\ qqs \in [Nodes -> Seq(Queues)] /\ Home[q] \in Nodes /\ qqs[Home[q]] \in Seq(Queues)
        /\ \A i \in DOMAIN qqs[Home[q]] : qqs[Home[q]][i] # q
        /\ qqs' = [qqs EXCEPT ![Home[q]] = Append(@, q)]
        /\ UNCHANGED <<holder, pc, msg, todo, log>>
    BY ThreadNode DEF NodesInv, NodesTypeOK, CreateStream, Linked, thread
  <1>1. MutexHeld' /\ LastLogged'
    BY <1>a DEF NodesInv, WalkInv, MutexHeld, LastLogged, Filling
  <1>2. ASSUME NEW n \in Nodes
        PROVE  /\ NoneTwice(qqs'[n]) /\ \A i \in DOMAIN qqs'[n] : Home[qqs'[n][i]] = n
               /\ \A x : (\E i \in DOMAIN qqs[n] : qqs[n][i] = x)
                           => \E i \in DOMAIN qqs'[n] : qqs'[n][i] = x
    <2>1. NoneTwice(qqs[n]) /\ \A i \in DOMAIN qqs[n] : Home[qqs[n][i]] = n
      BY DEF NodesInv, WalkInv, HubsOwn
    <2>2. CASE n # Home[q]
      <3>1. qqs'[n] = qqs[n]
        BY <1>a, <2>2
      <3> QED
        BY <2>1, <3>1
    <2>3. CASE n = Home[q]
      <3>1. qqs'[n] = Append(qqs[n], q) /\ qqs[n] \in Seq(Queues)
        BY <1>a, <2>3
      <3>2. NoneTwice(Append(qqs[n], q))
        BY <1>a, <2>1, <2>3, AppendSeq
      <3>3. \A i \in DOMAIN Append(qqs[n], q) : Home[Append(qqs[n], q)[i]] = n
        BY <2>1, <2>3, <3>1, AppendSeq
      <3>4. \A x : (\E i \in DOMAIN qqs[n] : qqs[n][i] = x)
                           => \E i \in DOMAIN Append(qqs[n], q) : Append(qqs[n], q)[i] = x
        BY <3>1, AppendSeq
      <3> QED
        BY <3>1, <3>2, <3>3, <3>4
    <2> QED
      BY <2>2, <2>3
  <1>3. HubsOwn'
    BY <1>2 DEF HubsOwn, NoneTwice
  <1>4. \A r \in Queues : Linked(r) => Linked(r)'
    BY <1>2, ThreadNode DEF Linked
  <1>5. Walks'
    <2>1. ASSUME NEW t \in Threads
          PROVE  /\ NoneTwice(todo[t])
                 /\ \A i \in DOMAIN todo[t] :
                      /\ Home[todo[t][i]] = NodeOf(t)
                      /\ \E j \in DOMAIN qqs'[Home[todo[t][i]]] : qqs'[Home[todo[t][i]]][j] = todo[t][i]
                 /\ pc[t] = "wake" => todo[t] # <<>> /\ Reads(Head(todo[t]))
      <3>1. \A i \in DOMAIN todo[t] : todo[t][i] \in Queues
        BY DEF NodesInv, NodesTypeOK
      <3>2. \A i \in DOMAIN todo[t] : Linked(todo[t][i])
        BY DEF NodesInv, WalkInv, Walks
      <3>3. \A i \in DOMAIN todo[t] :
              \E j \in DOMAIN qqs'[Home[todo[t][i]]] : qqs'[Home[todo[t][i]]][j] = todo[t][i]
        BY <1>4, <3>1, <3>2 DEF Linked
      <3> QED
        BY <3>3 DEF NodesInv, WalkInv, Walks
    <2>2. todo' = todo /\ pc' = pc
      BY <1>a
    <2> QED
      BY <2>1, <2>2 DEF Walks, Linked
  <1> QED
    BY <1>1, <1>3, <1>5 DEF WalkInv

\* The queues of a hub do not change while it is walked.
LEMMA WalkDeliver ==
  ASSUME NodesInv, NEW t \in Threads, Deliver(t)
  PROVE  WalkInv'
  <1>a. /\ pc \in [Threads -> {"off", "starting", "idle", "lock", "fill", "wake", "pop"}]
        /\ msg \in [Threads -> 0 .. MaxSent] /\ todo \in [Threads -> Seq(Queues)]
        /\ holder \in [Nodes -> Threads \cup {None}] /\ log \in [Nodes -> Seq(Payloads)]
        /\ NodeOf(t) \in Nodes /\ qqs \in [Nodes -> Seq(Queues)]
    BY ThreadNode DEF NodesInv, NodesTypeOK
  <1>b. qqs' = qqs /\ HubsOwn'
    BY DEF NodesInv, WalkInv, HubsOwn, Deliver, Lock, Skip, Insert, Wake, Unlock, hub
  <1>c. MutexHeld /\ Walks /\ LastLogged /\ \A u \in Threads : NodeOf(u) \in Nodes
    BY ThreadNode DEF NodesInv, WalkInv
  <1>1. CASE Lock(t)
    <2>1. /\ holder' = [holder EXCEPT ![NodeOf(t)] = t] /\ holder[NodeOf(t)] = None
          /\ todo' = [todo EXCEPT ![t] = qqs[NodeOf(t)]]
          /\ pc' = [pc EXCEPT ![t] = "fill"] /\ msg' = msg
          /\ log' = [log EXCEPT ![NodeOf(t)] = Append(@, msg[t])]
      BY <1>1 DEF Lock
    <2>2. msg[t] \in Payloads
      BY <1>1, DeliversPayload DEF Lock, Delivering
    <2>3. \A u \in Threads : NodeOf(u) = NodeOf(t) => ~Filling(u)
      BY <1>a, <2>1, NobodyWalks
    <2>4. \A u \in Threads : Filling(u)' <=> u = t \/ Filling(u)
      BY <1>a, <2>1 DEF Filling
    <2>5. MutexHeld'
      BY <1>a, <1>c, <2>1, <2>3, <2>4 DEF MutexHeld
    <2>6. LastLogged'
      <3>1. LET l == log'[NodeOf(t)] IN l # <<>> /\ l[Len(l)] = msg[t]
        <4>1. log'[NodeOf(t)] = Append(log[NodeOf(t)], msg[t]) /\ log[NodeOf(t)] \in Seq(Payloads)
          BY <1>a, <2>1
        <4> QED
          BY <2>2, <4>1, AppendSeq
      <3> QED
        BY <1>a, <1>c, <2>1, <2>3, <2>4, <3>1 DEF LastLogged
    <2>7. Walks'
      <3>1. NoneTwice(qqs[NodeOf(t)]) /\ \A i \in DOMAIN qqs[NodeOf(t)] : Home[qqs[NodeOf(t)][i]] = NodeOf(t)
        BY <1>a DEF NodesInv, WalkInv, HubsOwn
      <3>2. \A i \in DOMAIN qqs[NodeOf(t)] : Linked(qqs[NodeOf(t)][i])
        BY <3>1 DEF Linked
      <3>3. ASSUME NEW u \in Threads
            PROVE  /\ NoneTwice(todo'[u])
                   /\ \A i \in DOMAIN todo'[u] : Home[todo'[u][i]] = NodeOf(u) /\ Linked(todo'[u][i])
                   /\ pc'[u] = "wake" => todo'[u] # <<>> /\ Reads(Head(todo'[u]))
        <4>1. CASE u = t
          <5>1. todo'[u] = qqs[NodeOf(t)] /\ pc'[u] = "fill"
            BY <1>a, <2>1, <4>1
          <5> QED
            BY <3>1, <3>2, <4>1, <5>1
        <4>2. CASE u # t
          <5>1. todo'[u] = todo[u] /\ pc'[u] = pc[u]
            BY <1>a, <2>1, <4>2
          <5> QED
            BY <1>c, <5>1 DEF Walks
        <4> QED
          BY <4>1, <4>2
      <3> QED
        BY <1>b, <3>3 DEF Walks, Linked
    <2> QED
      BY <1>b, <2>5, <2>6, <2>7 DEF WalkInv
  <1>2. CASE Skip(t) \/ Wake(t)
    <2>1. /\ UNCHANGED <<holder, msg, log>> /\ todo[t] # <<>> /\ Filling(t)
          /\ todo' = [todo EXCEPT ![t] = Tail(@)]
          /\ pc' = [pc EXCEPT ![t] = "fill"]
      BY <1>a, <1>c, <1>2 DEF Skip, Wake, Walks, hub, Filling
    <2>2. \A u \in Threads : Filling(u)' <=> Filling(u)
      BY <1>a, <2>1 DEF Filling
    <2>3. MutexHeld' /\ LastLogged'
      BY <1>c, <2>1, <2>2 DEF MutexHeld, LastLogged
    <2>4. /\ NoneTwice(Tail(todo[t]))
          /\ \A i \in DOMAIN Tail(todo[t]) : /\ Home[Tail(todo[t])[i]] = NodeOf(t)
                                             /\ Linked(Tail(todo[t])[i])
      <3>1. /\ \A i \in DOMAIN Tail(todo[t]) : i + 1 \in DOMAIN todo[t] /\ Tail(todo[t])[i] = todo[t][i + 1]
            /\ NoneTwice(todo[t]) => NoneTwice(Tail(todo[t]))
        BY <1>a, <2>1, TailSeq
      <3> QED
        BY <1>c, <3>1 DEF Walks
    <2>5. ASSUME NEW u \in Threads
          PROVE  /\ NoneTwice(todo'[u])
                 /\ \A i \in DOMAIN todo'[u] : Home[todo'[u][i]] = NodeOf(u) /\ Linked(todo'[u][i])
                 /\ pc'[u] = "wake" => todo'[u] # <<>> /\ Reads(Head(todo'[u]))
      <3>1. CASE u = t
        <4>1. todo'[u] = Tail(todo[t]) /\ pc'[u] = "fill"
          BY <1>a, <2>1, <3>1
        <4> QED
          BY <2>4, <3>1, <4>1
      <3>2. CASE u # t
        <4>1. todo'[u] = todo[u] /\ pc'[u] = pc[u]
          BY <1>a, <2>1, <3>2
        <4> QED
          BY <1>c, <4>1 DEF Walks
      <3> QED
        BY <3>1, <3>2
    <2>6. Walks'
      BY <1>b, <2>5 DEF Walks, Linked
    <2> QED
      BY <1>b, <2>3, <2>6 DEF WalkInv
  <1>3. CASE Insert(t)
    <2>1. /\ UNCHANGED <<holder, msg, log, todo>> /\ Filling(t)
          /\ todo[t] # <<>> /\ Reads(Head(todo[t]))
          /\ pc' = [pc EXCEPT ![t] = "wake"]
      BY <1>3 DEF Insert, hub, Filling
    <2>2. \A u \in Threads : Filling(u)' <=> Filling(u)
      BY <1>a, <2>1 DEF Filling
    <2>3. MutexHeld' /\ LastLogged'
      BY <1>c, <2>1, <2>2 DEF MutexHeld, LastLogged
    <2>4. ASSUME NEW u \in Threads
          PROVE  /\ NoneTwice(todo[u])
                 /\ \A i \in DOMAIN todo[u] : Home[todo[u][i]] = NodeOf(u) /\ Linked(todo[u][i])
                 /\ pc'[u] = "wake" => todo[u] # <<>> /\ Reads(Head(todo[u]))
      BY <1>a, <1>c, <2>1 DEF Walks
    <2>5. Walks'
      BY <1>b, <2>1, <2>4 DEF Walks, Linked
    <2> QED
      BY <1>b, <2>3, <2>5 DEF WalkInv
  <1>4. CASE Unlock(t)
    <2>1. /\ UNCHANGED <<log, todo>> /\ Filling(t)
          /\ holder' = [holder EXCEPT ![NodeOf(t)] = None]
          /\ msg' = [msg EXCEPT ![t] = 0]
          /\ pc' = [pc EXCEPT ![t] = "idle"]
      BY <1>4 DEF Unlock, Filling
    <2>2. \A u \in Threads : Filling(u)' <=> Filling(u) /\ u # t
      BY <1>a, <2>1 DEF Filling
    <2>3. \A u \in Threads : Filling(u)' => NodeOf(u) # NodeOf(t)
      BY <2>1, <2>2, OneWalks
    <2>4. MutexHeld'
      BY <1>a, <1>c, <2>1, <2>2, <2>3 DEF MutexHeld
    <2>5. LastLogged'
      BY <1>a, <1>c, <2>1, <2>2 DEF LastLogged
    <2>6. Walks'
      BY <1>a, <1>b, <1>c, <2>1 DEF Walks, Linked
    <2> QED
      BY <1>b, <2>4, <2>5, <2>6 DEF WalkInv
  <1> QED
    BY <1>1, <1>2, <1>3, <1>4 DEF Deliver

(***************************************************************************)
(* The way of a message.                                                   *)
(***************************************************************************)

\* Steps that neither send nor receive nor pass a hub bring no message.
LEMMA FreshElsewhere ==
  ASSUME NodesInv,
         \/ Setup
         \/ \E d \in net : Lose(d)
         \/ \E q \in Queues : Read(q)
         \/ \E t \in Threads : Skip(t) \/ Insert(t) \/ Wake(t)
  PROVE  FreshInv'
  <1>a. /\ pc \in [Threads -> {"off", "starting", "idle", "lock", "fill", "wake", "pop"}]
        /\ msg \in [Threads -> 0 .. MaxSent] /\ targets \in [Nodes -> SUBSET Nodes]
        /\ \A n \in Nodes : n \notin targets[n]
    BY DEF NodesInv, NodesTypeOK, FreshInv, HubOnce
  <1>1. ASSUME NEW n \in Nodes, Register(n) \/ StartNetwork(n) \/ Snapshot(n) PROVE BringsNothing
    BY <1>a, <1>1 DEF Register, StartNetwork, Snapshot, BringsNothing, Delivering, setup, hub, queue, thread
  <1>2. ASSUME NEW q \in Queues, CreateStream(q) \/ CreateStreamRace(q) \/ CreateStreamUnknown(q)
        PROVE  BringsNothing
    BY <1>a, <1>2 DEF CreateStream, CreateStreamRace, CreateStreamUnknown, Halt, BringsNothing,
       Delivering, setup, hub, queue, thread
  <1>3. ASSUME NEW n \in Nodes, NEW m \in Nodes, AddMessageTarget(n, m) \/ RemoveMessageTarget(n, m)
        PROVE  BringsNothing
    <2>1. \A k \in Nodes : k \notin targets'[k]
      BY <1>a, <1>3 DEF AddMessageTarget, RemoveMessageTarget
    <2> QED
      BY <1>3, <2>1 DEF AddMessageTarget, RemoveMessageTarget, BringsNothing, Delivering, queue, thread
  <1>4. ASSUME NEW d \in net, Lose(d) PROVE BringsNothing
    BY <1>a, <1>4 DEF Lose, BringsNothing, Delivering, setup, hub, queue, thread
  <1>5. ASSUME NEW q \in Queues, Read(q) PROVE BringsNothing
    BY <1>a, <1>5 DEF Read, ReadByte, Pop, PopEmpty, Halt, BringsNothing, Delivering, setup, hub,
       queue, thread
  <1>6. ASSUME NEW t \in Threads, Skip(t) \/ Insert(t) \/ Wake(t) PROVE BringsNothing
    BY <1>a, <1>6 DEF Skip, Insert, Wake, BringsNothing, Delivering, setup, hub, queue, thread
  <1> QED
    BY <1>1, <1>2, <1>3, <1>4, <1>5, <1>6, FreshKept DEF Setup

\* A client writes a message nobody has seen.
LEMMA FreshSend ==
  ASSUME NodesInv, NEW q \in Queues, Send(q)
  PROVE  FreshInv'
  <1>a. /\ sent' = sent + 1 /\ pc' = [pc EXCEPT ![q] = "lock"] /\ msg' = [msg EXCEPT ![q] = sent + 1]
        /\ UNCHANGED <<targets, net, log>> /\ sent \in Nat /\ pc[q] = "idle" /\ q \in Threads
        /\ pc \in [Threads -> {"off", "starting", "idle", "lock", "fill", "wake", "pop"}]
        /\ msg \in [Threads -> 0 .. MaxSent]
    BY NodesAssumption, ThreadNode DEF NodesInv, NodesTypeOK, Send, hub
  <1>b. Numbered /\ ClientAlone /\ HubOnce /\ NoEcho
    BY DEF NodesInv, FreshInv
  <1>1. /\ \A t \in Threads : Delivering(t) => msg[t] # sent + 1
        /\ \A d \in net : d.msg # sent + 1
        /\ \A n \in Nodes : \A i \in DOMAIN log[n] : log[n][i] # sent + 1
    BY <1>a, <1>b DEF Numbered
  <1>2. \A t \in Threads : t # q => pc'[t] = pc[t] /\ msg'[t] = msg[t]
    BY <1>a
  <1>3. pc'[q] = "lock" /\ msg'[q] = sent + 1 /\ ~Delivering(q)
    BY <1>a DEF Delivering
  <1>4. Numbered'
    BY <1>a, <1>b, <1>2, <1>3 DEF Numbered, Delivering
  <1>5. ClientAlone'
    <2>1. ASSUME NEW r \in Queues, Delivering(r)'
          PROVE  /\ \A t \in Threads : Delivering(t)' /\ msg'[t] = msg'[r] => t = r
                 /\ \A d \in net' : d.msg # msg'[r]
                 /\ \A n \in Nodes : (\E i \in DOMAIN log'[n] : log'[n][i] = msg'[r])
                                       => n = Home[r] /\ Filling(r)'
      <3>1. CASE r = q
        <4>1. \A t \in Threads : Delivering(t)' /\ msg'[t] = sent + 1 => t = q
          BY <1>1, <1>2 DEF Delivering
        <4> QED
          BY <1>a, <1>1, <1>3, <3>1, <4>1
      <3>2. CASE r # q
        <4>1. Delivering(r) /\ pc'[r] = pc[r] /\ msg'[r] = msg[r] /\ r \in Threads
          BY <1>2, <2>1, <3>2, ThreadNode DEF Delivering
        <4>2. \A t \in Threads : Delivering(t)' /\ msg'[t] = msg[r] => t = r
          BY <1>b, <1>1, <1>2, <1>3, <4>1 DEF ClientAlone, Delivering
        <4>3. \A d \in net : d.msg # msg[r]
          BY <1>b, <4>1 DEF ClientAlone
        <4>4. \A n \in Nodes : (\E i \in DOMAIN log[n] : log[n][i] = msg[r]) => n = Home[r] /\ Filling(r)
          BY <1>b, <4>1 DEF ClientAlone, Logged
        <4> QED
          BY <1>a, <4>1, <4>2, <4>3, <4>4 DEF Filling
      <3> QED
        BY <3>1, <3>2
    <2> QED
      BY <2>1 DEF ClientAlone, Logged
  <1>6. \A n \in Nodes : pc'[n] = pc[n] /\ msg'[n] = msg[n]
    BY <1>2, ThreadNode
  <1>7. HubOnce' /\ NoEcho'
    BY <1>a, <1>b, <1>6 DEF HubOnce, NoEcho, Logged
  <1> QED
    BY <1>4, <1>5, <1>7 DEF FreshInv

\* A datagram that is received is in the hands of its hub alone.
LEMMA FreshReceive ==
  ASSUME NodesInv, NEW d \in net, NEW n \in Nodes, Receive(n, d)
  PROVE  FreshInv'
  <1>a. /\ pc' = [pc EXCEPT ![n] = "lock"] /\ msg' = [msg EXCEPT ![n] = d.msg] /\ d.to = n
        /\ net' = net \ {d} /\ UNCHANGED <<targets, sent, log>> /\ n \in Threads /\ n \notin Queues
        /\ pc \in [Threads -> {"off", "starting", "idle", "lock", "fill", "wake", "pop"}]
        /\ msg \in [Threads -> 0 .. MaxSent] /\ d = [to |-> d.to, msg |-> d.msg]
    BY ThreadNode DEF NodesInv, NodesTypeOK, Receive, hub
  <1>b. Numbered /\ ClientAlone /\ HubOnce /\ NoEcho
    BY DEF NodesInv, FreshInv
  <1>2. \A t \in Threads : t # n => pc'[t] = pc[t] /\ msg'[t] = msg[t]
    BY <1>a
  <1>3. pc'[n] = "lock" /\ msg'[n] = d.msg
    BY <1>a
  <1>4. Numbered'
    BY <1>a, <1>b, <1>2, <1>3 DEF Numbered, Delivering
  <1>5. ClientAlone'
    <2>1. ASSUME NEW r \in Queues, Delivering(r)'
          PROVE  /\ \A t \in Threads : Delivering(t)' /\ msg'[t] = msg'[r] => t = r
                 /\ \A e \in net' : e.msg # msg'[r]
                 /\ \A k \in Nodes : (\E i \in DOMAIN log'[k] : log'[k][i] = msg'[r])
                                       => k = Home[r] /\ Filling(r)'
      <3>1. r # n /\ r \in Threads /\ Delivering(r) /\ pc'[r] = pc[r] /\ msg'[r] = msg[r]
        BY <1>a, <1>2, <2>1, ThreadNode DEF Delivering
      <3>2. \A e \in net : e.msg # msg[r]
        BY <1>b, <3>1 DEF ClientAlone
      <3>3. \A t \in Threads : Delivering(t)' /\ msg'[t] = msg[r] => t = r
        <4>1. d.msg # msg[r]
          BY <3>2
        <4>2. \A t \in Threads : Delivering(t) /\ msg[t] = msg[r] => t = r
          BY <1>b, <3>1 DEF ClientAlone
        <4> QED
          BY <1>2, <1>3, <4>1, <4>2 DEF Delivering
      <3>4. \A k \in Nodes : (\E i \in DOMAIN log[k] : log[k][i] = msg[r]) => k = Home[r] /\ Filling(r)
        BY <1>b, <3>1 DEF ClientAlone, Logged
      <3> QED
        BY <1>a, <3>1, <3>2, <3>3, <3>4 DEF Filling
    <2> QED
      BY <2>1 DEF ClientAlone, Logged
  <1>6. HubOnce'
    <2>1. ASSUME NEW k \in Nodes
          PROVE  pc'[k] = "lock" => /\ ~(\E i \in DOMAIN log[k] : log[k][i] = msg'[k])
                                    /\ [to |-> k, msg |-> msg'[k]] \notin net'
      <3>1. CASE k = n
        BY <1>a, <1>b, <1>3, <3>1 DEF HubOnce, Logged
      <3>2. CASE k # n
        BY <1>a, <1>b, <1>2, <3>2, ThreadNode DEF HubOnce, Logged
      <3> QED
        BY <3>1, <3>2
    <2>2. \A k \in Nodes : /\ k \notin targets[k]
                           /\ \A e \in net' : e.to = k => ~(\E i \in DOMAIN log[k] : log[k][i] = e.msg)
      BY <1>a, <1>b DEF HubOnce, Logged
    <2> QED
      BY <1>a, <2>1, <2>2 DEF HubOnce, Logged
  <1>7. NoEcho'
    BY <1>a, <1>b DEF NoEcho
  <1> QED
    BY <1>4, <1>5, <1>6, <1>7 DEF FreshInv

\* A message that passes a hub has not passed it before.
LEMMA FreshLock ==
  ASSUME NodesInv, NEW t \in Threads, Lock(t)
  PROVE  FreshInv'
  <1>a. /\ pc' = [pc EXCEPT ![t] = "fill"] /\ pc[t] = "lock"
        /\ log' = [log EXCEPT ![NodeOf(t)] = Append(@, msg[t])]
        /\ UNCHANGED <<targets, sent, msg, net>> /\ NodeOf(t) \in Nodes
        /\ pc \in [Threads -> {"off", "starting", "idle", "lock", "fill", "wake", "pop"}]
        /\ log \in [Nodes -> Seq(Payloads)] /\ log[NodeOf(t)] \in Seq(Payloads)
        /\ \A e \in net : e = [to |-> e.to, msg |-> e.msg]
    BY ThreadNode DEF NodesInv, NodesTypeOK, Lock
  <1>b. Numbered /\ ClientAlone /\ HubOnce /\ NoEcho
    BY DEF NodesInv, FreshInv
  <1>c. msg[t] \in Payloads /\ Delivering(t) /\ ~Filling(t) /\ msg[t] \in 1 .. sent
    BY <1>a, <1>b, DeliversPayload DEF Delivering, Filling, Numbered
  <1>d. \A u \in Threads : /\ Delivering(u)' <=> Delivering(u)
                           /\ u # t => pc'[u] = pc[u]
                           /\ Filling(u) => Filling(u)'
    BY <1>a DEF Delivering, Filling
  <1>e. /\ log'[NodeOf(t)] = Append(log[NodeOf(t)], msg[t])
        /\ \A n \in Nodes : n # NodeOf(t) => log'[n] = log[n]
        /\ pc'[t] = "fill"
    BY <1>a
  <1>f. \A n \in Nodes : \A x : (\E i \in DOMAIN log'[n] : log'[n][i] = x)
                                  <=> Logged(n, x) \/ (n = NodeOf(t) /\ x = msg[t])
    <2> TAKE n \in Nodes
    <2>1. CASE n = NodeOf(t)
      <3>1. \A x : (\E i \in DOMAIN log'[n] : log'[n][i] = x) <=> x = msg[t] \/ Logged(n, x)
        BY <1>a, <1>c, <1>e, <2>1, AppendSeq DEF Logged
      <3> QED
        BY <2>1, <3>1
    <2>2. CASE n # NodeOf(t)
      BY <1>e, <2>2 DEF Logged
    <2> QED
      BY <2>1, <2>2
  <1>1. ~Logged(NodeOf(t), msg[t])
    <2>1. CASE t \in Queues
      BY <1>b, <1>c, <1>a, <2>1 DEF ClientAlone
    <2>2. CASE t \in Nodes
      BY <1>a, <1>b, <2>2, ThreadNode DEF HubOnce
    <2> QED
      BY <2>1, <2>2 DEF Threads
  <1>4. Numbered'
    <2>1. \A n \in Nodes : \A x : Logged(n, x) => x \in 1 .. sent
      BY <1>b DEF Numbered, Logged
    <2>2. \A n \in Nodes : \A i \in DOMAIN log'[n] : log'[n][i] \in 1 .. sent
      BY <1>c, <1>f, <2>1
    <2> QED
      BY <1>a, <1>b, <1>d, <2>2 DEF Numbered
  <1>5. ClientAlone'
    <2>1. ASSUME NEW r \in Queues, Delivering(r)'
          PROVE  /\ \A u \in Threads : Delivering(u)' /\ msg[u] = msg[r] => u = r
                 /\ \A e \in net : e.msg # msg[r]
                 /\ \A k \in Nodes : (\E i \in DOMAIN log'[k] : log'[k][i] = msg[r])
                                       => k = Home[r] /\ Filling(r)'
      <3>1. r \in Threads /\ Delivering(r)
        BY <1>d, <2>1, ThreadNode
      <3>2. /\ \A u \in Threads : Delivering(u) /\ msg[u] = msg[r] => u = r
            /\ \A e \in net : e.msg # msg[r]
            /\ \A k \in Nodes : Logged(k, msg[r]) => k = Home[r] /\ Filling(r)
        BY <1>b, <3>1 DEF ClientAlone
      <3>3. msg[r] = msg[t] => r = t /\ Filling(r)' /\ NodeOf(t) = Home[r]
        BY <1>c, <1>e, <2>1, <3>2, ThreadNode DEF Filling
      <3>4. \A k \in Nodes : (\E i \in DOMAIN log'[k] : log'[k][i] = msg[r])
                               => k = Home[r] /\ Filling(r)'
        BY <1>d, <1>f, <3>1, <3>2, <3>3
      <3> QED
        BY <1>d, <3>2, <3>4
    <2> QED
      BY <1>a, <2>1 DEF ClientAlone, Logged
  <1>6. HubOnce'
    <2>1. ASSUME NEW n \in Nodes
          PROVE  /\ \A e \in net : e.to = n => ~(\E i \in DOMAIN log'[n] : log'[n][i] = e.msg)
                 /\ pc'[n] = "lock" => /\ ~(\E i \in DOMAIN log'[n] : log'[n][i] = msg[n])
                                       /\ [to |-> n, msg |-> msg[n]] \notin net
      <3>1. /\ \A e \in net : e.to = n => ~Logged(n, e.msg)
            /\ pc[n] = "lock" => ~Logged(n, msg[n]) /\ [to |-> n, msg |-> msg[n]] \notin net
        BY <1>b DEF HubOnce
      <3>2. n \in Threads /\ NodeOf(n) = n /\ (pc'[n] = "lock" => pc[n] = "lock" /\ t # n)
        BY <1>d, <1>e, ThreadNode
      <3>3. \A e \in net : ~(e.to = NodeOf(t) /\ e.msg = msg[t])
        <4>1. CASE t \in Queues
          BY <1>b, <1>c, <4>1 DEF ClientAlone
        <4>2. CASE t \in Nodes
          <5>1. [to |-> t, msg |-> msg[t]] \notin net /\ NodeOf(t) = t
            BY <1>a, <1>b, <4>2, ThreadNode DEF HubOnce
          <5> QED
            BY <1>a, <5>1
        <4> QED
          BY <4>1, <4>2 DEF Threads
      <3>4. pc'[n] = "lock" => ~(n = NodeOf(t) /\ msg[n] = msg[t])
        <4>1. CASE t \in Queues
          BY <1>b, <1>c, <3>2, <4>1 DEF ClientAlone, Delivering
        <4>2. CASE t \in Nodes
          BY <3>2, <4>2, ThreadNode
        <4> QED
          BY <4>1, <4>2 DEF Threads
      <3> QED
        BY <1>f, <3>1, <3>2, <3>3, <3>4
    <2> QED
      BY <1>a, <1>b, <2>1 DEF HubOnce, Logged
  <1>7. NoEcho'
    <2>1. ASSUME NEW n \in Nodes PROVE NoneTwice(log'[n])
      <3>1. NoneTwice(log[n])
        BY <1>b DEF NoEcho, NoneTwice
      <3>2. CASE n = NodeOf(t)
        <4>1. \A i \in DOMAIN log[n] : log[n][i] # msg[t]
          BY <1>1, <3>2 DEF Logged
        <4> QED
          BY <1>a, <1>c, <1>e, <3>1, <3>2, <4>1, AppendSeq
      <3> QED
        BY <1>e, <3>1, <3>2
    <2> QED
      BY <2>1 DEF NoEcho, NoneTwice
  <1> QED
    BY <1>4, <1>5, <1>6, <1>7 DEF FreshInv

\* A client lets go of its message: only other hubs may get it, and none of them
\* had it.
LEMMA FreshUnlock ==
  ASSUME NodesInv, NEW t \in Threads, Unlock(t)
  PROVE  FreshInv'
  <1>a. /\ pc' = [pc EXCEPT ![t] = "idle"] /\ pc[t] = "fill" /\ msg' = [msg EXCEPT ![t] = 0]
        /\ net' = IF Forwards(t) THEN net \cup [to : targets[NodeOf(t)], msg : {msg[t]}] ELSE net
        /\ UNCHANGED <<targets, sent, log>> /\ NodeOf(t) \in Nodes
        /\ pc \in [Threads -> {"off", "starting", "idle", "lock", "fill", "wake", "pop"}]
        /\ msg \in [Threads -> 0 .. MaxSent] /\ targets \in [Nodes -> SUBSET Nodes]
    BY ThreadNode DEF NodesInv, NodesTypeOK, Unlock
  <1>b. Numbered /\ ClientAlone /\ HubOnce /\ NoEcho
    BY DEF NodesInv, FreshInv
  <1>c. Delivering(t) /\ Filling(t) /\ msg[t] \in 1 .. sent
    BY <1>a, <1>b DEF Delivering, Filling, Numbered
  <1>d. \A u \in Threads : /\ Delivering(u)' <=> Delivering(u) /\ u # t
                           /\ u # t => pc'[u] = pc[u] /\ msg'[u] = msg[u]
    BY <1>a DEF Delivering
  <1>e. pc'[t] = "idle"
    BY <1>a
  <1>f. /\ \A e \in net' : e \in net \/ (/\ t \in Queues /\ e.msg = msg[t]
                                         /\ e.to \in targets[NodeOf(t)])
        /\ \A n \in Nodes : \A x : [to |-> n, msg |-> x] \in net' =>
             [to |-> n, msg |-> x] \in net \/ (t \in Queues /\ x = msg[t])
    BY <1>a DEF Forwards
  <1>4. Numbered'
    BY <1>a, <1>b, <1>c, <1>d, <1>f DEF Numbered
  <1>5. ClientAlone'
    <2>1. ASSUME NEW r \in Queues, Delivering(r)'
          PROVE  /\ \A u \in Threads : Delivering(u)' /\ msg'[u] = msg'[r] => u = r
                 /\ \A e \in net' : e.msg # msg'[r]
                 /\ \A k \in Nodes : Logged(k, msg[r]) => k = Home[r] /\ Filling(r)'
                 /\ msg'[r] = msg[r]
      <3>1. r \in Threads /\ Delivering(r) /\ r # t /\ msg'[r] = msg[r] /\ pc'[r] = pc[r]
        BY <1>d, <2>1, ThreadNode
      <3>2. /\ \A u \in Threads : Delivering(u) /\ msg[u] = msg[r] => u = r
            /\ \A e \in net : e.msg # msg[r]
            /\ \A k \in Nodes : Logged(k, msg[r]) => k = Home[r] /\ Filling(r)
        BY <1>b, <3>1 DEF ClientAlone
      <3>3. msg[t] # msg[r]
        BY <1>c, <3>1, <3>2
      <3>4. \A e \in net' : e.msg # msg[r]
        BY <1>f, <3>2, <3>3
      <3>5. \A u \in Threads : Delivering(u)' /\ msg'[u] = msg[r] => u = r
        BY <1>d, <3>2
      <3>6. Filling(r) => Filling(r)'
        BY <3>1 DEF Filling
      <3> QED
        BY <3>1, <3>2, <3>4, <3>5, <3>6
    <2> QED
      BY <1>a, <2>1 DEF ClientAlone, Logged
  <1>6. HubOnce'
    <2>1. ASSUME NEW n \in Nodes
          PROVE  /\ \A e \in net' : e.to = n => ~Logged(n, e.msg)
                 /\ pc'[n] = "lock" => ~(\E i \in DOMAIN log[n] : log[n][i] = msg'[n])
                                       /\ [to |-> n, msg |-> msg'[n]] \notin net'
      <3>1. /\ \A e \in net : e.to = n => ~Logged(n, e.msg)
            /\ pc[n] = "lock" => ~Logged(n, msg[n]) /\ [to |-> n, msg |-> msg[n]] \notin net
        BY <1>b DEF HubOnce
      <3>2. \A e \in net' : e.to = n => ~Logged(n, e.msg)
        <4>1. t \in Queues /\ n \in targets[NodeOf(t)] => ~Logged(n, msg[t])
          <5>1. NodeOf(t) \notin targets[NodeOf(t)]
            BY <1>a, <1>b DEF HubOnce
          <5>2. t \in Queues => NodeOf(t) = Home[t] /\ (Logged(n, msg[t]) => n = Home[t])
            BY <1>b, <1>c, ThreadNode DEF ClientAlone
          <5> QED
            BY <5>1, <5>2
        <4> QED
          BY <1>f, <3>1, <4>1
      <3>3. ASSUME pc'[n] = "lock"
            PROVE  ~Logged(n, msg[n]) /\ [to |-> n, msg |-> msg[n]] \notin net' /\ msg'[n] = msg[n]
        <4>1. n \in Threads /\ n # t /\ pc[n] = "lock" /\ msg'[n] = msg[n]
          BY <1>d, <1>e, <3>3, ThreadNode
        <4>2. t \in Queues => msg[n] # msg[t]
          BY <1>b, <1>c, <4>1 DEF ClientAlone, Delivering
        <4> QED
          BY <1>f, <3>1, <4>1, <4>2
      <3> QED
        BY <3>2, <3>3 DEF Logged
    <2>2. /\ \A n \in Nodes : n \notin targets'[n]
          /\ log' = log
      BY <1>a, <1>b DEF HubOnce
    <2>3. ASSUME NEW n \in Nodes
          PROVE  /\ \A e \in net' : e.to = n => ~(\E i \in DOMAIN log'[n] : log'[n][i] = e.msg)
                 /\ pc'[n] = "lock" => ~(\E i \in DOMAIN log'[n] : log'[n][i] = msg'[n])
                                       /\ [to |-> n, msg |-> msg'[n]] \notin net'
      BY <2>1, <2>2 DEF Logged
    <2> QED
      BY <2>2, <2>3 DEF HubOnce, Logged
  <1>7. NoEcho'
    BY <1>a, <1>b DEF NoEcho
  <1> QED
    BY <1>4, <1>5, <1>6, <1>7 DEF FreshInv

(***************************************************************************)
(* A byte for every message.                                               *)
(***************************************************************************)

\* Steps elsewhere leave the queues alone.
LEMMA WakeElsewhere ==
  ASSUME NodesInv,
         \/ Setup
         \/ Network
         \/ \E t \in Threads : Lock(t) \/ Skip(t) \/ Unlock(t)
         \/ \E q \in Queues : Send(q) \/ PopEmpty(q)
  PROVE  WakeUpForEveryMessage'
  <1>a. /\ pc \in [Threads -> {"off", "starting", "idle", "lock", "fill", "wake", "pop"}]
        /\ todo \in [Threads -> Seq(Queues)] /\ Queues \subseteq Threads
    BY ThreadNode DEF NodesInv, NodesTypeOK
  <1>1. ASSUME NEW n \in Nodes, Register(n) \/ StartNetwork(n) \/ Snapshot(n) PROVE LeavesQueues
    BY <1>a, <1>1 DEF Register, StartNetwork, Snapshot, LeavesQueues, setup, hub, queue, thread
  <1>2. ASSUME NEW q \in Queues, CreateStream(q) \/ CreateStreamRace(q) \/ CreateStreamUnknown(q)
        PROVE  LeavesQueues
    BY <1>2 DEF CreateStream, CreateStreamRace, CreateStreamUnknown, Halt, LeavesQueues,
       setup, hub, queue, thread
  <1>3. ASSUME NEW n \in Nodes, NEW m \in Nodes, AddMessageTarget(n, m) \/ RemoveMessageTarget(n, m)
        PROVE  LeavesQueues
    BY <1>3 DEF AddMessageTarget, RemoveMessageTarget, LeavesQueues, queue, thread
  <1>4. ASSUME Network PROVE LeavesQueues
    BY <1>a, <1>4 DEF Network, Lose, Receive, LeavesQueues, hub, queue, thread
  <1>5. ASSUME NEW t \in Threads, Lock(t) \/ Skip(t) \/ Unlock(t) PROVE LeavesQueues
    BY <1>a, <1>5 DEF Lock, Skip, Unlock, LeavesQueues, hub, queue
  <1>6. ASSUME NEW q \in Queues, Send(q) \/ PopEmpty(q) PROVE LeavesQueues
    BY <1>a, <1>6 DEF Send, PopEmpty, Halt, LeavesQueues, hub, queue, thread
  <1> QED
    BY <1>1, <1>2, <1>3, <1>4, <1>5, <1>6, WakeKept DEF Setup

\* Bytes on their way are as many as the threads that bring one; queue, pipe and
\* the numbers of bytes are numbers.
LEMMA WakeNumbers ==
  ASSUME NodesInv, NEW q \in Queues
  PROVE  /\ Len(qq[q]) \in Nat /\ pipe[q] \in Nat /\ Taking(q) \in {0, 1} /\ Coming(q) \in {0, 1}
         /\ Coming(q) = Cardinality(Comes(q))
         /\ Len(qq[q]) <= pipe[q] + Coming(q) + Taking(q)
  <1>1. qq[q] \in Seq(Payloads) /\ pipe[q] \in 0 .. PipeCap /\ PipeCap \in Nat
    BY NodesAssumption DEF NodesInv, NodesTypeOK
  <1>2. Coming(q) \in {0, 1} /\ Coming(q) = Cardinality(Comes(q))
    BY OneComes DEF Coming, Comes
  <1>3. Taking(q) \in {0, 1}
    BY DEF Taking
  <1>4. Len(qq[q]) <= pipe[q] + Coming(q) + Taking(q)
    BY DEF NodesInv, WakeUpForEveryMessage
  <1> QED
    BY <1>1, <1>2, <1>3, <1>4

\* A message goes into a queue before its byte, and the byte is on its way.
LEMMA WakeInsert ==
  ASSUME NodesInv, NEW t \in Threads, Insert(t)
  PROVE  WakeUpForEveryMessage'
  <1>a. /\ pc \in [Threads -> {"off", "starting", "idle", "lock", "fill", "wake", "pop"}]
        /\ qq \in [Queues -> Seq(Payloads)] /\ Queues \subseteq Threads
    BY ThreadNode DEF NodesInv, NodesTypeOK
  <1>c. PICK h \in Queues : h = Head(todo[t]) /\ Home[h] = NodeOf(t)
    <2>1. todo[t] \in Seq(Queues) /\ todo[t] # <<>>
      BY DEF Insert, NodesInv, NodesTypeOK
    <2>2. Head(todo[t]) \in Queues /\ 1 \in DOMAIN todo[t] /\ todo[t][1] = Head(todo[t])
      BY <2>1, TailSeq
    <2> QED
      BY <2>2 DEF NodesInv, WalkInv, Walks
  <1>b. /\ pc' = [pc EXCEPT ![t] = "wake"] /\ UNCHANGED <<pipe, msg, todo>>
        /\ qq' = [qq EXCEPT ![h] = Inserted(@, msg[t])] /\ pc[t] = "fill"
    BY <1>c DEF Insert
  <1>1. \A u \in Threads : pc'[u] = IF u = t THEN "wake" ELSE pc[u]
    BY <1>a, <1>b
  <1>2. \A q \in Queues : Taking(q)' = Taking(q)
    BY <1>a, <1>b, <1>1 DEF Taking
  <1>3. Comes(h) = {}
    <2>1. ASSUME NEW x \in Comes(h) PROVE FALSE
      <3>1. x \in Threads /\ Filling(x) /\ NodeOf(x) = Home[h] /\ pc[x] = "wake"
        BY <1>c, OnesComing DEF Comes
      <3>2. x = t
        BY <1>b, <1>c, <3>1, OneWalks DEF Filling
      <3> QED
        BY <1>b, <3>1, <3>2
    <2> QED
      BY <2>1
  <1>4. Coming(h) = 0 /\ Coming(h)' = 1
    <2>1. {u \in Threads : pc'[u] = "wake" /\ Head(todo'[u]) = h} = {t}
      BY <1>b, <1>c, <1>1, <1>3 DEF Comes
    <2>2. Cardinality({t}) = 1 /\ Coming(h) = 0
      BY <1>c, <1>3, WakeNumbers, FS_EmptySet, FS_Singleton
    <2>3. Cardinality({u \in Threads : pc'[u] = "wake" /\ Head(todo'[u]) = h}) = 1
      BY <2>1, <2>2
    <2> QED
      BY <2>2, <2>3 DEF Coming
  <1>5. ASSUME NEW q \in Queues, q # h PROVE Coming(q)' = Coming(q)
    <2>1. {u \in Threads : pc'[u] = "wake" /\ Head(todo'[u]) = q} = Comes(q)
      BY <1>b, <1>c, <1>1, <1>5 DEF Comes
    <2> QED
      BY <2>1 DEF Coming, Comes
  <1>6. Len(qq'[h]) <= Len(qq[h]) + 1 /\ Len(qq'[h]) \in Nat
    <2>1. msg[t] \in Payloads /\ qq[h] \in Seq(Payloads)
      BY <1>a, <1>b, <1>c, DeliversPayload DEF Delivering
    <2>2. qq'[h] = Inserted(qq[h], msg[t])
      BY <1>a, <1>b, <1>c
    <2> QED
      BY <2>1, <2>2, AppendSeq DEF Inserted
  <1>7. ASSUME NEW q \in Queues
        PROVE  Len(qq'[q]) <= pipe'[q] + Coming(q)' + Taking(q)'
    <2>1. CASE q = h
      <3>1. Coming(q) = 0 /\ Coming(q)' = 1
        BY <1>4, <2>1
      <3> QED
        BY <1>b, <1>2, <1>6, <2>1, <3>1, WakeNumbers
    <2>2. CASE q # h
      <3>1. qq'[q] = qq[q]
        BY <1>a, <1>b, <2>2
      <3> QED
        BY <1>b, <1>2, <1>5, <2>2, <3>1, WakeNumbers
    <2> QED
      BY <2>1, <2>2
  <1> QED
    BY <1>7 DEF WakeUpForEveryMessage

\* The byte of a message that was on its way arrives.
LEMMA WakeWake ==
  ASSUME NodesInv, NEW t \in Threads, Wake(t)
  PROVE  WakeUpForEveryMessage'
  <1>a. /\ pc \in [Threads -> {"off", "starting", "idle", "lock", "fill", "wake", "pop"}]
        /\ pipe \in [Queues -> 0 .. PipeCap] /\ todo \in [Threads -> Seq(Queues)]
    BY DEF NodesInv, NodesTypeOK
  <1>c. PICK h \in Queues : h = Head(todo[t])
    <2>1. todo[t] \in Seq(Queues) /\ todo[t] # <<>>
      BY DEF Wake, NodesInv, NodesTypeOK, WalkInv, Walks
    <2> QED
      BY <2>1, TailSeq
  <1>b. /\ pc' = [pc EXCEPT ![t] = "fill"] /\ pc[t] = "wake" /\ qq' = qq
        /\ pipe' = [pipe EXCEPT ![h] = @ + 1] /\ todo' = [todo EXCEPT ![t] = Tail(@)]
    BY <1>c DEF Wake, Woken
  <1>1. \A u \in Threads : /\ pc'[u] = "wake" <=> pc[u] = "wake" /\ u # t
                           /\ u # t => todo'[u] = todo[u]
                           /\ pc'[u] = "pop" <=> pc[u] = "pop"
    BY <1>a, <1>b
  <1>2. ASSUME NEW q \in Queues PROVE Taking(q)' = Taking(q)
    BY <1>1, ThreadNode DEF Taking
  <1>3. t \in Comes(h)
    BY <1>b, <1>c DEF Comes
  <1>4. Coming(h)' = 0 /\ Coming(h) = 1
    <2>1. {u \in Threads : pc'[u] = "wake" /\ Head(todo'[u]) = h} = {}
      BY <1>1, <1>3, OneComes DEF Comes
    <2>2. Coming(h) = 1
      BY <1>3, OneComes
    <2>3. Cardinality({u \in Threads : pc'[u] = "wake" /\ Head(todo'[u]) = h}) = 0
      BY <2>1, FS_EmptySet
    <2> QED
      BY <2>2, <2>3 DEF Coming
  <1>5. ASSUME NEW q \in Queues, q # h PROVE Coming(q)' = Coming(q)
    <2>1. {u \in Threads : pc'[u] = "wake" /\ Head(todo'[u]) = q} = Comes(q)
      BY <1>b, <1>c, <1>1, <1>5 DEF Comes
    <2> QED
      BY <2>1 DEF Coming, Comes
  <1>7. ASSUME NEW q \in Queues
        PROVE  Len(qq'[q]) <= pipe'[q] + Coming(q)' + Taking(q)'
    <2>1. CASE q = h
      <3>1. Coming(q)' = 0 /\ Coming(q) = 1 /\ pipe'[q] = pipe[q] + 1
        BY <1>a, <1>b, <1>4, <2>1
      <3> QED
        BY <1>b, <1>2, <3>1, WakeNumbers
    <2>2. CASE q # h
      <3>1. pipe'[q] = pipe[q]
        BY <1>a, <1>b, <2>2
      <3> QED
        BY <1>b, <1>2, <1>5, <2>2, <3>1, WakeNumbers
    <2> QED
      BY <2>1, <2>2
  <1> QED
    BY <1>7 DEF WakeUpForEveryMessage

\* A reader takes a byte, then a message.
LEMMA WakeRead ==
  ASSUME NodesInv, NEW r \in Queues, ReadByte(r) \/ Pop(r)
  PROVE  WakeUpForEveryMessage'
  <1>a. /\ pc \in [Threads -> {"off", "starting", "idle", "lock", "fill", "wake", "pop"}]
        /\ pipe \in [Queues -> 0 .. PipeCap] /\ qq \in [Queues -> Seq(Payloads)] /\ r \in Threads
        /\ Queues \subseteq Threads
    BY ThreadNode DEF NodesInv, NodesTypeOK
  <1>b. /\ todo' = todo /\ pc[r] \in {"idle", "pop"} /\ pc'[r] \in {"idle", "pop"}
        /\ \A u \in Threads : u # r => pc'[u] = pc[u]
        /\ \A q \in Queues : q # r => qq'[q] = qq[q] /\ pipe'[q] = pipe[q]
    BY <1>a DEF ReadByte, Pop
  <1>1. ASSUME NEW q \in Queues PROVE Coming(q)' = Coming(q)
    <2>1. {u \in Threads : pc'[u] = "wake" /\ Head(todo'[u]) = q} = Comes(q)
      BY <1>b DEF Comes
    <2> QED
      BY <2>1 DEF Coming, Comes
  <1>2. Len(qq'[r]) <= pipe'[r] + Coming(r)' + Taking(r)'
    <2>1. CASE ReadByte(r)
      <3>1. pipe'[r] = pipe[r] - 1 /\ qq'[r] = qq[r] /\ pc[r] = "idle" /\ pc'[r] = "pop"
        BY <1>a, <2>1 DEF ReadByte
      <3>2. Taking(r) = 0 /\ Taking(r)' = 1
        BY <3>1 DEF Taking
      <3> QED
        BY <1>1, <3>1, <3>2, WakeNumbers
    <2>2. CASE Pop(r)
      <3>1. /\ qq'[r] = Tail(qq[r]) /\ qq[r] # <<>> /\ qq[r] \in Seq(Payloads)
            /\ pipe'[r] = pipe[r] /\ pc[r] = "pop" /\ pc'[r] = "idle"
        BY <1>a, <2>2 DEF Pop
      <3>2. Taking(r) = 1 /\ Taking(r)' = 0
        BY <3>1 DEF Taking
      <3>3. Len(qq'[r]) = Len(qq[r]) - 1
        BY <3>1, TailSeq
      <3> QED
        BY <1>1, <3>1, <3>2, <3>3, WakeNumbers
    <2> QED
      BY <2>1, <2>2
  <1>3. ASSUME NEW q \in Queues, q # r
        PROVE  Len(qq'[q]) <= pipe'[q] + Coming(q)' + Taking(q)'
    <2>1. Taking(q)' = Taking(q)
      BY <1>a, <1>b, <1>3 DEF Taking
    <2> QED
      BY <1>b, <1>1, <1>3, <2>1, WakeNumbers
  <1> QED
    BY <1>2, <1>3 DEF WakeUpForEveryMessage

(***************************************************************************)
(* The invariant.                                                          *)
(***************************************************************************)

\* The walks are kept.
LEMMA WalkStep ==
  ASSUME NodesInv, [Next]_vars
  PROVE  WalkInv'
  <1>1. CASE UNCHANGED vars
    BY <1>1, WalkKept DEF Idles, Filling, vars, hub, thread
  <1>2. CASE Next
    BY <1>2, WalkElsewhere, WalkCreateStream, WalkDeliver DEF Next, Setup
  <1> QED
    BY <1>1, <1>2

\* A message is new to every hub it passes.
LEMMA FreshStep ==
  ASSUME NodesInv, [Next]_vars
  PROVE  FreshInv'
  <1>1. CASE UNCHANGED vars
    <2>1. BringsNothing
      BY <1>1 DEF BringsNothing, Delivering, vars, hub, thread, NodesInv, FreshInv, HubOnce
    <2> QED
      BY <2>1, FreshKept
  <1>2. CASE Setup \/ \E q \in Queues : Send(q) \/ Read(q)
    BY <1>2, FreshElsewhere, FreshSend
  <1>3. CASE Network
    BY <1>3, FreshElsewhere, FreshReceive DEF Network
  <1>4. CASE \E t \in Threads : Deliver(t)
    BY <1>4, FreshElsewhere, FreshLock, FreshUnlock DEF Deliver
  <1> QED
    BY <1>1, <1>2, <1>3, <1>4 DEF Next

\* No message is left without a byte.
LEMMA WakeStep ==
  ASSUME NodesInv, [Next]_vars
  PROVE  WakeUpForEveryMessage'
  <1>1. CASE UNCHANGED vars
    BY <1>1, WakeKept DEF LeavesQueues, vars, queue, thread
  <1>2. CASE Setup \/ Network
    BY <1>2, WakeElsewhere
  <1>3. CASE \E t \in Threads : Deliver(t)
    BY <1>3, WakeElsewhere, WakeInsert, WakeWake DEF Deliver
  <1>4. CASE \E q \in Queues : Send(q) \/ Read(q)
    BY <1>4, WakeElsewhere, WakeRead DEF Read
  <1> QED
    BY <1>1, <1>2, <1>3, <1>4 DEF Next

\* It holds before any node is set up,
LEMMA NodesInit == Init => NodesInv
  <1> SUFFICES ASSUME Init PROVE NodesInv
    OBVIOUS
  <1>a. MaxSent \in Nat /\ MaxQq \in Nat /\ PipeCap \in Nat
    BY NodesAssumption
  <1>1. NodesTypeOK
    BY <1>a DEF Init, NodesTypeOK, Threads, setup, Payloads
  <1>2. \A t \in Threads : ~Delivering(t) /\ ~Filling(t) /\ pc[t] \in {"off", "idle"} /\ todo[t] = <<>>
    BY DEF Init, Delivering, Filling
  <1>3. WalkInv
    BY <1>2, ThreadNode DEF Init, WalkInv, MutexHeld, HubsOwn, Walks, LastLogged, NoneTwice
  <1>4. FreshInv
    <2>1. net = {} /\ \A n \in Nodes : targets[n] = {} /\ DOMAIN log[n] = {} /\ pc[n] # "lock"
      BY <1>2, ThreadNode DEF Init
    <2>2. Numbered /\ ClientAlone
      BY <1>2, <2>1, ThreadNode DEF Numbered, ClientAlone
    <2>3. HubOnce /\ NoEcho
      BY <2>1 DEF HubOnce, NoEcho
    <2> QED
      BY <2>2, <2>3 DEF FreshInv
  <1>5. WakeUpForEveryMessage
    <2>1. ASSUME NEW q \in Queues PROVE Len(qq[q]) <= pipe[q] + Coming(q) + Taking(q)
      <3>1. {t \in Threads : pc[t] = "wake" /\ Head(todo[t]) = q} = {}
        BY <1>2
      <3>2. Coming(q) = 0
        BY <3>1, FS_EmptySet DEF Coming
      <3>3. Len(qq[q]) = 0 /\ pipe[q] = 0 /\ Taking(q) = 0
        BY <1>2, ThreadNode DEF Init, Taking
      <3> QED
        BY <3>2, <3>3
    <2> QED
      BY <2>1 DEF WakeUpForEveryMessage
  <1> QED
    BY <1>1, <1>3, <1>4, <1>5 DEF NodesInv

\* and every step keeps it.
LEMMA NodesStep == NodesInv /\ [Next]_vars => NodesInv'
  BY TypeStep, WalkStep, FreshStep, WakeStep DEF NodesInv

\* Whoever walks the queues of a hub holds its mutex, and every message is new
\* to the hub it passes (send_message, receive_message).
THEOREM NodesInvCorrect == Spec => []NodesInv
  BY NodesInit, NodesStep, PTL DEF Spec

\* The variables keep their types, and a queue stays within max_incoming_qq_size.
THEOREM NodesTypeCorrect == Spec => []NodesTypeOK
  <1>1. NodesInv => NodesTypeOK
    BY DEF NodesInv
  <1> QED
    BY <1>1, NodesInvCorrect, PTL

\* No message lies in a queue without a byte that will wake its reader, whatever
\* the size of queue and pipe (_insert_message, pop_message).
THEOREM WakeUpCorrect == Spec => []WakeUpForEveryMessage
  <1>1. NodesInv => WakeUpForEveryMessage
    BY DEF NodesInv
  <1> QED
    BY <1>1, NodesInvCorrect, PTL

\* A message passes a hub at most once, however many nodes send to each other.
THEOREM NoEchoCorrect == Spec => []NoEcho
  <1>1. NodesInv => NoEcho
    BY DEF NodesInv, FreshInv
  <1> QED
    BY <1>1, NodesInvCorrect, PTL

(***************************************************************************)
(* The nodes implement OrderedBroadcast.                                   *)
(***************************************************************************)

\* Thread t still has to offer its message to queue q.
Owes(t, q) == \E i \in DOMAIN LeftToFill(t) : LeftToFill(t)[i] = q

\* How much of the log of its hub a queue was offered.
Offered(q) == IF Linked(q) THEN Len(log[Home[q]]) - Unoffered(q) ELSE 0

(***************************************************************************)
(* Who owes what.                                                          *)
(***************************************************************************)

\* A message is owed only by the thread that walks the hub of the queue.
LEMMA OwesWalks ==
  ASSUME NodesInv, NEW t \in Threads, NEW q \in Queues, Owes(t, q)
  PROVE  /\ Filling(t) /\ NodeOf(t) = Home[q] /\ Linked(q)
         /\ \E i \in DOMAIN todo[t] : todo[t][i] = q
  <1>1. todo[t] \in Seq(Queues) /\ Walks /\ (pc[t] = "wake" => todo[t] # <<>>)
    BY DEF NodesInv, NodesTypeOK, WalkInv, Walks
  <1>2. CASE pc[t] = "fill"
    BY <1>1, <1>2 DEF Owes, LeftToFill, Filling, Walks
  <1>3. CASE pc[t] = "wake"
    <2>1. \E i \in DOMAIN Tail(todo[t]) : Tail(todo[t])[i] = q
      BY <1>3 DEF Owes, LeftToFill
    <2>2. \E i \in DOMAIN todo[t] : todo[t][i] = q
      BY <1>1, <1>3, <2>1, TailSeq
    <2> QED
      BY <1>1, <1>3, <2>2 DEF Filling, Walks
  <1>4. CASE pc[t] \notin {"fill", "wake"}
    <2>1. LeftToFill(t) = <<>>
      BY <1>4 DEF LeftToFill
    <2> QED
      BY <2>1 DEF Owes
  <1> QED
    BY <1>2, <1>3, <1>4

\* At most one message is owed to a queue.
LEMMA OwesOne ==
  ASSUME NodesInv, NEW q \in Queues
  PROVE  Unoffered(q) = IF \E t \in Threads : Owes(t, q) THEN 1 ELSE 0
  <1>1. \A t, u \in {x \in Threads : Owes(x, q)} : t = u
    BY OwesWalks, OneWalks
  <1>2. Unoffered(q) = Cardinality({x \in Threads : Owes(x, q)})
    BY DEF Unoffered, Owes
  <1> QED
    BY <1>1, <1>2, AtMostOne

\* What is left to fill, by where the thread is.
LEMMA LeftByPlace ==
  ASSUME NEW t \in Threads
  PROVE  /\ pc[t] = "fill" => LeftToFill(t) = todo[t]
         /\ pc[t] = "wake" => LeftToFill(t) = Tail(todo[t])
         /\ ~Filling(t) => LeftToFill(t) = <<>>
  BY DEF LeftToFill, Filling

\* and after a step.
LEMMA LeftByPlaceNext ==
  ASSUME NEW t \in Threads
  PROVE  /\ pc'[t] = "fill" => LeftToFill(t)' = todo'[t]
         /\ pc'[t] = "wake" => LeftToFill(t)' = Tail(todo'[t])
         /\ pc'[t] \notin {"fill", "wake"} => LeftToFill(t)' = <<>>
  BY DEF LeftToFill

\* The abstract offered, owed and given, a queue at a time.
LEMMA OfferedNext ==
  ASSUME NEW q \in Queues, UNCHANGED qqs, log'[Home[q]] = log[Home[q]],
         \A t \in Threads : Owes(t, q)' <=> Owes(t, q)
  PROVE  Offered(q)' = Offered(q)
  <1>1. {t \in Threads : Owes(t, q)'} = {t \in Threads : Owes(t, q)}
    OBVIOUS
  <1>2. Unoffered(q)' = Unoffered(q)
    BY <1>1 DEF Unoffered, Owes
  <1>3. Linked(q)' <=> Linked(q)
    BY DEF Linked
  <1> QED
    BY <1>2, <1>3 DEF Offered

(***************************************************************************)
(* Steps the readers do not see.                                           *)
(***************************************************************************)

\* A step that adds no queue and no message, and after which everybody owes what
\* he owed.
Unseen ==
  /\ UNCHANGED <<qqs, log>>
  /\ \A q \in Readers : qq'[q] = qq[q] /\ \A t \in Threads : Owes(t, q)' <=> Owes(t, q)

LEMMA UnseenStutters ==
  ASSUME Unseen
  PROVE  UNCHANGED Broadcast!vars
  <1>1. \A q \in Readers : q \in Queues /\ qq'[q] = qq[q]
    BY DEF Unseen, Readers
  <1>2. \A q \in Readers : Offered(q)' = Offered(q)
    BY <1>1, OfferedNext DEF Unseen
  <1>3. \A q \in Readers : Linked(q)' <=> Linked(q)
    BY DEF Unseen, Linked
  <1>4. [q \in Readers |-> Offered(q)]' = [q \in Readers |-> Offered(q)]
    BY <1>2
  <1>5. [q \in Readers |-> qq[q]]' = [q \in Readers |-> qq[q]]
    BY <1>1
  <1>6. {q \in Readers : Linked(q)}' = {q \in Readers : Linked(q)}
    BY <1>3
  <1>7. log' = log
    BY DEF Unseen
  <1> QED
    BY <1>4, <1>5, <1>6, <1>7 DEF Broadcast!vars, Offered

\* A step in which nobody walks.
Stays ==
  /\ UNCHANGED <<qqs, log>>
  /\ \A q \in Readers : qq'[q] = qq[q]
  /\ \A t \in Threads : Filling(t) \/ Filling(t)' => pc'[t] = pc[t] /\ todo'[t] = todo[t]

LEMMA StaysUnseen ==
  ASSUME Stays
  PROVE  Unseen
  <1>1. ASSUME NEW t \in Threads PROVE LeftToFill(t)' = LeftToFill(t)
    BY LeftByPlace, LeftByPlaceNext DEF Stays, Filling
  <1>2. \A q \in Readers : \A t \in Threads : Owes(t, q)' <=> Owes(t, q)
    BY <1>1 DEF Owes
  <1> QED
    BY <1>2 DEF Stays, Unseen

\* Setting up, datagrams, writers, and readers that take no message.
LEMMA Elsewhere ==
  ASSUME NodesInv,
         \/ Network
         \/ \E n \in Nodes : Register(n) \/ StartNetwork(n) \/ Snapshot(n)
         \/ \E q \in Queues : CreateStreamRace(q) \/ CreateStreamUnknown(q)
         \/ \E n, m \in Nodes : AddMessageTarget(n, m) \/ RemoveMessageTarget(n, m)
         \/ \E q \in Queues : Send(q) \/ ReadByte(q) \/ PopEmpty(q) \/ (Pop(q) /\ q \notin Readers)
  PROVE  UNCHANGED Broadcast!vars
  <1>a. pc \in [Threads -> {"off", "starting", "idle", "lock", "fill", "wake", "pop"}]
        /\ qq \in [Queues -> Seq(Payloads)] /\ Readers \subseteq Queues
    BY DEF NodesInv, NodesTypeOK, Readers
  <1>1. ASSUME Network PROVE Stays
    BY <1>a, <1>1 DEF Network, Lose, Receive, Stays, Filling, setup, hub, queue, thread
  <1>2. ASSUME NEW n \in Nodes, Register(n) \/ StartNetwork(n) \/ Snapshot(n) PROVE Stays
    BY <1>a, <1>2 DEF Register, StartNetwork, Snapshot, Stays, Filling, setup, hub, queue, thread
  <1>3. ASSUME NEW q \in Queues, CreateStreamRace(q) \/ CreateStreamUnknown(q) PROVE Stays
    BY <1>3 DEF CreateStreamRace, CreateStreamUnknown, Halt, Stays, Filling, setup, hub, queue, thread
  <1>4. ASSUME NEW n \in Nodes, NEW m \in Nodes, AddMessageTarget(n, m) \/ RemoveMessageTarget(n, m)
        PROVE  Stays
    BY <1>4 DEF AddMessageTarget, RemoveMessageTarget, Stays, Filling, setup, hub, queue, thread
  <1>5. ASSUME NEW q \in Queues, Send(q) \/ ReadByte(q) \/ PopEmpty(q) PROVE Stays
    BY <1>a, <1>5 DEF Send, ReadByte, PopEmpty, Halt, Stays, Filling, setup, hub, queue, thread
  <1>6. ASSUME NEW q \in Queues, q \notin Readers, Pop(q) PROVE Stays
    BY <1>a, <1>6 DEF Pop, Stays, Filling, setup, hub
  <1> QED
    BY <1>1, <1>2, <1>3, <1>4, <1>5, <1>6, StaysUnseen, UnseenStutters

\* A queue that only writes is passed over, a byte is written, the mutex is let go.
LEMMA WalkUnseen ==
  ASSUME NodesInv, NEW t \in Threads, Skip(t) \/ Wake(t) \/ Unlock(t)
  PROVE  UNCHANGED Broadcast!vars
  <1>a. /\ pc \in [Threads -> {"off", "starting", "idle", "lock", "fill", "wake", "pop"}]
        /\ todo \in [Threads -> Seq(Queues)] /\ UNCHANGED <<qqs, log, qq>>
        /\ pc[t] \in {"fill", "wake"} /\ \A u \in Threads : u # t => pc'[u] = pc[u] /\ todo'[u] = todo[u]
    BY DEF NodesInv, NodesTypeOK, Skip, Wake, Unlock, hub, queue
  <1>1. ASSUME NEW u \in Threads, u # t, NEW q \in Queues PROVE Owes(u, q)' <=> Owes(u, q)
    <2>1. LeftToFill(u)' = LeftToFill(u)
      BY <1>a, <1>1 DEF LeftToFill
    <2> QED
      BY <2>1 DEF Owes
  <1>2. ASSUME NEW q \in Readers PROVE Owes(t, q)' <=> Owes(t, q)
    <2>1. CASE Skip(t)
      <3>1. /\ pc[t] = "fill" /\ pc'[t] = "fill" /\ todo'[t] = Tail(todo[t])
            /\ todo[t] # <<>> /\ todo[t] \in Seq(Queues) /\ Head(todo[t]) # q
        BY <1>a, <2>1 DEF Skip, Readers
      <3>2. (\E i \in DOMAIN todo[t] : todo[t][i] = q)
              <=> \E i \in DOMAIN Tail(todo[t]) : Tail(todo[t])[i] = q
        <4>1. \A x : (\E i \in DOMAIN todo[t] : todo[t][i] = x)
                        <=> x = Head(todo[t]) \/ \E i \in DOMAIN Tail(todo[t]) : Tail(todo[t])[i] = x
          BY <3>1, TailSeq
        <4> QED
          BY <3>1, <4>1
      <3>3. LeftToFill(t) = todo[t] /\ LeftToFill(t)' = Tail(todo[t])
        BY <3>1, LeftByPlace, LeftByPlaceNext
      <3> QED
        BY <3>2, <3>3 DEF Owes
    <2>2. CASE Wake(t)
      <3>1. LeftToFill(t) = Tail(todo[t]) /\ LeftToFill(t)' = Tail(todo[t])
        BY <1>a, <2>2, LeftByPlace, LeftByPlaceNext DEF Wake
      <3> QED
        BY <3>1 DEF Owes
    <2>3. CASE Unlock(t)
      <3>1. LeftToFill(t) = <<>> /\ LeftToFill(t)' = <<>>
        BY <1>a, <2>3, LeftByPlace, LeftByPlaceNext DEF Unlock
      <3> QED
        BY <3>1 DEF Owes
    <2> QED
      BY <2>1, <2>2, <2>3
  <1>3. Unseen
    BY <1>a, <1>1, <1>2 DEF Unseen, Readers
  <1> QED
    BY <1>3, UnseenStutters

(***************************************************************************)
(* Steps the readers see.                                                  *)
(***************************************************************************)

\* create_stream and create_instream: a reader joins where the log ends.
LEMMA CreateStreamJoins ==
  ASSUME NodesInv, NEW q \in Queues, CreateStream(q)
  PROVE  [Broadcast!Next]_(Broadcast!vars)
  <1>a. /\ qqs \in [Nodes -> Seq(Queues)] /\ Home[q] \in Nodes /\ ~Linked(q)
        /\ qqs' = [qqs EXCEPT ![Home[q]] = Append(@, q)]
        /\ UNCHANGED <<holder, pc, msg, todo, log, qq>> /\ holder[Home[q]] = None
    BY ThreadNode DEF NodesInv, NodesTypeOK, CreateStream, thread, queue
  <1>1. \A r \in Queues : /\ r # q => (Linked(r)' <=> Linked(r))
                          /\ Linked(q)'
    <2>1. qqs'[Home[q]] = Append(qqs[Home[q]], q) /\ qqs[Home[q]] \in Seq(Queues)
      BY <1>a
    <2>2. \A x : (\E i \in DOMAIN qqs'[Home[q]] : qqs'[Home[q]][i] = x)
                   <=> x = q \/ \E i \in DOMAIN qqs[Home[q]] : qqs[Home[q]][i] = x
      BY <2>1, AppendSeq
    <2>3. ASSUME NEW r \in Queues, r # q PROVE Linked(r)' <=> Linked(r)
      <3>1. CASE Home[r] = Home[q]
        BY <2>2, <2>3, <3>1 DEF Linked
      <3>2. CASE Home[r] # Home[q]
        <4>1. qqs'[Home[r]] = qqs[Home[r]]
          BY <1>a, <3>2
        <4> QED
          BY <4>1 DEF Linked
      <3> QED
        BY <3>1, <3>2
    <2>4. Linked(q)'
      BY <2>2 DEF Linked
    <2> QED
      BY <2>3, <2>4
  <1>2. \A r \in Queues : Unoffered(r)' = Unoffered(r)
    BY <1>a DEF Unoffered, LeftToFill
  <1>3. Unoffered(q) = 0
    <2>1. ASSUME NEW t \in Threads PROVE ~Owes(t, q)
      BY <1>a, OwesWalks
    <2> QED
      BY <2>1, OwesOne
  <1>4. Offered(q)' = Len(log[Home[q]]) /\ Len(log[Home[q]]) \in Nat
    <2>1. Offered(q)' = Len(log[Home[q]]) - 0
      BY <1>a, <1>1, <1>2, <1>3 DEF Offered
    <2>2. log[Home[q]] \in Seq(Payloads)
      BY <1>a DEF NodesInv, NodesTypeOK
    <2> QED
      BY <2>1, <2>2
  <1>5. \A r \in Queues : r # q => Offered(r)' = Offered(r)
    BY <1>a, <1>1, <1>2 DEF Offered
  <1>6. CASE q \in Readers
    <2>1. {r \in Readers : Linked(r)}' = {r \in Readers : Linked(r)} \cup {q}
      BY <1>1, <1>6 DEF Readers
    <2>2. [r \in Readers |-> Offered(r)]' = [[r \in Readers |-> Offered(r)] EXCEPT ![q] = Len(log[Home[q]])]
      BY <1>4, <1>5, <1>6 DEF Readers
    <2>3. [r \in Readers |-> Home[r]][q] = Home[q]
      BY <1>6
    <2>4. q \notin {r \in Readers : Linked(r)} /\ log' = log /\ [r \in Readers |-> qq[r]]' = [r \in Readers |-> qq[r]]
      BY <1>a
    <2>5. Broadcast!Join(q)
      BY <2>1, <2>2, <2>3, <2>4 DEF Broadcast!Join, Offered
    <2> QED
      BY <1>6, <2>5 DEF Broadcast!Next
  <1>7. CASE q \notin Readers
    <2>1. \A r \in Readers : r \in Queues /\ r # q
      BY <1>7 DEF Readers
    <2>2. {r \in Readers : Linked(r)}' = {r \in Readers : Linked(r)}
      BY <1>1, <2>1
    <2>3. [r \in Readers |-> Offered(r)]' = [r \in Readers |-> Offered(r)]
      BY <1>5, <2>1
    <2>4. log' = log /\ [r \in Readers |-> qq[r]]' = [r \in Readers |-> qq[r]]
      BY <1>a
    <2> QED
      BY <2>2, <2>3, <2>4 DEF Broadcast!vars, Offered
  <1> QED
    BY <1>6, <1>7

\* send_message and receive_message: the hub takes the next message when the one
\* before was offered to every reader.
LEMMA LockPublishes ==
  ASSUME NodesInv, NEW t \in Threads, Lock(t)
  PROVE  Broadcast!Next
  <1>n. PICK h \in Nodes : h = NodeOf(t)
    BY ThreadNode
  <1>a. /\ qqs' = qqs /\ qq' = qq /\ holder[h] = None /\ msg[t] \in Payloads
        /\ pc \in [Threads -> {"off", "starting", "idle", "lock", "fill", "wake", "pop"}]
        /\ pc[t] = "lock" /\ pc' = [pc EXCEPT ![t] = "fill"]
        /\ todo \in [Threads -> Seq(Queues)] /\ todo' = [todo EXCEPT ![t] = qqs[h]]
        /\ log \in [Nodes -> Seq(Payloads)] /\ log' = [log EXCEPT ![h] = Append(@, msg[t])]
        /\ qqs \in [Nodes -> Seq(Queues)]
    BY <1>n, DeliversPayload DEF NodesInv, NodesTypeOK, Lock, queue, Delivering
  <1>1. \A q \in Queues : Linked(q)' <=> Linked(q)
    BY <1>a DEF Linked
  <1>2. ASSUME NEW q \in Queues, Home[q] = h, Linked(q)
        PROVE  Unoffered(q) = 0 /\ Unoffered(q)' = 1
    <2>1. \A u \in Threads : ~Owes(u, q)
      BY <1>a, <1>2, OwesWalks, NobodyWalks
    <2>2. LeftToFill(t)' = qqs[h]
      BY <1>a, LeftByPlaceNext
    <2>3. Owes(t, q)'
      BY <1>2, <2>2 DEF Owes, Linked
    <2>4. \A u \in Threads : u # t => ~Owes(u, q)'
      <3> TAKE u \in Threads
      <3> HAVE u # t
      <3>1. LeftToFill(u)' = LeftToFill(u)
        BY <1>a DEF LeftToFill
      <3> QED
        BY <2>1, <3>1 DEF Owes
    <2>5. {u \in Threads : Owes(u, q)'} = {t}
      BY <2>3, <2>4
    <2>6. Unoffered(q)' = Cardinality({u \in Threads : Owes(u, q)'})
      BY DEF Unoffered, Owes
    <2> QED
      BY <2>1, <2>5, <2>6, OwesOne, FS_Singleton
  <1>3. ASSUME NEW q \in Queues PROVE Offered(q)' = Offered(q)
    <2>1. CASE Home[q] = h /\ Linked(q)
      <3>1. log'[Home[q]] = Append(log[h], msg[t]) /\ log[h] \in Seq(Payloads)
        BY <1>a, <2>1
      <3>2. Len(log'[Home[q]]) = Len(log[h]) + 1 /\ Len(log[h]) \in Nat
        BY <1>a, <3>1, AppendSeq
      <3>3. Offered(q)' = Len(log'[Home[q]]) - 1 /\ Offered(q) = Len(log[h]) - 0
        BY <1>1, <1>2, <2>1 DEF Offered
      <3> QED
        BY <3>2, <3>3
    <2>2. CASE ~Linked(q)
      BY <1>1, <2>2 DEF Offered
    <2>3. CASE Home[q] # h
      <3>1. log'[Home[q]] = log[Home[q]]
        BY <1>a, <2>3
      <3>2. \A u \in Threads : Owes(u, q)' <=> Owes(u, q)
        <4> TAKE u \in Threads
        <4>1. CASE u # t
          <5>1. LeftToFill(u)' = LeftToFill(u)
            BY <1>a, <4>1 DEF LeftToFill
          <5> QED
            BY <5>1 DEF Owes
        <4>2. CASE u = t
          <5>1. ~Owes(t, q)
            BY <1>n, <2>3, OwesWalks
          <5>2. LeftToFill(t)' = qqs[h]
            BY <1>a, LeftByPlaceNext
          <5>3. ~Owes(t, q)'
            BY <1>a, <2>3, <5>2 DEF Owes, NodesInv, WalkInv, HubsOwn
          <5> QED
            BY <4>2, <5>1, <5>3
        <4> QED
          BY <4>1, <4>2
      <3> QED
        BY <1>a, <3>1, <3>2, OfferedNext
    <2> QED
      BY <2>1, <2>2, <2>3
  <1>4. \A q \in {r \in Readers : Linked(r)} :
          [r \in Readers |-> Home[r]][q] = h => [r \in Readers |-> Offered(r)][q] = Len(log[h])
    <2> TAKE q \in {r \in Readers : Linked(r)}
    <2>1. q \in Queues /\ q \in Readers /\ Linked(q)
      BY DEF Readers
    <2>2. Home[q] = h => Offered(q) = Len(log[h]) - 0
      BY <1>2, <2>1 DEF Offered
    <2>3. Len(log[h]) \in Nat
      BY <1>a
    <2> QED
      BY <2>1, <2>2, <2>3
  <1>5. /\ {r \in Readers : Linked(r)}' = {r \in Readers : Linked(r)}
        /\ [r \in Readers |-> Offered(r)]' = [r \in Readers |-> Offered(r)]
        /\ [r \in Readers |-> qq[r]]' = [r \in Readers |-> qq[r]]
    BY <1>1, <1>3, <1>a DEF Readers
  <1>6. Broadcast!Publish(h, msg[t])
    BY <1>4, <1>5, <1>a DEF Broadcast!Publish, Offered
  <1> QED
    BY <1>a, <1>6 DEF Broadcast!Next

\* _insert_message: the reader is offered the last message of the log, and loses
\* it only when its queue is full.
LEMMA InsertOffers ==
  ASSUME NodesInv, NEW t \in Threads, Insert(t)
  PROVE  Broadcast!Next
  <1>a. /\ pc \in [Threads -> {"off", "starting", "idle", "lock", "fill", "wake", "pop"}]
        /\ todo[t] \in Seq(Queues) /\ todo[t] # <<>> /\ NoneTwice(todo[t])
        /\ pc[t] = "fill" /\ pc' = [pc EXCEPT ![t] = "wake"]
        /\ UNCHANGED <<qqs, log, todo>> /\ qq \in [Queues -> Seq(Payloads)]
        /\ log \in [Nodes -> Seq(Payloads)] /\ msg[t] \in Payloads
    BY DeliversPayload DEF NodesInv, NodesTypeOK, WalkInv, Walks, Insert, hub, Delivering
  <1>h. PICK h \in Readers : /\ h = Head(todo[t]) /\ Home[h] = NodeOf(t) /\ Linked(h)
                             /\ h \in Queues /\ Home[h] \in Nodes
    <2>1. Head(todo[t]) \in Queues /\ 1 \in DOMAIN todo[t] /\ todo[t][1] = Head(todo[t])
      BY <1>a, TailSeq
    <2>2. Home[todo[t][1]] = NodeOf(t) /\ Linked(todo[t][1])
      BY <2>1 DEF NodesInv, WalkInv, Walks
    <2> QED
      BY <2>1, <2>2, ThreadNode DEF Insert, Readers
  <1>1. qq' = [qq EXCEPT ![h] = Inserted(@, msg[t])]
    BY <1>h DEF Insert
  <1>2. log[Home[h]] # <<>> /\ log[Home[h]][Len(log[Home[h]])] = msg[t] /\ Len(log[Home[h]]) \in Nat
    BY <1>a, <1>h DEF NodesInv, WalkInv, LastLogged, Filling
  <1>3. LeftToFill(t) = todo[t] /\ LeftToFill(t)' = Tail(todo[t])
    BY <1>a, LeftByPlace, LeftByPlaceNext
  <1>4. \A u \in Threads : u # t => LeftToFill(u)' = LeftToFill(u)
    BY <1>a DEF LeftToFill
  <1>5. /\ \E i \in DOMAIN todo[t] : todo[t][i] = h
        /\ ~\E i \in DOMAIN Tail(todo[t]) : Tail(todo[t])[i] = h
        /\ \A x : x # h => ((\E i \in DOMAIN todo[t] : todo[t][i] = x)
                              <=> \E i \in DOMAIN Tail(todo[t]) : Tail(todo[t])[i] = x)
    <2>1. \A x : (\E i \in DOMAIN todo[t] : todo[t][i] = x)
                   <=> x = Head(todo[t]) \/ \E i \in DOMAIN Tail(todo[t]) : Tail(todo[t])[i] = x
      BY <1>a, TailSeq
    <2>2. \A i \in DOMAIN Tail(todo[t]) : Tail(todo[t])[i] # Head(todo[t])
      BY <1>a, TailSeq
    <2> QED
      BY <1>h, <2>1, <2>2
  <1>6. Unoffered(h) = 1 /\ Unoffered(h)' = 0
    <2>1. Owes(t, h) /\ ~Owes(t, h)'
      BY <1>3, <1>5 DEF Owes
    <2>2. \A u \in Threads : u # t => ~Owes(u, h)
      BY <1>a, <1>h, OwesWalks, OneWalks DEF Filling
    <2>3. \A u \in Threads : u # t => (Owes(u, h)' <=> Owes(u, h))
      BY <1>4 DEF Owes
    <2>4. {u \in Threads : Owes(u, h)'} = {}
      BY <2>1, <2>2, <2>3
    <2>5. Unoffered(h)' = Cardinality({u \in Threads : Owes(u, h)'})
      BY DEF Unoffered, Owes
    <2> QED
      BY <1>h, <2>1, <2>4, <2>5, OwesOne, FS_EmptySet
  <1>7. Offered(h) = Len(log[Home[h]]) - 1 /\ Offered(h)' = Len(log[Home[h]]) - 0
    BY <1>a, <1>h, <1>6 DEF Offered, Linked
  <1>8. ASSUME NEW q \in Readers, q # h PROVE Offered(q)' = Offered(q)
    <2>1. \A u \in Threads : Owes(u, q)' <=> Owes(u, q)
      <3> TAKE u \in Threads
      <3>1. CASE u = t
        <4>1. LeftToFill(u) = todo[t] /\ LeftToFill(u)' = Tail(todo[t])
          BY <1>3, <3>1
        <4>2. (\E i \in DOMAIN todo[t] : todo[t][i] = q)
                <=> \E i \in DOMAIN Tail(todo[t]) : Tail(todo[t])[i] = q
          BY <1>5, <1>8
        <4> QED
          BY <4>1, <4>2 DEF Owes
      <3>2. CASE u # t
        <4>1. LeftToFill(u)' = LeftToFill(u)
          BY <1>4, <3>2
        <4> QED
          BY <4>1 DEF Owes
      <3> QED
        BY <3>1, <3>2
    <2> QED
      BY <1>a, <2>1, OfferedNext DEF Readers
  <1>9. Broadcast!Offer(h)
    <2>1. [q \in Readers |-> Offered(q)]' = [[q \in Readers |-> Offered(q)] EXCEPT ![h] = @ + 1]
      <3>1. Offered(h)' = Offered(h) + 1
        BY <1>2, <1>7
      <3>2. \A q \in Readers : q # h => Offered(q)' = Offered(q)
        BY <1>8
      <3> QED
        BY <3>1, <3>2
    <2>2. [q \in Readers |-> Offered(q)][h] < Len(log[Home[h]])
          /\ [q \in Readers |-> Offered(q)][h] + 1 = Len(log[Home[h]])
      BY <1>2, <1>7
    <2>3. [q \in Readers |-> qq[q]]' =
            IF Len([q \in Readers |-> qq[q]][h]) < MaxQq
              THEN [[q \in Readers |-> qq[q]] EXCEPT ![h] = Append(@, msg[t])]
              ELSE [q \in Readers |-> qq[q]]
      <3>1. \A q \in Readers : q \in Queues
        BY DEF Readers
      <3>2. qq'[h] = Inserted(qq[h], msg[t]) /\ \A q \in Readers : q # h => qq'[q] = qq[q]
        BY <1>a, <1>h, <1>1, <3>1
      <3> QED
        BY <3>2 DEF Inserted
    <2>4. [q \in Readers |-> Home[q]][h] = Home[h] /\ h \in {q \in Readers : Linked(q)}
      BY <1>h
    <2>5. {q \in Readers : Linked(q)}' = {q \in Readers : Linked(q)} /\ log' = log
      BY <1>a DEF Linked
    <2>6. log[Home[h]][[q \in Readers |-> Offered(q)][h] + 1] = msg[t]
      BY <1>2, <2>2
    <2> QED
      BY <2>1, <2>2, <2>3, <2>4, <2>5, <2>6 DEF Broadcast!Offer, Offered
  <1> QED
    BY <1>9 DEF Broadcast!Next

\* pop_message.
LEMMA PopTakes ==
  ASSUME NodesInv, NEW q \in Readers, Pop(q)
  PROVE  Broadcast!Next
  <1>a. /\ pc \in [Threads -> {"off", "starting", "idle", "lock", "fill", "wake", "pop"}]
        /\ pc[q] = "pop" /\ pc' = [pc EXCEPT ![q] = "idle"] /\ q \in Queues /\ q \in Threads
        /\ UNCHANGED <<qqs, log, todo>> /\ qq \in [Queues -> Seq(Payloads)]
        /\ qq' = [qq EXCEPT ![q] = Tail(@)] /\ qq[q] # <<>>
    BY ThreadNode DEF NodesInv, NodesTypeOK, Pop, hub, Readers
  <1>1. ASSUME NEW t \in Threads PROVE LeftToFill(t)' = LeftToFill(t)
    BY <1>a DEF LeftToFill
  <1>2. ASSUME NEW r \in Readers PROVE Offered(r)' = Offered(r)
    <2>1. \A t \in Threads : Owes(t, r)' <=> Owes(t, r)
      BY <1>1 DEF Owes
    <2> QED
      BY <1>a, <2>1, OfferedNext DEF Readers
  <1>3. /\ {r \in Readers : Linked(r)}' = {r \in Readers : Linked(r)} /\ log' = log
        /\ [r \in Readers |-> Offered(r)]' = [r \in Readers |-> Offered(r)]
    BY <1>a, <1>2 DEF Linked
  <1>4. [r \in Readers |-> qq[r]]' = [[r \in Readers |-> qq[r]] EXCEPT ![q] = Tail(@)]
    <2>1. \A r \in Readers : r \in Queues
      BY DEF Readers
    <2>2. qq'[q] = Tail(qq[q]) /\ \A r \in Readers : r # q => qq'[r] = qq[r]
      BY <1>a, <2>1
    <2> QED
      BY <2>2
  <1>5. [r \in Readers |-> qq[r]][q] # <<>>
    BY <1>a
  <1>6. Broadcast!Take(q)
    BY <1>3, <1>4, <1>5 DEF Broadcast!Take, Offered
  <1> QED
    BY <1>6 DEF Broadcast!Next

(***************************************************************************)
(* The implementation.                                                     *)
(***************************************************************************)

\* The hubs are empty at first.
LEMMA BroadcastInit == Init => Broadcast!Init
  <1> SUFFICES ASSUME Init PROVE Broadcast!Init
    OBVIOUS
  <1>1. \A q \in Readers : q \in Queues /\ Home[q] \in Nodes
    BY ThreadNode DEF Readers
  <1>2. \A q \in Readers : ~Linked(q) /\ qq[q] = <<>>
    BY <1>1 DEF Init, Linked
  <1>3. /\ {q \in Readers : Linked(q)} = {} /\ [q \in Readers |-> qq[q]] = [q \in Readers |-> <<>>]
        /\ [q \in Readers |-> Offered(q)] = [q \in Readers |-> 0]
    BY <1>2 DEF Offered
  <1> QED
    BY <1>3 DEF Init, Broadcast!Init, Offered

\* Every step of the nodes is a step of the broadcast or none the readers see.
LEMMA BroadcastStep ==
  ASSUME NodesInv, [Next]_vars
  PROVE  [Broadcast!Next]_(Broadcast!vars)
  <1>1. CASE UNCHANGED vars
    <2>1. Stays
      BY <1>1 DEF Stays, vars, hub, queue, thread, Readers
    <2> QED
      BY <2>1, StaysUnseen, UnseenStutters
  <1>2. CASE Setup
    BY <1>2, Elsewhere, CreateStreamJoins DEF Setup
  <1>3. CASE Network
    BY <1>3, Elsewhere
  <1>4. ASSUME NEW t \in Threads, Deliver(t) PROVE [Broadcast!Next]_(Broadcast!vars)
    BY <1>4, LockPublishes, InsertOffers, WalkUnseen DEF Deliver
  <1>5. ASSUME NEW q \in Queues, Send(q) \/ Read(q) PROVE [Broadcast!Next]_(Broadcast!vars)
    <2>1. CASE Pop(q) /\ q \in Readers
      BY <2>1, PopTakes
    <2>2. CASE ~(Pop(q) /\ q \in Readers)
      BY <1>5, <2>2, Elsewhere DEF Read
    <2> QED
      BY <2>1, <2>2
  <1> QED
    BY <1>1, <1>2, <1>3, <1>4, <1>5 DEF Next

\* The nodes implement the ordered broadcast: the readers of a hub get its
\* messages in one order, each once, and miss one only when their queue is full
\* (send_message, receive_message, _insert_message, pop_message).
THEOREM BroadcastCorrect == Spec => BroadcastSpec
  <1>1. Spec => Broadcast!Init /\ [][Broadcast!Next]_(Broadcast!vars)
    BY BroadcastInit, BroadcastStep, NodesInvCorrect, PTL DEF Spec
  <1> QED
    BY <1>1 DEF BroadcastSpec, Broadcast!Spec
================================================================================
