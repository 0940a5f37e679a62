-------------------------------- MODULE Control --------------------------------
(***************************************************************************)
(* How a client gets the machine (src/p2vera_control.cpp, src/net_link.cpp,*)
(* `p2vera enable' of src/mentalstate.cpp, and the client of               *)
(* src/p2vera/source/tests/test_msgclient.cpp).                            *)
(*                                                                         *)
(* Everybody writes to the stream `control' and reads all of it, its own   *)
(* messages included.  The first request is granted: the machine joins the *)
(* data stream, starts the thread of CNetLink and answers; later requests  *)
(* are denied.  Each `p2vera enable' starts one more control thread on the *)
(* one control queue, since start never sets is_started.                   *)
(*                                                                         *)
(* The streams are those of P2Vera.tla, used here at their interface: a    *)
(* message reaches any of the peers that listen, at once, and waits in a   *)
(* queue for as long as its reader likes; reordering on the way is left to *)
(* P2Vera.tla.                                                             *)
(***************************************************************************)
EXTENDS Naturals, Sequences, FiniteSets

CONSTANTS Clients,
          Controls,    \* control threads the script may start, and their data queues
          None,        \* no data queue
          MaxAttempts, \* max_connect_attemps of the client
          MaxRequests  \* bound: requests of each client

ASSUME ControlAssumption ==
  /\ IsFiniteSet(Controls) /\ None \notin Controls \cup Clients
  /\ MaxAttempts \in Nat \ {0} /\ MaxRequests \in [Clients -> Nat]

VARIABLES
  state, attempts, asked, inbox, \* of a client; inbox is its control queue
  ctrl, pc, req, isConnected,    \* P2VeraControl: queue, threads, request in hand, is_connected
  enabled, link,                 \* CNetLink: enabled, p2s_c2s
  joined, qq,                    \* the data hub: its queues and what they hold
  fd, reading,                   \* a link thread: the queue it polls, whether poll returned
  grants, arrived, processed     \* history: clients that were sent a grant, whose data reached
                                 \* the machine, whose data was handled

client == <<state, attempts, asked, inbox>>
control == <<ctrl, pc, req, isConnected, grants>>
netLink == <<enabled, link, fd, reading, processed>>
data == <<joined, qq, arrived>>
vars == <<client, control, netLink, data>>

Kinds == {"request", "bye", "grant", "deny", "parted"}
Messages == [kind : Kinds, id : Clients]
NoMessage == [kind |-> "none", id |-> None]
Message(k, c) == [kind |-> k, id |-> c]
Started == {i \in Controls : pc[i] # "off"}

Init ==
  /\ state = [c \in Clients |-> "starting"]
  /\ attempts = [c \in Clients |-> 0]
  /\ asked = [c \in Clients |-> 0]
  /\ inbox = [c \in Clients |-> <<>>]
  /\ ctrl = <<>>
  /\ pc = [i \in Controls |-> "off"]
  /\ req = [i \in Controls |-> NoMessage]
  /\ isConnected = FALSE
  /\ enabled = FALSE
  /\ link = None
  /\ joined = {}
  /\ qq = [i \in Controls |-> <<>>]
  /\ fd = [i \in Controls |-> None]
  /\ reading = [i \in Controls |-> FALSE]
  /\ grants = {} /\ arrived = {} /\ processed = {}

(***************************************************************************)
(* The client.                                                             *)
(***************************************************************************)

\* A client listens from its first request until it is connected, the machine
\* once a control thread runs.
Listening == {c \in Clients : state[c] = "asking"}

\* What a client writes to the control stream comes back to it first and then
\* reaches some of the others.
Write(c, k) ==
  LET m == Message(k, c) IN
    /\ asked[c] < MaxRequests[c]
    /\ asked' = [asked EXCEPT ![c] = @ + 1]
    /\ \E heard \in SUBSET (Listening \ {c}) :
         inbox' = [d \in Clients |-> IF d \in heard \cup {c} THEN Append(inbox[d], m) ELSE inbox[d]]
    /\ \/ UNCHANGED ctrl
       \/ Started # {} /\ ctrl' = Append(ctrl, m)
    /\ UNCHANGED <<attempts, pc, req, isConnected, grants, netLink, data>>

\* The first request, or another after half a second without a message.
Ask(c) ==
  /\ state[c] \in {"starting", "asking"}
  /\ inbox[c] = <<>>
  /\ Write(c, "request")
  /\ state' = [state EXCEPT ![c] = "asking"]

\* Mutant: one attempt more.
ExhaustedLater(n) == n > MaxAttempts

Exhausted(n) == n >= MaxAttempts

\* Anything but its own grant counts as a failed attempt; a client that reaches
\* max_connect_attemps exits.
ReadControl(c) ==
  LET m == Head(inbox[c])
      mine == m.kind = "grant" /\ m.id = c
      tried == IF mine THEN attempts[c] ELSE attempts[c] + 1
  IN
    /\ state[c] = "asking" /\ inbox[c] # <<>>
    /\ inbox' = [inbox EXCEPT ![c] = Tail(@)]
    /\ attempts' = [attempts EXCEPT ![c] = tried]
    /\ state' = [state EXCEPT ![c] = CASE mine -> "granted"
                                       [] Exhausted(tried) -> "gone"
                                       [] OTHER -> @]
    /\ UNCHANGED <<asked, control, netLink, data>>

\* A connected client writes to the data stream (its two messages, written in one
\* expression, stand as one): into every queue of the hub, unless it is lost.
SendData(c) ==
  /\ state[c] = "granted"
  /\ state' = [state EXCEPT ![c] = "served"]
  /\ \/ UNCHANGED data
     \/ /\ Started # {}
        /\ qq' = [i \in Controls |-> IF i \in joined THEN Append(qq[i], c) ELSE qq[i]]
        /\ arrived' = arrived \cup {c}
        /\ UNCHANGED joined
  /\ UNCHANGED <<attempts, asked, inbox, control, netLink>>

\* A peer that asks to disconnect: the handler is there, no client of the repository does it.
Part(c) ==
  /\ state[c] = "served"
  /\ Write(c, "bye")
  /\ UNCHANGED state

(***************************************************************************)
(* P2VeraControl.                                                          *)
(***************************************************************************)

\* start never sets is_started.
StartsThread(i) == pc[i] = "off"

\* `p2vera enable', of a loaded configuration: every call starts a control thread.
Start(i) ==
  /\ StartsThread(i)
  /\ pc' = [pc EXCEPT ![i] = "poll"]
  /\ UNCHANGED <<client, ctrl, req, isConnected, grants, netLink, data>>

\* Mutant: the grant goes out at once, and nobody listens.
GrantAtOnce(connected) == IF connected THEN "deny" ELSE "grant"

\* is_connected is read here and set after the grant.
Decided(connected) == IF connected THEN "deny" ELSE "join"

Take(i) ==
  /\ pc[i] = "poll" /\ ctrl # <<>>
  /\ ctrl' = Tail(ctrl)
  /\ req' = [req EXCEPT ![i] = Head(ctrl)]
  /\ pc' = [pc EXCEPT ![i] = IF Head(ctrl).kind = "request" THEN Decided(isConnected) ELSE "part"]
  /\ UNCHANGED <<client, isConnected, grants, netLink, data>>

\* A message of the machine reaches some of the clients.  The copy that comes
\* back to its own control queue is no request and is dropped there: left out.
Reply(i, k) ==
  \E heard \in SUBSET Listening :
    inbox' = [c \in Clients |->
               IF c \in heard THEN Append(inbox[c], Message(k, req[i].id)) ELSE inbox[c]]

Deny(i) ==
  /\ pc[i] = "deny"
  /\ Reply(i, "deny")
  /\ pc' = [pc EXCEPT ![i] = "poll"]
  /\ req' = [req EXCEPT ![i] = NoMessage]
  /\ UNCHANGED <<state, attempts, asked, ctrl, isConnected, grants, netLink, data>>

\* create_instream joins a new queue to the hub of the data stream; connect_client
\* tests and sets enabled without a lock, and its result is ignored.
Join(i) ==
  /\ pc[i] = "join"
  /\ joined' = joined \cup {i}
  /\ pc' = [pc EXCEPT ![i] = IF enabled THEN "grant" ELSE "enable"]
  /\ UNCHANGED <<client, ctrl, req, isConnected, grants, netLink, qq, arrived>>

\* The stream of the link is set and the thread created.
Enable(i) ==
  /\ pc[i] = "enable"
  /\ enabled' = TRUE
  /\ link' = i
  /\ pc' = [pc EXCEPT ![i] = "spawn"]
  /\ UNCHANGED <<client, ctrl, req, isConnected, grants, fd, reading, processed, data>>

\* The new thread asks p2s_c2s for its descriptor once.
Spawn(i) ==
  /\ pc[i] = "spawn"
  /\ fd' = [fd EXCEPT ![i] = link]
  /\ pc' = [pc EXCEPT ![i] = "grant"]
  /\ UNCHANGED <<client, ctrl, req, isConnected, grants, enabled, link, reading, processed, data>>

Grant(i) ==
  /\ pc[i] = "grant"
  /\ Reply(i, "grant")
  /\ grants' = grants \cup {req[i].id}
  /\ pc' = [pc EXCEPT ![i] = "granted"]
  /\ UNCHANGED <<state, attempts, asked, ctrl, req, isConnected, netLink, data>>

\* Mutant: is_connected stays as it was.
ConnectedStays(connected) == connected

\* The last assignment of the branch.
ConnectedAfter(connected) == TRUE

Granted(i) ==
  /\ pc[i] = "granted"
  /\ isConnected' = ConnectedAfter(isConnected)
  /\ pc' = [pc EXCEPT ![i] = "poll"]
  /\ req' = [req EXCEPT ![i] = NoMessage]
  /\ UNCHANGED <<client, ctrl, grants, netLink, data>>

\* `disconnect grant' whatever the state; is_connected keeps its value and
\* disconnect_client is not called.
HandlePart(i) ==
  /\ pc[i] = "part"
  /\ Reply(i, "parted")
  /\ pc' = [pc EXCEPT ![i] = "poll"]
  /\ req' = [req EXCEPT ![i] = NoMessage]
  /\ UNCHANGED <<state, attempts, asked, ctrl, isConnected, grants, netLink, data>>

(***************************************************************************)
(* The thread of CNetLink: it polls the descriptor it asked for and pops   *)
(* from the stream the link has now.                                       *)
(***************************************************************************)

LinkPolls(i) ==
  /\ fd[i] # None /\ ~reading[i]
  /\ enabled
  /\ qq[fd[i]] # <<>>
  /\ reading' = [reading EXCEPT ![i] = TRUE]
  /\ UNCHANGED <<client, control, enabled, link, fd, processed, data>>

\* The read of the pipe waits while the queue of the link is empty.
LinkPops(i) ==
  /\ reading[i]
  /\ qq[link] # <<>>
  /\ processed' = processed \cup {Head(qq[link])}
  /\ qq' = [qq EXCEPT ![link] = Tail(@)]
  /\ reading' = [reading EXCEPT ![i] = FALSE]
  /\ UNCHANGED <<client, control, enabled, link, fd, joined, arrived>>

ControlStep(i) ==
  \/ Take(i) \/ Deny(i) \/ HandlePart(i)
  \/ Join(i) \/ Enable(i) \/ Spawn(i) \/ Grant(i) \/ Granted(i)

LinkStep(i) == LinkPolls(i) \/ LinkPops(i)
ClientStep(c) == Ask(c) \/ ReadControl(c) \/ SendData(c) \/ Part(c)

Next ==
  \/ \E c \in Clients : ClientStep(c)
  \/ \E i \in Controls : Start(i) \/ ControlStep(i) \/ LinkStep(i)

\* The threads of the machine run; clients and the network promise nothing.
Spec ==
  /\ Init /\ [][Next]_vars
  /\ \A i \in Controls : WF_vars(ControlStep(i)) /\ WF_vars(LinkStep(i))

(***************************************************************************)
(* Properties.                                                             *)
(***************************************************************************)

\* The types of the variables; a link thread was started by its control thread
\* and reads a queue that is joined to the hub.
ControlTypeOK ==
  /\ state \in [Clients -> {"starting", "asking", "granted", "served", "gone"}]
  /\ attempts \in [Clients -> 0 .. MaxAttempts]
  /\ asked \in [Clients -> Nat] /\ \A c \in Clients : asked[c] <= MaxRequests[c]
  /\ inbox \in [Clients -> Seq(Messages)]
  /\ ctrl \in Seq(Messages)
  /\ pc \in [Controls -> {"off", "poll", "deny", "part", "join",
                          "enable", "spawn", "grant", "granted"}]
  /\ req \in [Controls -> Messages \cup {NoMessage}]
  /\ isConnected \in BOOLEAN /\ enabled \in BOOLEAN
  /\ link \in joined \cup {None}
  /\ joined \subseteq Controls
  /\ qq \in [Controls -> Seq(Clients)]
  /\ fd \in [Controls -> joined \cup {None}]
  /\ reading \in [Controls -> BOOLEAN]
  /\ grants \subseteq Clients /\ processed \subseteq arrived /\ arrived \subseteq grants

\* With one control thread the machine serves one client: no second client is
\* ever sent a grant, whatever is lost or repeated, and the data stream
\* has one queue.  A second `p2vera enable' voids it (handle_network reads
\* is_connected before and sets it after the grant).
OneClientServed ==
  Cardinality(Started) <= 1 => Cardinality(grants) <= 1 /\ Cardinality(joined) <= 1

\* Data that reaches the machine is handled: a client that was granted finds the
\* queue joined and a link thread at work, even when two control threads join two
\* queues and a link thread polls one of them and pops from the other.
DataHandled ==
  \A c \in Clients : c \in arrived ~> c \in processed

===============================================================================
