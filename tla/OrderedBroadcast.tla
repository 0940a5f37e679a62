--------------------------- MODULE OrderedBroadcast ---------------------------
(***************************************************************************)
(* What a stream of p2vera promises its readers (src/p2vera/source/        *)
(* p2stream.h, p2hub.h): the messages that pass a hub form one sequence,   *)
(* every reader that joined is offered each later message once, in that    *)
(* order, and misses one only because its own box was full.                *)
(***************************************************************************)
EXTENDS Naturals, Sequences

CONSTANTS Hubs,      \* the hubs, one for a stream in a node
          Readers,   \* the queues that may join a hub
          HubOf,     \* the hub of a reader
          Messages,  \* what may be published
          Capacity   \* messages a box holds

VARIABLES log,      \* log[h]: the messages that passed hub h
          joined,   \* the readers linked to their hub
          offered,  \* offered[r]: how much of the log r was offered or joined after
          box       \* box[r]: what r was given and has not taken

vars == <<log, joined, offered, box>>

Init ==
  /\ log = [h \in Hubs |-> <<>>]
  /\ joined = {}
  /\ offered = [r \in Readers |-> 0]
  /\ box = [r \in Readers |-> <<>>]

Join(r) ==
  /\ r \notin joined
  /\ joined' = joined \cup {r}
  /\ offered' = [offered EXCEPT ![r] = Len(log[HubOf[r]])]
  /\ UNCHANGED <<log, box>>

\* A hub takes the next message when the last one was offered to everybody.
Publish(h, m) ==
  /\ \A r \in joined : HubOf[r] = h => offered[r] = Len(log[h])
  /\ log' = [log EXCEPT ![h] = Append(@, m)]
  /\ UNCHANGED <<joined, offered, box>>

Offer(r) ==
  /\ r \in joined
  /\ offered[r] < Len(log[HubOf[r]])
  /\ offered' = [offered EXCEPT ![r] = @ + 1]
  /\ box' = IF Len(box[r]) < Capacity
              THEN [box EXCEPT ![r] = Append(@, log[HubOf[r]][offered[r] + 1])]
              ELSE box
  /\ UNCHANGED <<log, joined>>

Take(r) ==
  /\ box[r] # <<>>
  /\ box' = [box EXCEPT ![r] = Tail(@)]
  /\ UNCHANGED <<log, joined, offered>>

Next ==
  \/ \E r \in Readers : Join(r) \/ Offer(r) \/ Take(r)
  \/ \E h \in Hubs, m \in Messages : Publish(h, m)

Spec == Init /\ [][Next]_vars
===============================================================================
