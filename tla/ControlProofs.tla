----------------------------- MODULE ControlProofs -----------------------------
(***************************************************************************)
(* Theorems about Control, for every set of clients, any number of control *)
(* threads and requests, and whatever is lost on the way.                  *)
(***************************************************************************)
EXTENDS Control, FiniteSetTheorems, SequenceTheorems, TLAPS

Working == {"deny", "part", "join", "enable", "spawn", "grant", "granted"}
Granting == {"join", "enable", "spawn", "grant", "granted"}

\* A control thread at work has a message in hand, and its queue is joined to
\* the data hub once join is behind it.
InHand ==
  \A i \in Controls :
    /\ pc[i] \in Working => req[i] \in Messages
    /\ pc[i] \in {"enable", "spawn", "grant", "granted"} => i \in joined
    /\ i \in joined => i \in Started

\* The link has a stream before a thread of it can look.
LinkKnown ==
  /\ enabled => link # None
  /\ \A i \in Controls : pc[i] = "spawn" \/ fd[i] # None => link # None
  /\ \A i \in Controls : reading[i] => fd[i] # None

\* A client that was told of its grant was sent one, and data comes from nobody
\* else.
GrantsTold ==
  /\ \A c \in Clients : \A k \in 1 .. Len(inbox[c]) :
       inbox[c][k].kind = "grant" => inbox[c][k].id \in grants
  /\ \A c \in Clients : state[c] \in {"granted", "served"} => c \in grants
  /\ \A i \in Controls : \A k \in 1 .. Len(qq[i]) : qq[i][k] \in arrived

\* A client that still asks has an attempt left.
StillTrying ==
  \A c \in Clients : state[c] \in {"starting", "asking"} => attempts[c] < MaxAttempts

\* While there is one control thread, is_connected keeps it from granting twice:
\* before it is set there is a grant only between sending and setting.
OneThread == \A i, j \in Started : i = j
ServedOnce ==
  /\ Started = {} => grants = {} /\ ~isConnected
  /\ OneThread => \A i \in Started :
       /\ isConnected => pc[i] \notin Granting
       /\ ~isConnected /\ pc[i] # "granted" => grants = {}
       /\ \A c, d \in grants : c = d

ControlInv == ControlTypeOK /\ InHand /\ LinkKnown /\ GrantsTold /\ StillTrying /\ ServedOnce
(***************************************************************************)
(* Queues.                                                                 *)
(***************************************************************************)

\* what a message appended leaves in a queue
LEMMA Appended ==
  ASSUME NEW S, NEW q \in Seq(S), NEW e \in S
  PROVE  /\ Append(q, e) \in Seq(S)
         /\ \A k \in 1 .. Len(Append(q, e)) :
              Append(q, e)[k] = e \/ (k \in 1 .. Len(q) /\ Append(q, e)[k] = q[k])
  BY AppendProperties

\* and what a message taken leaves
LEMMA Taken ==
  ASSUME NEW S, NEW q \in Seq(S), q # <<>>
  PROVE  /\ Head(q) \in S /\ 1 \in 1 .. Len(q) /\ Head(q) = q[1]
         /\ Tail(q) \in Seq(S)
         /\ \A k \in 1 .. Len(Tail(q)) : k + 1 \in 1 .. Len(q) /\ Tail(q)[k] = q[k + 1]
  BY HeadTailProperties

\* A message is one of Messages.
LEMMA MessageType ==
  ASSUME NEW k \in Kinds, NEW c \in Clients
  PROVE  Message(k, c) \in Messages /\ Message(k, c).kind = k /\ Message(k, c).id = c
  BY DEF Message, Messages

\* A client that writes grants nothing.
LEMMA WriteKeeps ==
  ASSUME ControlInv, NEW c \in Clients, NEW k \in {"request", "bye"}, Write(c, k)
  PROVE  /\ asked' \in [Clients -> Nat] /\ \A d \in Clients : asked'[d] <= MaxRequests[d]
         /\ inbox' \in [Clients -> Seq(Messages)]
         /\ ctrl' \in Seq(Messages)
         /\ \A d \in Clients : \A j \in 1 .. Len(inbox'[d]) :
              inbox'[d][j].kind = "grant" => inbox'[d][j].id \in grants
  <1> DEFINE m == Message(k, c)
  <1>1. m \in Messages /\ m.kind = k
    BY MessageType DEF Kinds
  <1>2. asked' \in [Clients -> Nat] /\ \A d \in Clients : asked'[d] <= MaxRequests[d]
    <2>1. asked[c] < MaxRequests[c] /\ asked' = [asked EXCEPT ![c] = @ + 1]
      BY DEF Write
    <2>2. asked \in [Clients -> Nat] /\ \A d \in Clients : asked[d] <= MaxRequests[d]
      BY DEF ControlInv, ControlTypeOK
    <2>3. \A d \in Clients : MaxRequests[d] \in Nat
      BY ControlAssumption
    <2> QED
      BY <2>1, <2>2, <2>3
  <1>3. PICK heard \in SUBSET (Listening \ {c}) :
          inbox' = [d \in Clients |-> IF d \in heard \cup {c} THEN Append(inbox[d], m) ELSE inbox[d]]
    BY DEF Write
  <1>4. \A d \in Clients : inbox[d] \in Seq(Messages)
    BY DEF ControlInv, ControlTypeOK
  <1>5. \A d \in Clients : /\ Append(inbox[d], m) \in Seq(Messages)
                           /\ \A j \in 1 .. Len(Append(inbox[d], m)) :
                                 \/ Append(inbox[d], m)[j] = m
                                 \/ j \in 1 .. Len(inbox[d]) /\ Append(inbox[d], m)[j] = inbox[d][j]
    BY <1>1, <1>4, Appended
  <1> HIDE DEF m
  <1>6. inbox' \in [Clients -> Seq(Messages)]
    BY <1>3, <1>4, <1>5
  <1>7. ASSUME NEW d \in Clients, NEW j \in 1 .. Len(inbox'[d]), inbox'[d][j].kind = "grant"
        PROVE  inbox'[d][j].id \in grants
    <2>1. inbox'[d] = inbox[d] \/ inbox'[d] = Append(inbox[d], m)
      BY <1>3
    <2>2. j \in 1 .. Len(inbox[d]) /\ inbox'[d][j] = inbox[d][j]
      BY <1>1, <1>5, <1>7, <2>1
    <2> QED
      BY <1>7, <2>2 DEF ControlInv, GrantsTold
  <1>8. ctrl' \in Seq(Messages)
    <2>1. ctrl' = ctrl \/ ctrl' = Append(ctrl, m)
      BY DEF Write, m
    <2>2. ctrl \in Seq(Messages)
      BY DEF ControlInv, ControlTypeOK
    <2> QED
      BY <1>1, <2>1, <2>2, Appended
  <1> QED
    BY <1>2, <1>6, <1>7, <1>8

\* A reply tells of a grant only if it is sent with one.
LEMMA ReplyKeeps ==
  ASSUME ControlInv, NEW i \in Controls, NEW k \in Kinds, Reply(i, k), req[i] \in Messages,
         grants \subseteq grants', k = "grant" => req[i].id \in grants'
  PROVE  /\ inbox' \in [Clients -> Seq(Messages)]
         /\ \A d \in Clients : \A j \in 1 .. Len(inbox'[d]) :
              inbox'[d][j].kind = "grant" => inbox'[d][j].id \in grants'
  <1> DEFINE m == Message(k, req[i].id)
  <1>1. m \in Messages /\ m.kind = k /\ m.id = req[i].id
    BY MessageType DEF Messages
  <1>2. PICK heard \in SUBSET Listening :
          inbox' = [d \in Clients |-> IF d \in heard THEN Append(inbox[d], m) ELSE inbox[d]]
    BY DEF Reply
  <1>3. \A d \in Clients : inbox[d] \in Seq(Messages)
    BY DEF ControlInv, ControlTypeOK
  <1>4. \A d \in Clients : /\ Append(inbox[d], m) \in Seq(Messages)
                           /\ \A j \in 1 .. Len(Append(inbox[d], m)) :
                                 \/ Append(inbox[d], m)[j] = m
                                 \/ j \in 1 .. Len(inbox[d]) /\ Append(inbox[d], m)[j] = inbox[d][j]
    BY <1>1, <1>3, Appended
  <1> HIDE DEF m
  <1>5. inbox' \in [Clients -> Seq(Messages)]
    BY <1>2, <1>3, <1>4
  <1>6. ASSUME NEW d \in Clients, NEW j \in 1 .. Len(inbox'[d]), inbox'[d][j].kind = "grant"
        PROVE  inbox'[d][j].id \in grants'
    <2>1. inbox'[d] = inbox[d] \/ inbox'[d] = Append(inbox[d], m)
      BY <1>2
    <2>2. \/ inbox'[d][j] = m
          \/ j \in 1 .. Len(inbox[d]) /\ inbox'[d][j] = inbox[d][j]
      BY <1>4, <2>1
    <2> QED
      BY <1>1, <1>6, <2>2 DEF ControlInv, GrantsTold
  <1> QED
    BY <1>5, <1>6

(***************************************************************************)
(* Every action keeps ControlInv.                                          *)
(***************************************************************************)

\* At the start nobody is connected and no message was sent.
LEMMA ControlStart == Init => ControlInv
  <1> SUFFICES ASSUME Init PROVE ControlInv
    OBVIOUS
  <1>1. ControlTypeOK
    <2>1. 0 \in 0 .. MaxAttempts /\ \A c \in Clients : 0 <= MaxRequests[c]
      BY ControlAssumption
    <2>2. /\ state \in [Clients -> {"starting", "asking", "granted", "served", "gone"}]
          /\ attempts \in [Clients -> 0 .. MaxAttempts]
          /\ asked \in [Clients -> Nat] /\ \A c \in Clients : asked[c] <= MaxRequests[c]
      BY <2>1 DEF Init
    <2>3. /\ inbox \in [Clients -> Seq(Messages)] /\ ctrl \in Seq(Messages)
          /\ qq \in [Controls -> Seq(Clients)]
      BY DEF Init
    <2> QED
      BY <2>2, <2>3 DEF Init, ControlTypeOK
  <1>2. InHand /\ LinkKnown
    BY DEF Init, InHand, LinkKnown, Started, Working
  <1>3. GrantsTold /\ StillTrying
    <2>1. \A c \in Clients : Len(inbox[c]) = 0 /\ state[c] = "starting" /\ attempts[c] = 0
      BY DEF Init
    <2>2. \A i \in Controls : Len(qq[i]) = 0
      BY DEF Init
    <2> QED
      BY <2>1, <2>2, ControlAssumption DEF GrantsTold, StillTrying
  <1>4. ServedOnce
    BY DEF Init, ServedOnce, Started
  <1> QED
    BY <1>1, <1>2, <1>3, <1>4 DEF ControlInv

\* A client asks once at a time, and believes a grant only when it was sent one.
LEMMA ClientKeeps ==
  ASSUME ControlInv, NEW c \in Clients, ClientStep(c)
  PROVE  ControlInv'
  <1>1. CASE Ask(c)
    <2>1. Write(c, "request") /\ state' = [state EXCEPT ![c] = "asking"]
      BY <1>1 DEF Ask
    <2>2. UNCHANGED <<attempts, pc, req, isConnected, grants, netLink, data>>
      BY <2>1 DEF Write
    <2>3. ControlTypeOK'
      BY <2>1, <2>2, WriteKeeps DEF ControlInv, ControlTypeOK, netLink, data
    <2>4. InHand' /\ LinkKnown' /\ ServedOnce' /\ StillTrying'
      BY <1>1, <2>1, <2>2 DEF Ask, ControlTypeOK, StillTrying, ControlInv, InHand, LinkKnown, ServedOnce, OneThread, Started, netLink, data
    <2>5. GrantsTold'
      BY <2>1, <2>2, WriteKeeps DEF ControlInv, ControlTypeOK, GrantsTold, data
    <2> QED
      BY <2>3, <2>4, <2>5 DEF ControlInv
  <1>2. CASE ReadControl(c)
    <2> DEFINE m == Head(inbox[c])
    <2>1. inbox \in [Clients -> Seq(Messages)] /\ inbox[c] # <<>>
      BY <1>2 DEF ReadControl, ControlInv, ControlTypeOK
    <2>2. /\ inbox' = [inbox EXCEPT ![c] = Tail(@)]
          /\ UNCHANGED <<asked, control, netLink, data>>
      BY <1>2 DEF ReadControl
    <2>3. /\ m \in Messages /\ 1 \in 1 .. Len(inbox[c]) /\ m = inbox[c][1]
          /\ Tail(inbox[c]) \in Seq(Messages)
          /\ \A k \in 1 .. Len(Tail(inbox[c])) :
               k + 1 \in 1 .. Len(inbox[c]) /\ Tail(inbox[c])[k] = inbox[c][k + 1]
      BY <2>1, Taken
    <2> HIDE DEF m
    <2>4. /\ state' \in [Clients -> {"starting", "asking", "granted", "served", "gone"}]
          /\ \A d \in Clients : state'[d] \in {"granted", "served"} =>
                 state[d] \in {"granted", "served"} \/ (d = c /\ m.kind = "grant" /\ m.id = c)
      BY <1>2 DEF ReadControl, ControlInv, ControlTypeOK, Exhausted, m
    <2>5. attempts' \in [Clients -> 0 .. MaxAttempts]
      <3>1. attempts[c] < MaxAttempts /\ attempts \in [Clients -> 0 .. MaxAttempts]
        BY <1>2 DEF ReadControl, ControlInv, ControlTypeOK, StillTrying
      <3>2. \/ attempts' = [attempts EXCEPT ![c] = attempts[c]]
            \/ attempts' = [attempts EXCEPT ![c] = attempts[c] + 1]
        BY <1>2 DEF ReadControl
      <3> QED
        BY <3>1, <3>2, ControlAssumption
    <2>6. ControlTypeOK'
      BY <2>1, <2>2, <2>3, <2>4, <2>5 DEF ControlInv, ControlTypeOK, control, netLink, data
    <2>9. StillTrying'
      <3>1. \A d \in Clients \ {c} : state'[d] = state[d] /\ attempts'[d] = attempts[d]
        BY <1>2 DEF ReadControl, ControlInv, ControlTypeOK
      <3>2. attempts[c] \in 0 .. MaxAttempts /\ attempts[c] < MaxAttempts
        BY <1>2 DEF ReadControl, ControlInv, ControlTypeOK, StillTrying
      <3>3. \/ attempts'[c] = attempts[c]
            \/ attempts'[c] = attempts[c] + 1 /\ (attempts'[c] >= MaxAttempts => state'[c] = "gone")
        BY <1>2 DEF ReadControl, ControlInv, ControlTypeOK, Exhausted
      <3> QED
        BY <3>1, <3>2, <3>3, ControlAssumption DEF ControlInv, StillTrying
    <2>7. InHand' /\ LinkKnown' /\ ServedOnce'
      BY <2>2 DEF ControlInv, InHand, LinkKnown, ServedOnce, OneThread, Started, control, netLink, data
    <2>8. GrantsTold'
      BY <2>1, <2>2, <2>3, <2>4 DEF ControlInv, GrantsTold, control, data
    <2> QED
      BY <2>6, <2>7, <2>8, <2>9 DEF ControlInv
  <1>3. CASE SendData(c)
    <2>1. /\ state[c] = "granted" /\ state' = [state EXCEPT ![c] = "served"]
          /\ UNCHANGED <<attempts, asked, inbox, control, netLink, joined>>
          /\ \/ UNCHANGED data
             \/ /\ qq' = [i \in Controls |-> IF i \in joined THEN Append(qq[i], c) ELSE qq[i]]
                /\ arrived' = arrived \cup {c}
      BY <1>3 DEF SendData, data
    <2>2. c \in grants /\ \A i \in Controls : qq[i] \in Seq(Clients)
      BY <2>1 DEF ControlInv, ControlTypeOK, GrantsTold
    <2>3. \A i \in Controls : /\ Append(qq[i], c) \in Seq(Clients)
                              /\ \A k \in 1 .. Len(Append(qq[i], c)) :
                                   \/ Append(qq[i], c)[k] = c
                                   \/ k \in 1 .. Len(qq[i]) /\ Append(qq[i], c)[k] = qq[i][k]
      BY <2>2, Appended
    <2>4. ControlTypeOK'
      BY <2>1, <2>2, <2>3 DEF ControlInv, ControlTypeOK, control, netLink, data
    <2>5. InHand' /\ LinkKnown' /\ ServedOnce' /\ StillTrying'
      BY <2>1 DEF StillTrying, ControlTypeOK, ControlInv, InHand, LinkKnown, ServedOnce, OneThread, Started, control, netLink
    <2>6. GrantsTold'
      <3>1. /\ UNCHANGED <<inbox, grants>>
            /\ \A d \in Clients : state'[d] \in {"granted", "served"} => state[d] \in {"granted", "served"}
        BY <2>1 DEF ControlInv, ControlTypeOK, control
      <3>2. ASSUME NEW i \in Controls, NEW k \in 1 .. Len(qq'[i]) PROVE qq'[i][k] \in arrived'
        <4>1. CASE UNCHANGED data
          BY <3>2, <4>1 DEF ControlInv, GrantsTold, data
        <4>2. CASE qq'[i] = qq[i] /\ arrived' = arrived \cup {c}
          BY <3>2, <4>2 DEF ControlInv, GrantsTold
        <4>3. CASE qq'[i] = Append(qq[i], c) /\ arrived' = arrived \cup {c}
          BY <2>3, <3>2, <4>3 DEF ControlInv, GrantsTold
        <4> QED
          BY <2>1, <4>1, <4>2, <4>3
      <3> QED
        BY <3>1, <3>2 DEF ControlInv, GrantsTold
    <2> QED
      BY <2>4, <2>5, <2>6 DEF ControlInv
  <1>4. CASE Part(c)
    <2>1. Write(c, "bye") /\ UNCHANGED state
      BY <1>4 DEF Part
    <2>2. UNCHANGED <<attempts, pc, req, isConnected, grants, netLink, data>>
      BY <2>1 DEF Write
    <2>3. ControlTypeOK'
      BY <2>1, <2>2, WriteKeeps DEF ControlInv, ControlTypeOK, netLink, data
    <2>4. InHand' /\ LinkKnown' /\ ServedOnce' /\ StillTrying'
      BY <1>4, <2>1, <2>2 DEF StillTrying, ControlInv, InHand, LinkKnown, ServedOnce, OneThread, Started, netLink, data
    <2>5. GrantsTold'
      BY <2>1, <2>2, WriteKeeps DEF ControlInv, GrantsTold, data
    <2> QED
      BY <2>3, <2>4, <2>5 DEF ControlInv
  <1> QED
    BY <1>1, <1>2, <1>3, <1>4 DEF ClientStep

\* A connection made or lost changes no grant: the threads learn of it later.
LEMMA LinkKeeps ==
  ASSUME ControlInv, NEW i \in Controls, LinkStep(i)
  PROVE  ControlInv'
  <1>1. CASE LinkPolls(i)
    <2>1. /\ fd[i] # None /\ reading' = [reading EXCEPT ![i] = TRUE]
          /\ UNCHANGED <<client, control, enabled, link, fd, processed, data>>
      BY <1>1 DEF LinkPolls
    <2> QED
      BY <2>1 DEF ControlInv, ControlTypeOK, InHand, LinkKnown, GrantsTold, StillTrying, ServedOnce,
                  OneThread, Started, client, control, data
  <1>2. CASE LinkPops(i)
    <2>1. /\ reading[i] /\ qq[link] # <<>>
          /\ processed' = processed \cup {Head(qq[link])}
          /\ qq' = [qq EXCEPT ![link] = Tail(@)]
          /\ reading' = [reading EXCEPT ![i] = FALSE]
          /\ UNCHANGED <<client, control, enabled, link, fd, joined, arrived>>
      BY <1>2 DEF LinkPops
    <2>2. link \in Controls /\ qq[link] \in Seq(Clients)
      BY <2>1 DEF ControlInv, ControlTypeOK, LinkKnown
    <2>3. /\ 1 \in 1 .. Len(qq[link]) /\ Head(qq[link]) = qq[link][1]
          /\ Tail(qq[link]) \in Seq(Clients)
          /\ \A k \in 1 .. Len(Tail(qq[link])) :
               k + 1 \in 1 .. Len(qq[link]) /\ Tail(qq[link])[k] = qq[link][k + 1]
      BY <2>1, <2>2, Taken
    <2>4. Head(qq[link]) \in arrived
      BY <2>2, <2>3 DEF ControlInv, GrantsTold
    <2>5. ControlTypeOK'
      BY <2>1, <2>2, <2>3, <2>4 DEF ControlInv, ControlTypeOK, client, control
    <2>6. GrantsTold'
      BY <2>1, <2>2, <2>3 DEF ControlInv, ControlTypeOK, GrantsTold, client, control
    <2>7. InHand' /\ LinkKnown' /\ StillTrying' /\ ServedOnce'
      BY <2>1 DEF ControlInv, ControlTypeOK, InHand, LinkKnown, StillTrying, ServedOnce, OneThread,
                  Started, client, control
    <2> QED
      BY <2>5, <2>6, <2>7 DEF ControlInv
  <1> QED
    BY <1>1, <1>2 DEF LinkStep

\* A thread more is no thread with a grant: Started only grows.
LEMMA StartKeeps ==
  ASSUME ControlInv, NEW i \in Controls, Start(i)
  PROVE  ControlInv'
  <1>1. /\ pc[i] = "off" /\ pc' = [pc EXCEPT ![i] = "poll"]
        /\ UNCHANGED <<client, ctrl, req, isConnected, grants, netLink, data>>
    BY DEF Start, StartsThread
  <1>2. pc \in [Controls -> {"off", "poll"} \cup Working]
    BY DEF ControlInv, ControlTypeOK, Working
  <1>3. ControlTypeOK'
    BY <1>1 DEF ControlInv, ControlTypeOK, client, netLink, data
  <1>4. InHand' /\ LinkKnown' /\ GrantsTold' /\ StillTrying'
    BY <1>1, <1>2 DEF ControlInv, InHand, LinkKnown, GrantsTold, StillTrying, Started, Working,
                      client, netLink, data
  <1>5. Started' = Started \cup {i} /\ i \notin Started
    BY <1>1, <1>2 DEF Started
  <1>6. ServedOnce'
    <2>1. OneThread' => Started = {}
      BY <1>5 DEF OneThread
    <2> QED
      BY <1>1, <1>2, <1>5, <2>1 DEF ControlInv, ServedOnce, Granting
  <1> QED
    BY <1>3, <1>4, <1>6 DEF ControlInv

\* A thread of the control grants only what no other holds, and releases its own.
LEMMA ThreadKeeps ==
  ASSUME ControlInv, NEW i \in Controls, ControlStep(i)
  PROVE  ControlInv'
  <1> DEFINE Phases == {"off", "poll"} \cup Working
  <1>1. pc \in [Controls -> Phases] /\ req \in [Controls -> Messages \cup {NoMessage}]
    BY DEF ControlInv, ControlTypeOK, Working
  <1>2. ASSUME pc[i] # "off", NEW p \in Phases \ {"off"}, pc' = [pc EXCEPT ![i] = p]
        PROVE  Started' = Started /\ i \in Started
    BY <1>1, <1>2 DEF Started
  <1>3. CASE Take(i)
    <2>1. /\ pc[i] = "poll" /\ ctrl # <<>> /\ ctrl' = Tail(ctrl)
          /\ req' = [req EXCEPT ![i] = Head(ctrl)]
          /\ UNCHANGED <<client, isConnected, grants, netLink, data>>
      BY <1>3 DEF Take
    <2>2. PICK p \in {"part", "deny", "join"} :
            pc' = [pc EXCEPT ![i] = p] /\ (p = "join" => ~isConnected)
      BY <1>3 DEF Take, Decided
    <2>3. Head(ctrl) \in Messages /\ Tail(ctrl) \in Seq(Messages)
      BY <2>1, Taken DEF ControlInv, ControlTypeOK
    <2>4. Started' = Started
      BY <1>2, <2>1, <2>2 DEF Working
    <2>5. ControlTypeOK'
      BY <2>1, <2>2, <2>3 DEF ControlInv, ControlTypeOK, client, netLink, data
    <2>6. InHand' /\ LinkKnown'
      BY <1>1, <2>1, <2>2, <2>3, <2>4 DEF ControlInv, InHand, LinkKnown, Working, netLink, data
    <2>7. GrantsTold' /\ StillTrying'
      BY <2>1 DEF ControlInv, GrantsTold, StillTrying, client, data
    <2>8. ServedOnce'
      BY <1>1, <2>1, <2>2, <2>4 DEF ControlInv, ServedOnce, OneThread, Granting, Started
    <2> QED
      BY <2>5, <2>6, <2>7, <2>8 DEF ControlInv
  <1>4. ASSUME NEW k \in {"deny", "parted"}, pc[i] \in {"deny", "part"}, Reply(i, k),
               pc' = [pc EXCEPT ![i] = "poll"], req' = [req EXCEPT ![i] = NoMessage],
               UNCHANGED <<state, attempts, asked, ctrl, isConnected, grants, netLink, data>>
        PROVE  ControlInv'
    <2>1. req[i] \in Messages
      BY <1>4 DEF ControlInv, InHand, Working
    <2>2. /\ inbox' \in [Clients -> Seq(Messages)]
          /\ \A d \in Clients : \A j \in 1 .. Len(inbox'[d]) :
               inbox'[d][j].kind = "grant" => inbox'[d][j].id \in grants'
      BY <1>4, <2>1, ReplyKeeps DEF Kinds
    <2>3. Started' = Started
      BY <1>2, <1>4 DEF Working
    <2>4. ControlTypeOK'
      BY <1>4, <2>2 DEF ControlInv, ControlTypeOK, netLink, data
    <2>5. InHand' /\ LinkKnown'
      BY <1>1, <1>4, <2>3 DEF ControlInv, InHand, LinkKnown, Working, netLink, data
    <2>6. GrantsTold' /\ StillTrying'
      BY <1>4, <2>2 DEF ControlInv, GrantsTold, StillTrying, data
    <2>7. ServedOnce'
      BY <1>1, <1>4, <2>3 DEF ControlInv, ServedOnce, OneThread, Granting, Started
    <2> QED
      BY <2>4, <2>5, <2>6, <2>7 DEF ControlInv
  <1>5. CASE Deny(i)
    BY <1>4, <1>5 DEF Deny
  <1>6. CASE HandlePart(i)
    BY <1>4, <1>6 DEF HandlePart
  <1>7. CASE Join(i)
    <2>1. /\ pc[i] = "join" /\ joined' = joined \cup {i}
          /\ UNCHANGED <<client, ctrl, req, isConnected, grants, netLink, qq, arrived>>
      BY <1>7 DEF Join
    <2>2. PICK p \in {"grant", "enable"} : pc' = [pc EXCEPT ![i] = p]
      BY <1>7 DEF Join
    <2>3. Started' = Started /\ i \in Started
      BY <1>2, <2>1, <2>2 DEF Working
    <2>4. ControlTypeOK'
      BY <2>1, <2>2 DEF ControlInv, ControlTypeOK, client, netLink
    <2>5. InHand' /\ LinkKnown'
      BY <1>1, <2>1, <2>2, <2>3 DEF ControlInv, InHand, LinkKnown, Working, netLink
    <2>6. GrantsTold' /\ StillTrying'
      BY <2>1 DEF ControlInv, GrantsTold, StillTrying, client
    <2>7. ServedOnce'
      BY <1>1, <2>1, <2>2, <2>3 DEF ControlInv, ServedOnce, OneThread, Granting, Started
    <2> QED
      BY <2>4, <2>5, <2>6, <2>7 DEF ControlInv
  <1>8. CASE Enable(i)
    <2>1. /\ pc[i] = "enable" /\ enabled' = TRUE /\ link' = i /\ pc' = [pc EXCEPT ![i] = "spawn"]
          /\ UNCHANGED <<client, ctrl, req, isConnected, grants, fd, reading, processed, data>>
      BY <1>8 DEF Enable
    <2>2. i \in joined /\ i # None
      BY <2>1, ControlAssumption DEF ControlInv, InHand
    <2>3. Started' = Started
      BY <1>2, <2>1 DEF Working
    <2>4. ControlTypeOK'
      BY <2>1, <2>2 DEF ControlInv, ControlTypeOK, client, data
    <2>5. InHand' /\ LinkKnown'
      BY <1>1, <2>1, <2>2, <2>3 DEF ControlInv, InHand, LinkKnown, Working, data
    <2>6. GrantsTold' /\ StillTrying'
      BY <2>1 DEF ControlInv, GrantsTold, StillTrying, client, data
    <2>7. ServedOnce'
      BY <1>1, <2>1, <2>3 DEF ControlInv, ServedOnce, OneThread, Granting, Started
    <2> QED
      BY <2>4, <2>5, <2>6, <2>7 DEF ControlInv
  <1>9. CASE Spawn(i)
    <2>1. /\ pc[i] = "spawn" /\ fd' = [fd EXCEPT ![i] = link] /\ pc' = [pc EXCEPT ![i] = "grant"]
          /\ UNCHANGED <<client, ctrl, req, isConnected, grants, enabled, link, reading, processed, data>>
      BY <1>9 DEF Spawn
    <2>2. link # None
      BY <2>1 DEF ControlInv, LinkKnown
    <2>3. Started' = Started
      BY <1>2, <2>1 DEF Working
    <2>4. ControlTypeOK'
      BY <2>1 DEF ControlInv, ControlTypeOK, client, data
    <2>5. InHand' /\ LinkKnown'
      BY <1>1, <2>1, <2>2, <2>3 DEF ControlInv, ControlTypeOK, InHand, LinkKnown, Working, data
    <2>6. GrantsTold' /\ StillTrying'
      BY <2>1 DEF ControlInv, GrantsTold, StillTrying, client, data
    <2>7. ServedOnce'
      BY <1>1, <2>1, <2>3 DEF ControlInv, ServedOnce, OneThread, Granting, Started
    <2> QED
      BY <2>4, <2>5, <2>6, <2>7 DEF ControlInv
  <1>10. CASE Grant(i)
    <2>1. /\ pc[i] = "grant" /\ Reply(i, "grant") /\ grants' = grants \cup {req[i].id}
          /\ pc' = [pc EXCEPT ![i] = "granted"]
          /\ UNCHANGED <<state, attempts, asked, ctrl, req, isConnected, netLink, data>>
      BY <1>10 DEF Grant
    <2>2. req[i] \in Messages /\ req[i].id \in Clients
      BY <2>1 DEF ControlInv, InHand, Working, Messages
    <2>3. /\ inbox' \in [Clients -> Seq(Messages)]
          /\ \A d \in Clients : \A j \in 1 .. Len(inbox'[d]) :
               inbox'[d][j].kind = "grant" => inbox'[d][j].id \in grants'
      BY <2>1, <2>2, ReplyKeeps DEF Kinds
    <2>4. Started' = Started /\ i \in Started
      BY <1>2, <2>1 DEF Working
    <2>5. ControlTypeOK'
      BY <2>1, <2>2, <2>3 DEF ControlInv, ControlTypeOK, netLink, data
    <2>6. InHand' /\ LinkKnown'
      BY <1>1, <2>1, <2>4 DEF ControlInv, InHand, LinkKnown, Working, netLink, data
    <2>7. GrantsTold' /\ StillTrying'
      BY <2>1, <2>3 DEF ControlInv, GrantsTold, StillTrying, data
    <2>8. ServedOnce'
      <3>1. OneThread => grants = {} /\ ~isConnected /\ \A j \in Started : j = i
        BY <2>1, <2>4 DEF ControlInv, ServedOnce, OneThread, Granting
      <3> QED
        BY <1>1, <2>1, <2>4, <3>1 DEF ServedOnce, OneThread, Granting
    <2> QED
      BY <2>5, <2>6, <2>7, <2>8 DEF ControlInv
  <1>11. CASE Granted(i)
    <2>1. /\ pc[i] = "granted" /\ isConnected' = TRUE /\ pc' = [pc EXCEPT ![i] = "poll"]
          /\ req' = [req EXCEPT ![i] = NoMessage]
          /\ UNCHANGED <<client, ctrl, grants, netLink, data>>
      BY <1>11 DEF Granted, ConnectedAfter
    <2>2. Started' = Started /\ i \in Started
      BY <1>2, <2>1 DEF Working
    <2>3. ControlTypeOK'
      BY <2>1 DEF ControlInv, ControlTypeOK, client, netLink, data
    <2>4. InHand' /\ LinkKnown'
      BY <1>1, <2>1, <2>2 DEF ControlInv, InHand, LinkKnown, Working, netLink, data
    <2>5. GrantsTold' /\ StillTrying'
      BY <2>1 DEF ControlInv, GrantsTold, StillTrying, client, data
    <2>6. ServedOnce'
      BY <1>1, <2>1, <2>2 DEF ControlInv, ServedOnce, OneThread, Granting, Started
    <2> QED
      BY <2>3, <2>4, <2>5, <2>6 DEF ControlInv
  <1> QED
    BY <1>3, <1>5, <1>6, <1>7, <1>8, <1>9, <1>10, <1>11 DEF ControlStep

\* Every step, and none.
LEMMA ControlKeeps == ControlInv /\ [Next]_vars => ControlInv'
  <1>1. ASSUME ControlInv, UNCHANGED vars PROVE ControlInv'
    BY <1>1 DEF ControlInv, ControlTypeOK, InHand, LinkKnown, GrantsTold, StillTrying, ServedOnce,
                OneThread, Started, vars, client, control, netLink, data
  <1> QED
    BY <1>1, ClientKeeps, StartKeeps, ThreadKeeps, LinkKeeps DEF Next

(***************************************************************************)
(* Theorems.                                                               *)
(***************************************************************************)

\* A set whose elements are all equal has at most one, and the other way round.
LEMMA AtMostOne ==
  ASSUME NEW S, IsFiniteSet(S)
  PROVE  Cardinality(S) <= 1 <=> \A x, y \in S : x = y
  <1>1. Cardinality(S) \in Nat
    BY FS_CardinalityType
  <1>2. ASSUME Cardinality(S) <= 1 PROVE \A x, y \in S : x = y
    <2>1. Cardinality(S) = 0 \/ Cardinality(S) = 1
      BY <1>1, <1>2
    <2> QED
      BY <2>1, FS_EmptySet, FS_Singleton
  <1>3. ASSUME \A x, y \in S : x = y PROVE Cardinality(S) <= 1
    <2>1. S = {} \/ \E x : S = {x}
      BY <1>3
    <2>2. Cardinality(S) = 0 \/ Cardinality(S) = 1
      BY <2>1, FS_EmptySet, FS_Singleton
    <2> QED
      BY <2>2
  <1> QED
    BY <1>2, <1>3

\* In every state of every run the grants, what the threads hold in hand and what
\* the clients were told agree (p2vera_control.cpp, handle_connect and its peers).
THEOREM ControlInvCorrect == Spec => []ControlInv
  BY ControlStart, ControlKeeps, PTL DEF Spec

\* The queues, threads and links keep their types; what a link handled came
\* from a client that was sent a grant.
THEOREM ControlTypeCorrect == Spec => []ControlTypeOK
  <1>1. ControlInv => ControlTypeOK
    BY DEF ControlInv
  <1> QED
    BY <1>1, ControlInvCorrect, PTL

\* One control thread grants one client and joins one queue, for every number
\* of clients and requests, whatever is lost (handle_network reads is_connected
\* before the grant and sets it after).
THEOREM OneClientServedCorrect == Spec => []OneClientServed
  <1>1. ControlInv => OneClientServed
    <2> SUFFICES ASSUME ControlInv, Cardinality(Started) <= 1
                 PROVE  Cardinality(grants) <= 1 /\ Cardinality(joined) <= 1
      BY DEF OneClientServed
    <2>1. /\ IsFiniteSet(Started) /\ joined \subseteq Started /\ IsFiniteSet(joined)
      <3>1. Started \subseteq Controls /\ joined \subseteq Controls
        BY DEF Started, ControlInv, ControlTypeOK
      <3> QED
        BY <3>1, FS_Subset, ControlAssumption DEF ControlInv, InHand
    <2>2. OneThread
      BY <2>1, AtMostOne DEF OneThread
    <2>3. \A c, d \in grants : c = d
      BY <2>2 DEF ControlInv, ServedOnce
    <2>4. IsFiniteSet(grants)
      <3>1. grants = {} \/ \E c : grants = {c}
        BY <2>3
      <3> QED
        BY <3>1, FS_EmptySet, FS_Singleton
    <2> QED
      BY <2>1, <2>2, <2>3, <2>4, AtMostOne DEF OneThread
  <1> QED
    BY <1>1, ControlInvCorrect, PTL
================================================================================
