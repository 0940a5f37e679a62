-------------------------- MODULE MentalFsmProofs --------------------------
(***************************************************************************)
(* Theorems about MentalFsm, for every set of triggers and of commands,    *)
(* every sample rate and every time.  The tree part of the argument is     *)
(* TreeInv of TriggerTreeProofs: every step is one of the tree or leaves   *)
(* it as it is.                                                            *)
(***************************************************************************)
EXTENDS MentalFsm, TriggerTreeProofs

(***************************************************************************)
(* The two threads are a caller of the tree.                               *)
(***************************************************************************)
LEMMA ReceiveRefines ==
    ASSUME Receive PROVE [TreeNext]_treeVars
  <1>1. ASSUME NEW v \in Triggers, NEW n, SetOutput(v, n)
        PROVE  [TreeNext]_treeVars
    BY <1>1 DEF SetOutput, TreeNext
  <1>2. CASE SetOutputOutOfRange
    BY <1>2, CallerAssumption DEF SetOutputOutOfRange, NetReady, TreeNext
  <1>3. ASSUME NEW t, ReceiveTime(t) \/ ReceiveOldTime(t) \/ ReceiveTimeNoRate(t)
        PROVE  [TreeNext]_treeVars
    BY <1>3, CallerAssumption
    DEF ReceiveTime, ReceiveOldTime, ReceiveTimeNoRate, NetReady, TreeNext
  <1>4. CASE NetRace
    BY <1>4, CallerAssumption DEF NetRace, NetReady, TreeNext
  <1> QED
    BY <1>1, <1>2, <1>3, <1>4 DEF Receive

LEMMA NetStepRefines ==
    ASSUME NetStep PROVE [TreeNext]_treeVars
  <1>1. ASSUME NEW t \in Triggers, WakePending(t) \/ WakeFreed(t)
        PROVE  [TreeNext]_treeVars
    BY <1>1, CallerAssumption DEF WakePending, WakeFreed, TreeNext
  <1>2. ASSUME NEW d \in DOMAIN lookup_tree,
               ProcessAnchestors(d) \/ ProcessBadInput(d)
        PROVE  [TreeNext]_treeVars
    BY <1>2, CallerAssumption DEF ProcessAnchestors, ProcessBadInput, TreeNext
  <1>3. CASE PostprocessTasks
    BY <1>3 DEF PostprocessTasks, TreeNext
  <1>4. CASE LoopDone \/ Drained \/ NextStep \/ LastStep
    BY <1>4 DEF LoopDone, Drained, NextStep, LastStep
  <1> QED
    BY <1>1, <1>2, <1>3, <1>4 DEF NetStep

LEMMA NextRefines ==
    ASSUME [Next]_vars PROVE [TreeNext]_treeVars
  <1>1. CASE TclTable
    BY <1>1 DEF TclTable, TreeNext
  <1>2. CASE TclBuild
    BY <1>2 DEF TclBuild, TreeNext
  <1>3. CASE TclRace
    BY <1>3, CallerAssumption DEF TclRace, TreeNext
  <1>4. CASE \/ \E r \in LocalRates : SetLocalSamplerate(r)
             \/ \E r \in MinRates : SetMinSamplerate(r)
             \/ \E r \in RemoteRates : SetRemoteSamplerate(r)
    BY <1>4 DEF SetLocalSamplerate, SetMinSamplerate, SetRemoteSamplerate
  <1>5. CASE UNCHANGED vars
    BY <1>5 DEF vars
  <1> QED
    BY <1>1, <1>2, <1>3, <1>4, <1>5, ReceiveRefines, NetStepRefines DEF Next

(***************************************************************************)
(* The inductive invariant.  Only the network thread wakes and processes   *)
(* triggers, and never inside BuildTree; what it has processed in a step   *)
(* lies above everything that still waits; a time trigger of the current   *)
(* step is about to be woken, waits or is processed; and a trigger with a  *)
(* changed input is about to be woken or waits.                            *)
(***************************************************************************)
ThreadsApart ==
    /\ net = "idle" \/ tcl = "script"
    /\ net \notin Loops => pending = {}
    /\ net \in {"idle", "output", "touch"} => done = {}
    /\ net = "post" => NothingQueued

StepOrder ==
    (built /\ builds <= 1) =>
        \A t \in done :
            /\ \A u \in Triggers : touched[u] => /\ u \notin done
                                                 /\ distance[u] >= distance[t]
            /\ \A u \in pending : distance[u] > distance[t]

TimeTriggersSeen ==
    Running =>
        /\ net = "touch" => \A t \in time_triggers : t \in pending \/ touched[t]
        /\ net \in {"wake", "drain", "post"} =>
              \A t \in time_triggers : t \in done \/ touched[t]

NothingLost ==
    Running =>
        \A p \in stale : WakeExpected(p) => touched[p[1]] \/ p[1] \in pending

FsmInv ==
    /\ TypeOK
    /\ TreeInv
    /\ ThreadsApart
    /\ StepOrder
    /\ TimeTriggersSeen
    /\ NothingLost

LEMMA FsmInitInv == Init => FsmInv
  <1> SUFFICES ASSUME Init PROVE FsmInv
    OBVIOUS
  <1>1. TreeInv /\ TreeTypeOK
    BY InitInv, InitType DEF Init
  <1>2. TypeOK
    BY <1>1 DEF Init, TypeOK, NetStates
  <1>3. ThreadsApart /\ StepOrder /\ TimeTriggersSeen /\ NothingLost
    BY DEF Init, ThreadsApart, StepOrder, TimeTriggersSeen, NothingLost
  <1> QED
    BY <1>1, <1>2, <1>3 DEF FsmInv

\* The end of the process.
LEMMA FsmHalt ==
    ASSUME FsmInv, TreeInv', NEW why \in Stops, Halt(why),
           UNCHANGED <<net, ghosts, clock, rates>>, pending' \subseteq pending
    PROVE  FsmInv'
  <1>1. UNCHANGED <<live, time_triggers, deps, anchs, built, distance,
                    lookup_tree, touched, tcl, builds>>
    BY DEF Halt, registry, bindings, tree, queues
  <1>2. status' # "run"
    BY DEF Halt, Stops
  <1>3. TypeOK'
    BY <1>1 DEF FsmInv, TypeOK, TreeInv, ghosts, clock, rates
  <1>4. ThreadsApart'
    BY <1>1 DEF FsmInv, ThreadsApart, NothingQueued, ghosts
  <1>5. StepOrder'
    BY <1>1 DEF FsmInv, StepOrder, ghosts
  <1>6. TimeTriggersSeen' /\ NothingLost'
    BY <1>2 DEF TimeTriggersSeen, NothingLost, Running
  <1> QED
    BY <1>3, <1>4, <1>5, <1>6 DEF FsmInv

\* What the variables of the tree mean to the invariant.
LEMMA FsmSame ==
    ASSUME FsmInv, UNCHANGED <<treeVars, net, pending, ghosts>>,
           current_time' \in Nat, max_time_step' \in Nat, new_time' \in Nat,
           local_samplerate' \in Nat, remote_samplerate' \in Nat,
           min_samplerate' \in Nat
    PROVE  FsmInv'
  <1>1. UNCHANGED <<live, time_triggers, deps, anchs, built, distance,
                    lookup_tree, touched, tcl, builds, status>>
    BY DEF treeVars, registry, bindings, tree, queues
  <1>2. TreeInv'
    BY NextInv DEF FsmInv
  <1>3. TypeOK'
    BY <1>1, <1>2 DEF FsmInv, TypeOK, TreeInv, ghosts
  <1>4. ThreadsApart' /\ StepOrder'
    BY <1>1 DEF FsmInv, ThreadsApart, StepOrder, NothingQueued, ghosts
  <1>5. TimeTriggersSeen'
    BY <1>1 DEF FsmInv, TimeTriggersSeen, Running, ghosts
  <1>6. NothingLost'
    BY <1>1 DEF FsmInv, NothingLost, Running, ghosts, WakeExpected,
                WokenByOutput, WokenByChange
  <1> QED
    BY <1>2, <1>3, <1>4, <1>5, <1>6 DEF FsmInv

\* Steps of the Tcl thread on the tables: the network thread is between
\* messages.
LEMMA FsmIdle ==
    ASSUME FsmInv, TreeInv', net = "idle", NothingLost',
           UNCHANGED <<net, pending, done, clock, rates>>,
           stale' \subseteq live' \X Nat
    PROVE  FsmInv'
  <1>1. pending = {} /\ done = {}
    BY DEF FsmInv, ThreadsApart, Loops
  <1>2. TypeOK'
    BY <1>1 DEF FsmInv, TypeOK, TreeInv, clock, rates
  <1>3. ThreadsApart' /\ StepOrder' /\ TimeTriggersSeen'
    BY <1>1 DEF ThreadsApart, StepOrder, TimeTriggersSeen
  <1> QED
    BY <1>2, <1>3 DEF FsmInv

LEMMA FedType ==
    ASSUME NEW s, NEW os
    PROVE  Fed(s, os) \subseteq live \X Nat
  <1>1. \A t \in Triggers : Slots(t) \subseteq Nat
    BY SizeAssumption DEF Slots
  <1> QED
    BY <1>1 DEF Fed

LEMMA TclTableInv ==
    ASSUME FsmInv, TreeInv', TclTable PROVE FsmInv'
  <1>1. net = "idle" /\ pending = {} /\ stale \subseteq live \X Nat
    BY DEF TclTable, FsmInv, TypeOK, ThreadsApart, Loops
  <1>2. ASSUME NEW t \in Triggers, Load(t), UNCHANGED fsmVars PROVE FsmInv'
    <2>1. NothingLost'
      BY <1>2 DEF FsmInv, NothingLost, Load, Running, bindings, queues, fsmVars,
                  ghosts, WakeExpected, WokenByOutput, WokenByChange
    <2>2. stale' \subseteq live' \X Nat
      BY <1>1, <1>2 DEF Load, fsmVars, ghosts
    <2> QED
      BY <1>1, <1>2, <2>1, <2>2, FsmIdle DEF fsmVars, ghosts
  <1>3. ASSUME NEW c \in Commands, Bind(c), stale' = StaleLeft(c),
               UNCHANGED <<net, pending, done, clock, rates>>
        PROVE  FsmInv'
    <2>1. c.src \in Triggers /\ c.dst \in Triggers
      BY CommandAssumption
    <2>2. stale' \subseteq stale /\ \A p \in stale' : p[1] # c.dst
      BY <1>3 DEF StaleLeft
    <2>3. UNCHANGED <<live, touched, status>>
      BY <1>3 DEF Bind, registry, queues
    <2>4. \A t \in Triggers : t # c.dst => anchs'[t] = anchs[t]
      BY <1>3 DEF Bind, FsmInv, TypeOK, TreeTypeOK
    <2>5. \A t : \A d \in deps'[t] : d.trigger = c.dst \/ d \in deps[t]
      BY <1>3, <2>1 DEF Bind, FsmInv, TypeOK, TreeTypeOK
    <2>6. ASSUME NEW p \in stale', WakeExpected(p)' PROVE WakeExpected(p)
      <3>1. p[1] \in Triggers /\ p[1] # c.dst
        BY <1>1, <2>2 DEF FsmInv, TypeOK, TreeTypeOK
      <3>2. anchs'[p[1]] = anchs[p[1]]
        BY <2>4, <3>1
      <3>3. \A t : \A d \in deps'[t] : d.trigger = p[1] => d \in deps[t]
        BY <2>5, <3>1
      <3> QED
        BY <2>6, <3>2, <3>3 DEF WakeExpected, WokenByOutput, WokenByChange
    <2>7. NothingLost'
      BY <1>3, <2>2, <2>3, <2>6 DEF FsmInv, NothingLost, Running
    <2> QED
      BY <1>1, <1>3, <2>2, <2>3, <2>7, FsmIdle
  <1>4. CASE BuildStart /\ UNCHANGED fsmVars
    <2>1. NothingLost'
      BY <1>4 DEF FsmInv, NothingLost, BuildStart, Running, bindings, queues,
                  fsmVars, ghosts, WakeExpected, WokenByOutput, WokenByChange
    <2>2. stale' \subseteq live' \X Nat
      BY <1>1, <1>4 DEF BuildStart, registry, fsmVars, ghosts
    <2> QED
      BY <1>1, <1>4, <2>1, <2>2, FsmIdle DEF fsmVars, ghosts
  <1> QED
    BY <1>2, <1>3, <1>4 DEF TclTable

LEMMA TclBuildInv ==
    ASSUME FsmInv, TreeInv', TclBuild PROVE FsmInv'
  <1>1. /\ Running /\ tcl = "build"
        /\ UNCHANGED <<deps, anchs, touched>>
    BY DEF TclBuild, BuildStep, ProcessOneTrigger, BuildFinish,
           BuildDeletesTwice, BuildReadsFreed, Halt, bindings, queues
  <1>2. net = "idle"
    BY <1>1 DEF FsmInv, ThreadsApart
  <1>3. stale' \subseteq stale /\ stale' \subseteq live' \X Nat
    BY DEF TclBuild, FsmInv, TypeOK
  <1>4. NothingLost'
    BY <1>1, <1>3 DEF FsmInv, NothingLost, TclBuild, WakeExpected,
                      WokenByOutput, WokenByChange
  <1> QED
    BY <1>2, <1>3, <1>4, FsmIdle DEF TclBuild

\* The times RunToTime computes with.
LEMMA ScaledTime ==
    ASSUME NEW t \in Nat, NEW m \in Nat, NEW d \in Nat, d # 0
    PROVE  (t * m) \div d \in Nat /\ m \div d \in Nat
  <1>1. ASSUME NEW k \in Nat PROVE k \div d \in Nat
    BY <1>1, SMT
  <1>2. t * m \in Nat
    OBVIOUS
  <1> QED
    BY <1>1, <1>2

LEMMA SetOutputInv ==
    ASSUME FsmInv, TreeInv', NEW v \in Triggers, NEW n \in Nat,
           SetOutput(v, n)
    PROVE  FsmInv'
  <1>1. /\ Running /\ net = "idle" /\ tcl = "script" /\ v \in live \cap Virtuals
        /\ net' = "output" /\ pending' = WokenByOutput(v, n)
        /\ stale' = stale \cup Fed(v, {n})
        /\ UNCHANGED <<done, clock, rates>>
    BY DEF SetOutput, NetReady
  <1>2. UNCHANGED <<live, anchs, deps, built, builds, tcl, touched, distance,
                    time_triggers>>
    BY DEF SetOutput, AddToPostprocess, treeVars, registry, bindings, tree,
           queues
  <1>3. pending = {} /\ done = {}
    BY <1>1 DEF FsmInv, ThreadsApart, Loops
  <1>4. pending' \subseteq Dependents(v)
    BY <1>1 DEF WokenByOutput, Dependents
  <1>5. TypeOK'
    <2>1. Dependents(v) \subseteq Triggers
      BY DEF Dependents, FsmInv, TypeOK, TreeTypeOK, Port
    <2>2. builds <= 1 => Dependents(v) \subseteq live
      BY <1>1 DEF FsmInv, TreeInv, DependentsLive
    <2>3. stale' \subseteq live \X Nat
      BY <1>1, FedType DEF FsmInv, TypeOK
    <2> QED
      BY <1>1, <1>2, <1>4, <2>1, <2>2, <2>3
      DEF FsmInv, TypeOK, TreeInv, NetStates, clock, rates
  <1>6. ThreadsApart' /\ StepOrder' /\ TimeTriggersSeen'
    BY <1>1, <1>2, <1>3
    DEF ThreadsApart, StepOrder, TimeTriggersSeen, Loops
  <1>7. NothingLost'
    <2> SUFFICES ASSUME NEW p \in stale', WakeExpected(p)'
                 PROVE  touched'[p[1]] \/ p[1] \in pending'
      BY DEF NothingLost
    <2>1. CASE p \in stale
      BY <1>1, <1>2, <1>3, <2>1
      DEF FsmInv, NothingLost, WakeExpected, WokenByOutput, WokenByChange
    <2>2. CASE p \in Fed(v, {n})
      <3>1. /\ anchs[p[1]][p[2]].trigger = v
            /\ anchs[p[1]][p[2]].offs = n
        BY <2>2 DEF Fed
      <3>2. Kind[v] = "virt"
        BY <1>1 DEF Virtuals
      <3>3. p[1] \in WokenByOutput(v, n)
        BY <1>2, <3>1, <3>2 DEF WakeExpected, WokenByOutput
      <3> QED
        BY <1>1, <3>3
    <2> QED
      BY <1>1, <2>1, <2>2
  <1> QED
    BY <1>5, <1>6, <1>7 DEF FsmInv

LEMMA ReceiveTimeInv ==
    ASSUME FsmInv, TreeInv', NEW t \in Nat, ReceiveTime(t)
    PROVE  FsmInv'
  <1>1. /\ net = "idle" /\ tcl = "script" /\ pending = {} /\ done = {}
        /\ net' = "touch" /\ pending' = time_triggers /\ done' = {}
        /\ UNCHANGED <<treeVars, stale, current_time, rates>>
    BY DEF ReceiveTime, NetReady, TouchedByTime, FsmInv, ThreadsApart, Loops
  <1>2. UNCHANGED <<live, anchs, deps, built, builds, tcl, touched, distance,
                    time_triggers, lookup_tree, status>>
    BY <1>1 DEF treeVars, registry, bindings, tree, queues
  <1>3. new_time' \in Nat /\ max_time_step' \in Nat
    BY ScaledTime DEF ReceiveTime, ScaleRemoteTime, FsmInv, TypeOK
  <1>4. TypeOK'
    BY <1>1, <1>2, <1>3
    DEF FsmInv, TypeOK, TreeInv, TreeTypeOK, NetStates, rates
  <1>5. ThreadsApart' /\ StepOrder' /\ TimeTriggersSeen'
    BY <1>1, <1>2 DEF ThreadsApart, StepOrder, TimeTriggersSeen, Loops
  <1>6. NothingLost'
    BY <1>1, <1>2 DEF FsmInv, NothingLost, Running, WakeExpected,
                      WokenByOutput, WokenByChange
  <1> QED
    BY <1>4, <1>5, <1>6 DEF FsmInv

LEMMA ReceiveInv ==
    ASSUME FsmInv, TreeInv', Receive PROVE FsmInv'
  <1>1. ASSUME NEW v \in Triggers,
               NEW n \in UNION {0 .. Outs[t] - 1 : t \in Triggers},
               SetOutput(v, n)
        PROVE  FsmInv'
    <2>1. n \in Nat
      BY SizeAssumption
    <2> QED
      BY <1>1, <2>1, SetOutputInv
  <1>2. ASSUME NEW t \in 0 .. MaxTime, ReceiveTime(t) PROVE FsmInv'
    BY <1>2, ReceiveTimeInv, TimeAssumption
  <1>3. ASSUME NEW t, ReceiveOldTime(t) \/ ReceiveTimeNoRate(t) PROVE FsmInv'
    BY <1>3, FsmHalt
    DEF ReceiveOldTime, ReceiveTimeNoRate, fsmVars, Stops
  <1>4. CASE SetOutputOutOfRange \/ NetRace
    BY <1>4, FsmHalt DEF SetOutputOutOfRange, NetRace, fsmVars, Stops
  <1> QED
    BY <1>1, <1>2, <1>3, <1>4 DEF Receive

\* A woken trigger lies below everything processed in this step, so it was not
\* processed itself.
LEMMA WakePendingInv ==
    ASSUME FsmInv, TreeInv', NEW t \in Triggers, WakePending(t)
    PROVE  FsmInv'
  <1>1. /\ net \in Loops /\ t \in pending /\ tcl = "script"
        /\ pending' = pending \ {t}
        /\ UNCHANGED <<net, ghosts, clock, rates>>
    BY DEF WakePending, AddToDynamicTree
  <1>2. CASE Halt("no_layer")
    BY <1>1, <1>2, FsmHalt DEF Stops
  <1>3. CASE /\ UNCHANGED <<registry, bindings, tree, tcl, builds, status>>
             /\ \A u \in Triggers : touched'[u] = (touched[u] \/ u = t)
    <2>1. UNCHANGED <<live, time_triggers, deps, anchs, built, distance>>
      BY <1>3 DEF registry, bindings, tree
    <2>2. TypeOK'
      BY <1>1, <1>3, <2>1 DEF FsmInv, TypeOK, TreeInv, ghosts, clock, rates
    <2>3. ThreadsApart'
      BY <1>1, <1>3 DEF FsmInv, ThreadsApart, Loops, ghosts
    <2>4. StepOrder'
      <3> SUFFICES ASSUME built, builds <= 1, NEW x \in done
                   PROVE  /\ \A u \in Triggers : touched'[u] =>
                                u \notin done /\ distance[u] >= distance[x]
                          /\ \A u \in pending' : distance[u] > distance[x]
        BY <1>1, <1>3, <2>1 DEF StepOrder, ghosts
      <3>1. \A y \in done : distance[t] > distance[y]
        BY <1>1 DEF FsmInv, StepOrder
      <3>2. \A y \in Triggers : distance[y] \in Nat
        BY DEF FsmInv, TypeOK, TreeTypeOK
      <3>3. t \notin done /\ distance[t] >= distance[x]
        <4>1. x \in Triggers
          BY DEF FsmInv, TypeOK
        <4> QED
          BY <3>1, <3>2, <4>1
      <3> QED
        BY <1>1, <1>3, <3>3 DEF FsmInv, StepOrder
    <2>5. time_triggers \subseteq Triggers /\ \A p \in stale : p[1] \in Triggers
      BY DEF FsmInv, TypeOK, TreeTypeOK
    <2>6. TimeTriggersSeen'
      BY <1>1, <1>3, <2>1, <2>5
      DEF FsmInv, TimeTriggersSeen, Running, Loops, ghosts
    <2>7. NothingLost'
      BY <1>1, <1>3, <2>1, <2>5
      DEF FsmInv, NothingLost, Running, ghosts, WakeExpected, WokenByOutput,
          WokenByChange
    <2> QED
      BY <2>2, <2>3, <2>4, <2>6, <2>7 DEF FsmInv
  <1>4. touched \in [Triggers -> BOOLEAN]
    BY DEF FsmInv, TypeOK, TreeTypeOK
  <1>5. CASE touched[t] /\ UNCHANGED treeVars
    <2>1. \A u \in Triggers : touched'[u] = (touched[u] \/ u = t)
      BY <1>4, <1>5 DEF treeVars, queues
    <2> QED
      BY <1>3, <1>5, <2>1 DEF treeVars
  <1>6. CASE /\ touched' = [touched EXCEPT ![t] = TRUE]
             /\ UNCHANGED <<registry, bindings, tree, tcl, builds, status>>
    <2>1. \A u \in Triggers : touched'[u] = (touched[u] \/ u = t)
      BY <1>4, <1>6
    <2> QED
      BY <1>3, <1>6, <2>1
  <1> QED
    BY <1>2, <1>5, <1>6 DEF WakePending, AddToDynamicTree

\* The nearest layer goes first: what waits lies at least as deep as the
\* trigger processed now, and what that trigger wakes lies deeper.
LEMMA ProcessAnchestorsInv ==
    ASSUME FsmInv, TreeInv', NEW d \in DOMAIN lookup_tree,
           ProcessAnchestors(d)
    PROVE  FsmInv'
  <1> DEFINE q == lookup_tree[d]
             t == Head(q)
  <1>1. /\ Running /\ tcl = "script" /\ net = "drain" /\ FirstLayer(d)
        /\ net' = "wake" /\ done' = done \cup {t}
        /\ touched' = [touched EXCEPT ![t] = FALSE]
        /\ UNCHANGED <<registry, bindings, tree, tcl, builds, status, clock,
                       rates>>
    BY DEF ProcessAnchestors, ExtractCandidate, Untouched
  <1>2. PICK changed \in Changeable(t) :
           /\ pending' = IF changed = {} THEN {} ELSE WokenByChange(t)
           /\ stale' = {p \in stale : p[1] # t} \cup Fed(t, changed)
    BY DEF ProcessAnchestors
  <1>3. UNCHANGED <<live, time_triggers, deps, anchs, built, distance>>
    BY <1>1 DEF registry, bindings, tree
  <1>4. /\ q \in Seq(Triggers) /\ q # <<>> /\ t \in Triggers
        /\ t \in Range(q) /\ pending = {}
        /\ touched \in [Triggers -> BOOLEAN]
        /\ \A u \in Triggers : distance[u] \in Nat
        /\ time_triggers \subseteq Triggers
        /\ \A p \in stale : p[1] \in Triggers
    <2>1. q \in Seq(Triggers) /\ q # <<>>
      BY <1>1 DEF FirstLayer, FsmInv, TypeOK, TreeTypeOK
    <2>2. Head(q) = q[1] /\ 1 \in DOMAIN q
      BY <2>1, HeadTailProperties
    <2>3. t \in Range(q) /\ t \in Triggers
      BY <2>1, <2>2, SeqRange DEF Range
    <2> QED
      BY <1>1, <2>1, <2>3
      DEF FsmInv, TypeOK, TreeTypeOK, ThreadsApart, Loops
  <1>5. \A u \in Triggers : touched'[u] = (touched[u] /\ u # t)
    BY <1>1, <1>4
  <1>6. pending' \subseteq Dependents(t) /\ pending' \subseteq WokenByChange(t)
    BY <1>2 DEF WokenByChange, Dependents
  <1>7. builds <= 1 => touched[t] /\ t \in live /\ distance[t] = d
    BY <1>4 DEF FsmInv, TreeInv, QueuesMatch
  <1>8. TypeOK'
    <2>1. Dependents(t) \subseteq Triggers
      BY <1>4 DEF Dependents, FsmInv, TypeOK, TreeTypeOK, Port
    <2>2. builds <= 1 => Dependents(t) \subseteq live
      BY <1>7 DEF FsmInv, TreeInv, DependentsLive
    <2>3. stale' \subseteq live \X Nat
      BY <1>2, FedType DEF FsmInv, TypeOK
    <2>4. done' \subseteq Triggers
      BY <1>1, <1>4 DEF FsmInv, TypeOK
    <2> QED
      BY <1>1, <1>3, <1>6, <2>1, <2>2, <2>3, <2>4
      DEF FsmInv, TypeOK, TreeInv, NetStates, clock, rates
  <1>9. ThreadsApart'
    BY <1>1 DEF ThreadsApart, Loops
  <1>10. StepOrder'
    <2> SUFFICES ASSUME built, builds <= 1, NEW x \in done'
                 PROVE  /\ \A u \in Triggers : touched'[u] =>
                              u \notin done' /\ distance[u] >= distance[x]
                        /\ \A u \in pending' : distance[u] > distance[x]
      BY <1>1, <1>3 DEF StepOrder
    <2>1. x = t \/ (x \in done /\ x \in Triggers)
      BY <1>1 DEF FsmInv, TypeOK
    <2>2. distance[t] >= distance[x]
      BY <1>4, <1>7, <2>1 DEF FsmInv, StepOrder
    <2>3. ASSUME NEW u \in Triggers, touched'[u]
          PROVE  u \notin done' /\ distance[u] >= distance[x]
      <3>1. touched[u] /\ u # t
        BY <1>5, <2>3
      <3>2. /\ distance[u] \in DOMAIN lookup_tree
            /\ u \in Range(lookup_tree[distance[u]])
        BY <3>1 DEF FsmInv, TreeInv, QueuesMatch
      <3>3. lookup_tree[distance[u]] # <<>>
        BY <3>2 DEF Range
      <3>4. distance[u] >= d
        BY <1>1, <1>4, <1>7, <3>2, <3>3 DEF FirstLayer
      <3>5. \A y \in done : u \notin done /\ distance[u] >= distance[y]
        BY <3>1 DEF FsmInv, StepOrder
      <3> QED
        BY <1>1, <1>7, <2>1, <3>1, <3>4, <3>5
    <2>4. ASSUME NEW u \in pending' PROVE distance[u] > distance[x]
      <3>1. PICK e \in deps[t] : e.trigger = u
        BY <1>6 DEF Dependents
      <3>2. u \in Triggers /\ x \in Triggers
        BY <1>4, <1>6, <2>1 DEF Dependents, FsmInv, TypeOK, TreeTypeOK, Port
      <3>3. distance[u] > distance[t]
        BY <1>1, <1>7, <3>1
        DEF FsmInv, TreeInv, FirstBuildOrder, DependentsDeeper
      <3> QED
        BY <1>4, <2>2, <3>2, <3>3
    <2> QED
      BY <2>3, <2>4
  <1>11. TimeTriggersSeen'
    BY <1>1, <1>3, <1>4, <1>5 DEF FsmInv, TimeTriggersSeen
  <1>12. NothingLost'
    <2> SUFFICES ASSUME NEW p \in stale', WakeExpected(p)'
                 PROVE  touched'[p[1]] \/ p[1] \in pending'
      BY DEF NothingLost
    <2>1. WakeExpected(p)
      BY <1>3 DEF WakeExpected, WokenByOutput, WokenByChange
    <2>2. CASE p \in stale /\ p[1] # t
      BY <1>1, <1>4, <1>5, <2>1, <2>2 DEF FsmInv, NothingLost
    <2>3. CASE p \in Fed(t, changed)
      <3>1. anchs[p[1]][p[2]].trigger = t /\ changed # {}
        BY <2>3 DEF Fed
      <3>2. Kind[t] # "virt"
        BY <3>1 DEF Changeable, Producers
      <3> QED
        BY <1>2, <2>1, <3>1, <3>2 DEF WakeExpected
    <2> QED
      BY <1>2, <2>2, <2>3
  <1> QED
    BY <1>8, <1>9, <1>10, <1>11, <1>12 DEF FsmInv

LEMMA NextStepInv ==
    ASSUME FsmInv, TreeInv', NextStep PROVE FsmInv'
  <1>1. /\ net = "post" /\ tcl = "script" /\ pending = {}
        /\ net' = "touch" /\ pending' = time_triggers /\ done' = {}
        /\ current_time' = current_time + max_time_step
        /\ UNCHANGED <<treeVars, stale, max_time_step, new_time, rates>>
    BY DEF NextStep, StepDone, TimePassed, TouchedByTime, FsmInv,
           ThreadsApart, Loops
  <1>2. UNCHANGED <<live, anchs, deps, built, builds, tcl, touched, distance,
                    time_triggers, lookup_tree, status>>
    BY <1>1 DEF treeVars, registry, bindings, tree, queues
  <1>3. current_time' \in Nat
    BY <1>1 DEF FsmInv, TypeOK
  <1>4. TypeOK'
    BY <1>1, <1>2, <1>3
    DEF FsmInv, TypeOK, TreeInv, TreeTypeOK, NetStates, rates
  <1>5. ThreadsApart' /\ StepOrder' /\ TimeTriggersSeen'
    BY <1>1, <1>2 DEF ThreadsApart, StepOrder, TimeTriggersSeen, Loops
  <1>6. NothingLost'
    BY <1>1, <1>2 DEF FsmInv, NothingLost, Running, WakeExpected,
                      WokenByOutput, WokenByChange
  <1> QED
    BY <1>4, <1>5, <1>6 DEF FsmInv

\* The steps that only move the network thread on.
LEMMA MoveInv ==
    ASSUME FsmInv, TreeInv', LoopDone \/ Drained \/ LastStep
    PROVE  FsmInv'
  <1>1. /\ pending = {} /\ UNCHANGED <<treeVars, pending, stale, rates>>
        /\ net # "idle" /\ net' \in NetStates /\ tcl = "script"
    BY DEF LoopDone, LoopOver, Drained, LastStep, StepDone, ghosts, FsmInv,
           ThreadsApart, Loops, NetStates
  <1>2. UNCHANGED <<live, anchs, deps, built, builds, tcl, touched, distance,
                    time_triggers, lookup_tree, status>>
    BY <1>1 DEF treeVars, registry, bindings, tree, queues
  <1>3. done' = done \/ done' = {}
    BY DEF LoopDone, Drained, LastStep, ghosts
  <1>4. TypeOK'
    BY <1>1, <1>2, <1>3
    DEF LoopDone, Drained, LastStep, FsmInv, TypeOK, TreeInv, clock, rates
  <1>5. ThreadsApart'
    BY <1>1, <1>2
    DEF LoopDone, Drained, LastStep, FsmInv, ThreadsApart, NothingQueued,
        Loops, ghosts
  <1>6. StepOrder'
    BY <1>1, <1>2, <1>3 DEF FsmInv, StepOrder
  <1>7. TimeTriggersSeen'
    BY <1>1, <1>2
    DEF LoopDone, LoopOver, Drained, LastStep, FsmInv, TimeTriggersSeen,
        Running, Loops, ghosts
  <1>8. NothingLost'
    BY <1>1, <1>2 DEF FsmInv, NothingLost, Running, WakeExpected,
                      WokenByOutput, WokenByChange
  <1> QED
    BY <1>4, <1>5, <1>6, <1>7, <1>8 DEF FsmInv

LEMMA PostprocessTasksInv ==
    ASSUME FsmInv, TreeInv', PostprocessTasks PROVE FsmInv'
  <1>1. UNCHANGED <<registry, bindings, tree, lookup_tree, touched, tcl,
                    builds, status, fsmVars>>
    BY DEF PostprocessTasks, ExtractPostprocess
  <1>2. TypeOK'
    BY <1>1 DEF FsmInv, TypeOK, TreeInv, registry, fsmVars, ghosts, clock, rates
  <1>3. ThreadsApart' /\ StepOrder' /\ TimeTriggersSeen'
    BY <1>1 DEF FsmInv, ThreadsApart, StepOrder, TimeTriggersSeen, Running,
                NothingQueued, registry, bindings, tree, fsmVars, ghosts
  <1>4. NothingLost'
    BY <1>1 DEF FsmInv, NothingLost, Running, WakeExpected, WokenByOutput,
                WokenByChange, bindings, fsmVars, ghosts
  <1> QED
    BY <1>2, <1>3, <1>4 DEF FsmInv

LEMMA NetStepInv ==
    ASSUME FsmInv, TreeInv', NetStep PROVE FsmInv'
  <1>1. ASSUME NEW t \in Triggers, WakeFreed(t) PROVE FsmInv'
    BY <1>1, FsmHalt DEF WakeFreed, fsmVars, Stops
  <1>2. ASSUME NEW d \in DOMAIN lookup_tree, ProcessBadInput(d) PROVE FsmInv'
    BY <1>2, FsmHalt DEF ProcessBadInput, fsmVars, Stops
  <1> QED
    BY <1>1, <1>2, WakePendingInv, ProcessAnchestorsInv, NextStepInv, MoveInv,
       PostprocessTasksInv
    DEF NetStep

LEMMA SetRateInv ==
    ASSUME FsmInv,
           \/ \E r \in LocalRates : SetLocalSamplerate(r)
           \/ \E r \in MinRates : SetMinSamplerate(r)
           \/ \E r \in RemoteRates : SetRemoteSamplerate(r)
    PROVE  FsmInv'
  <1>1. /\ UNCHANGED <<treeVars, net, pending, ghosts, clock>>
        /\ local_samplerate' \in Nat /\ remote_samplerate' \in Nat
        /\ min_samplerate' \in Nat
    BY RateAssumption
    DEF SetLocalSamplerate, SetMinSamplerate, SetRemoteSamplerate, FsmInv,
        TypeOK
  <1>2. current_time' \in Nat /\ max_time_step' \in Nat /\ new_time' \in Nat
    BY <1>1 DEF clock, FsmInv, TypeOK
  <1> QED
    BY <1>1, <1>2, FsmSame

LEMMA FsmNextInv ==
    ASSUME FsmInv, [Next]_vars PROVE FsmInv'
  <1>1. TreeInv'
    BY NextRefines, NextInv DEF FsmInv
  <1>2. CASE UNCHANGED vars
    <2>1. /\ UNCHANGED <<treeVars, net, pending, ghosts>>
          /\ current_time' \in Nat /\ max_time_step' \in Nat /\ new_time' \in Nat
          /\ local_samplerate' \in Nat /\ remote_samplerate' \in Nat
          /\ min_samplerate' \in Nat
      BY <1>2 DEF vars, fsmVars, clock, rates, FsmInv, TypeOK
    <2> QED
      BY <2>1, FsmSame
  <1>3. CASE TclRace
    BY <1>1, <1>3, FsmHalt DEF TclRace, fsmVars, Stops
  <1> QED
    BY <1>1, <1>2, <1>3, TclTableInv, TclBuildInv, SetRateInv, ReceiveInv,
       NetStepInv
    DEF Next

\* The inductive invariant of the machine holds in every behaviour of the two
\* threads.
THEOREM FsmInvCorrect == Spec => []FsmInv
  <1>1. Init => FsmInv
    BY FsmInitInv
  <1>2. FsmInv /\ [Next]_vars => FsmInv'
    BY FsmNextInv
  <1> QED
    BY <1>1, <1>2, PTL DEF Spec

\* Every variable keeps its type; among others, until a second BuildTree, the
\* network thread never wakes a trigger that was deleted.
THEOREM TypeCorrect == Spec => []TypeOK
  <1>1. FsmInv => TypeOK
    BY DEF FsmInv
  <1> QED
    BY <1>1, FsmInvCorrect, PTL

\* Until a second build no trigger that was processed in a step of time is
\* queued again in it, whatever the bindings are and whatever the triggers
\* compute.
THEOREM OncePerStepCorrect == Spec => []OncePerStep
  <1>1. FsmInv => OncePerStep
    BY DEF FsmInv, TypeOK, StepOrder, OncePerStep
  <1> QED
    BY <1>1, FsmInvCorrect, PTL

\* A changed input that the code means to tell its trigger about is told:
\* between the loops the trigger is in the tree.
THEOREM WakeNotLostCorrect == Spec => []WakeNotLost
  <1>1. FsmInv => WakeNotLost
    <2> SUFFICES ASSUME FsmInv, net \notin Loops, Running, NEW p \in stale,
                        builds <= 1, WakeExpected(p)
                 PROVE  Queued(p[1])
      BY DEF WakeNotLost
    <2>1. pending = {} /\ p[1] \in Triggers
      BY DEF FsmInv, ThreadsApart, TypeOK, TreeTypeOK
    <2>2. touched[p[1]]
      BY <2>1 DEF FsmInv, NothingLost
    <2> QED
      BY <2>1, <2>2 DEF FsmInv, TreeInv, QueuesMatch, Queued
  <1> QED
    BY <1>1, FsmInvCorrect, PTL

\* Until a second build time moves only when no trigger and no dump waits and
\* every time trigger was processed.
THEOREM StepCompleteCorrect == Spec => StepComplete
  <1>1. FsmInv /\ [Next]_vars =>
           [current_time' # current_time /\ builds <= 1 =>
              /\ NothingQueued /\ postprocess_qq = <<>>
              /\ time_triggers \subseteq done]_vars
    <2> SUFFICES ASSUME FsmInv, [Next]_vars, current_time' # current_time,
                        builds <= 1
                 PROVE  /\ NothingQueued /\ postprocess_qq = <<>>
                        /\ time_triggers \subseteq done
      OBVIOUS
    <2>1. NextStep \/ LastStep
      BY DEF Next, vars, fsmVars, clock, TclTable, TclBuild, TclRace,
             SetLocalSamplerate, SetMinSamplerate, SetRemoteSamplerate,
             Receive, SetOutput, SetOutputOutOfRange, ReceiveTime,
             ReceiveOldTime, ReceiveTimeNoRate, NetRace, NetStep, WakePending,
             WakeFreed, LoopDone, ProcessAnchestors, ProcessBadInput, Drained,
             PostprocessTasks
    <2>2. Running /\ net = "post" /\ postprocess_qq = <<>>
      BY <2>1 DEF NextStep, LastStep, StepDone
    <2>3. NothingQueued
      BY <2>2 DEF FsmInv, ThreadsApart
    <2>4. \A u \in Triggers : ~touched[u]
      <3> SUFFICES ASSUME NEW u \in Triggers, touched[u] PROVE FALSE
        OBVIOUS
      <3>1. /\ distance[u] \in DOMAIN lookup_tree
            /\ u \in Range(lookup_tree[distance[u]])
        BY DEF FsmInv, TreeInv, QueuesMatch
      <3>2. lookup_tree[distance[u]] = <<>>
        BY <2>3, <3>1 DEF NothingQueued
      <3> QED
        BY <3>1, <3>2 DEF Range
    <2>5. time_triggers \subseteq done
      BY <2>2, <2>4 DEF FsmInv, TimeTriggersSeen, TypeOK, TreeTypeOK
    <2> QED
      BY <2>2, <2>3, <2>5
  <1> QED
    BY <1>1, FsmInvCorrect, PTL DEF Spec, StepComplete

\* No step of time is longer than the sampling interval the message set up.
THEOREM NoLeapCorrect == Spec => NoLeap
  <1>1. FsmInv /\ [Next]_vars =>
           [current_time' - current_time <= max_time_step]_vars
    <2> SUFFICES ASSUME FsmInv, [Next]_vars
                 PROVE  current_time' - current_time <= max_time_step
      OBVIOUS
    <2>1. current_time \in Nat /\ max_time_step \in Nat /\ new_time \in Nat
      BY DEF FsmInv, TypeOK
    <2>2. CASE NextStep
      BY <2>1, <2>2 DEF NextStep, TimePassed
    <2>3. CASE LastStep
      BY <2>1, <2>3 DEF LastStep, MoreSteps, TimeLeft
    <2>4. \/ NextStep \/ LastStep
          \/ UNCHANGED current_time
      BY DEF Next, vars, fsmVars, clock, TclTable, TclBuild, TclRace,
             SetLocalSamplerate, SetMinSamplerate, SetRemoteSamplerate,
             Receive, SetOutput, SetOutputOutOfRange, ReceiveTime,
             ReceiveOldTime, ReceiveTimeNoRate, NetRace, NetStep, WakePending,
             WakeFreed, LoopDone, ProcessAnchestors, ProcessBadInput, Drained,
             PostprocessTasks
    <2> QED
      BY <2>1, <2>2, <2>3, <2>4
  <1> QED
    BY <1>1, FsmInvCorrect, PTL DEF Spec, NoLeap
=============================================================================
