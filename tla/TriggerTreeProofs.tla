------------------------- MODULE TriggerTreeProofs -------------------------
(***************************************************************************)
(* Theorems about TriggerTree, for every set of triggers and every set of  *)
(* bindtrigger commands.  What names the first build holds up to a second. *)
(***************************************************************************)
EXTENDS TriggerTree, SequenceTheorems, TLAPS

(***************************************************************************)
(* The two queue operations of the C++ library on a queue without          *)
(* duplicates.                                                             *)
(***************************************************************************)

\* what a queue holds
LEMMA SeqRange ==
    ASSUME NEW S, NEW q \in Seq(S)
    PROVE  Range(q) \subseteq S
  BY DEF Range

\* push of an element that does not wait yet
LEMMA AppendOnce ==
    ASSUME NEW S, NEW q \in Seq(S), NEW e \in S,
           IsInjective(q), e \notin Range(q)
    PROVE  /\ IsInjective(Append(q, e))
           /\ Range(Append(q, e)) = Range(q) \cup {e}
  <1> DEFINE r == Append(q, e)
  <1>1. /\ DOMAIN q = 1 .. Len(q) /\ Len(q) \in Nat
        /\ DOMAIN r = 1 .. Len(q) + 1
        /\ \A i \in 1 .. Len(q) : r[i] = q[i]
        /\ r[Len(q) + 1] = e
    BY AppendProperties
  <1>2. \A i \in DOMAIN r : i \in DOMAIN q \/ i = Len(q) + 1
    BY <1>1
  <1>3. IsInjective(r)
    BY <1>1, <1>2 DEF IsInjective, Range
  <1>4. Range(r) = Range(q) \cup {e}
    BY <1>1, <1>2 DEF Range
  <1> QED
    BY <1>3, <1>4

\* front and pop
LEMMA TailOnce ==
    ASSUME NEW S, NEW q \in Seq(S), q # <<>>, IsInjective(q)
    PROVE  /\ IsInjective(Tail(q))
           /\ Range(Tail(q)) = Range(q) \ {Head(q)}
           /\ Head(q) \in Range(q)
  <1> DEFINE r == Tail(q)
  <1>1. /\ DOMAIN q = 1 .. Len(q) /\ Len(q) \in Nat \ {0}
        /\ DOMAIN r = 1 .. Len(q) - 1
        /\ \A i \in 1 .. Len(q) - 1 : r[i] = q[i + 1]
        /\ Head(q) = q[1]
    BY HeadTailProperties
  <1>2. IsInjective(r)
    BY <1>1 DEF IsInjective
  <1>3. \A i \in DOMAIN q : i # 1 => /\ i - 1 \in DOMAIN r
                                     /\ r[i - 1] = q[i]
    BY <1>1
  <1>4. Range(r) = Range(q) \ {Head(q)}
    <2>1. ASSUME NEW x \in Range(r) PROVE x \in Range(q) \ {Head(q)}
      <3>1. PICK i \in DOMAIN r : x = r[i]
        BY DEF Range
      <3>2. i + 1 \in DOMAIN q /\ i + 1 # 1 /\ 1 \in DOMAIN q /\ x = q[i + 1]
        BY <1>1, <3>1
      <3> QED
        BY <1>1, <3>2 DEF Range, IsInjective
    <2>2. ASSUME NEW x \in Range(q) \ {Head(q)} PROVE x \in Range(r)
      BY <1>1, <1>3 DEF Range
    <2> QED
      BY <2>1, <2>2
  <1>5. Head(q) \in Range(q)
    BY <1>1 DEF Range
  <1> QED
    BY <1>2, <1>4, <1>5

(***************************************************************************)
(* Type correctness.                                                       *)
(***************************************************************************)
LEMMA InitType == TreeInit => TreeTypeOK
  <1> SUFFICES ASSUME TreeInit PROVE TreeTypeOK
    OBVIOUS
  <1>1. \A t \in Triggers : anchs[t] \in [Slots(t) -> Port \cup {NoSource}]
    BY DEF TreeInit
  <1>2. DOMAIN lookup_tree = {}
    BY DEF TreeInit
  <1>3. /\ deps \in [Triggers -> SUBSET Port]
        /\ distance \in [Triggers -> Nat]
        /\ touched \in [Triggers -> BOOLEAN]
        /\ postprocess \in [Triggers -> BOOLEAN]
    BY DEF TreeInit
  <1>4. builds \in 0 .. MaxBuilds /\ postprocess_qq \in Seq(Triggers)
    BY BuildAssumption DEF TreeInit
  <1> QED
    BY <1>1, <1>2, <1>3, <1>4 DEF TreeInit, TreeTypeOK

LEMMA HaltType ==
    ASSUME TreeTypeOK, NEW why \in Stops, Halt(why)
    PROVE  TreeTypeOK'
  BY DEF TreeTypeOK, Halt, registry, bindings, tree, queues

LEMMA BindType ==
    ASSUME TreeTypeOK, NEW c \in Commands, Bind(c)
    PROVE  TreeTypeOK'
  <1>1. /\ c.src \in Triggers /\ c.dst \in Triggers
        /\ c.in \in Int /\ c.out \in Int
    BY CommandAssumption
  <1>2. deps' \in [Triggers -> SUBSET Port]
    <2>1. [trigger |-> c.dst, offs |-> c.in] \in Port
      BY <1>1 DEF Port
    <2> QED
      BY <1>1, <2>1 DEF Bind, TreeTypeOK
  <1>3. /\ DOMAIN anchs' = Triggers
        /\ \A t \in Triggers : anchs'[t] \in [Slots(t) -> Port \cup {NoSource}]
    <2>1. CASE ~BindsFrom(c)
      BY <2>1 DEF Bind, TreeTypeOK
    <2>2. CASE BindsFrom(c)
      <3> DEFINE port == [trigger |-> c.src, offs |-> c.out]
      <3>1. port \in Port
        BY <1>1 DEF Port
      <3>2. anchs' = [anchs EXCEPT ![c.dst] = [@ EXCEPT ![SlotOf(c)] = port]]
        BY <2>2 DEF Bind
      <3>3. [anchs[c.dst] EXCEPT ![SlotOf(c)] = port]
               \in [Slots(c.dst) -> Port \cup {NoSource}]
        BY <1>1, <3>1 DEF TreeTypeOK
      <3> QED
        BY <1>1, <3>2, <3>3 DEF TreeTypeOK
    <2> QED
      BY <2>1, <2>2
  <1>4. built' \in BOOLEAN
    BY DEF Bind, TreeTypeOK
  <1> QED
    BY <1>2, <1>3, <1>4
    DEF Bind, TreeTypeOK, registry, tree, queues

LEMMA BuildType ==
    ASSUME TreeTypeOK,
           \/ BuildStart
           \/ \E t \in Triggers : ProcessOneTrigger(t)
           \/ BuildFinish
    PROVE  TreeTypeOK'
  <1>1. \A t \in Triggers : Dependents(t) \subseteq Triggers
    BY DEF Dependents, TreeTypeOK, Port
  <1>2. CASE BuildStart
    <2>1. to_process' \subseteq Triggers /\ distance' \in [Triggers -> Nat]
      BY <1>1, <1>2 DEF BuildStart, TreeTypeOK, Virtuals
    <2>2. builds' \in 0 .. MaxBuilds
      BY <1>2, BuildAssumption DEF BuildStart, TreeTypeOK
    <2> QED
      BY <1>2, <2>1, <2>2
      DEF BuildStart, TreeTypeOK, registry, bindings, queues
  <1>3. ASSUME NEW t \in Triggers, ProcessOneTrigger(t)
        PROVE  TreeTypeOK'
    <2>1. distance[t] \in Nat
      BY DEF TreeTypeOK
    <2>2. distance' \in [Triggers -> Nat]
      BY <1>3, <2>1 DEF ProcessOneTrigger, TreeTypeOK
    <2>3. to_process' \subseteq Triggers
      BY <1>1, <1>3 DEF ProcessOneTrigger, Popped, Grown, TreeTypeOK
    <2>4. max_distance' \in Nat /\ max_distance <= max_distance'
      BY <1>3, <2>1 DEF ProcessOneTrigger, TreeTypeOK
    <2>5. /\ max_distance \in Nat
          /\ \/ DOMAIN lookup_tree = {}
             \/ \E m \in 0 .. max_distance : DOMAIN lookup_tree = 0 .. m
          /\ UNCHANGED lookup_tree
      BY <1>3 DEF ProcessOneTrigger, TreeTypeOK, queues
    <2>6. \/ DOMAIN lookup_tree' = {}
          \/ \E m \in 0 .. max_distance' : DOMAIN lookup_tree' = 0 .. m
      <3>1. 0 .. max_distance \subseteq 0 .. max_distance'
        BY <2>4, <2>5
      <3> QED
        BY <2>5, <3>1
    <2> QED
      BY <1>3, <2>2, <2>3, <2>4, <2>6
      DEF ProcessOneTrigger, TreeTypeOK, registry, bindings, queues
  <1>4. CASE BuildFinish
    <2>1. DOMAIN lookup_tree' = 0 .. max_distance
      BY <1>4 DEF BuildFinish, Layers
    <2>2. \A d \in DOMAIN lookup_tree' : lookup_tree'[d] = <<>>
      BY <1>4 DEF BuildFinish, Layers
    <2>3. max_distance \in 0 .. max_distance
      BY DEF TreeTypeOK
    <2>4. live' \subseteq loaded' /\ time_triggers' \subseteq live'
      BY <1>4 DEF BuildFinish, TreeTypeOK, TimeTriggersLeft
    <2> QED
      BY <1>4, <2>1, <2>2, <2>3, <2>4 DEF BuildFinish, TreeTypeOK, tree
  <1> QED
    BY <1>2, <1>3, <1>4

LEMMA QueueType ==
    ASSUME TreeTypeOK,
           \/ \E t \in Triggers : AddToDynamicTree(t) \/ AddToPostprocess(t)
           \/ \E d \in DOMAIN lookup_tree : ExtractCandidate(d)
           \/ ExtractPostprocess
    PROVE  TreeTypeOK'
  <1>1. ASSUME NEW t \in Triggers, AddToDynamicTree(t) PROVE TreeTypeOK'
    <2>1. CASE UNCHANGED treeVars
      BY <2>1 DEF treeVars, registry, bindings, tree, queues, TreeTypeOK
    <2>2. CASE Halt("no_layer")
      BY <2>2, HaltType DEF Stops
    <2>3. CASE /\ distance[t] \in DOMAIN lookup_tree
               /\ touched' = [touched EXCEPT ![t] = TRUE]
               /\ lookup_tree' = [lookup_tree EXCEPT ![distance[t]] = Append(@, t)]
               /\ UNCHANGED <<registry, bindings, tree, postprocess_qq,
                              postprocess, tcl, builds, status>>
      <3>1. Append(lookup_tree[distance[t]], t) \in Seq(Triggers)
        BY <2>3, AppendProperties DEF TreeTypeOK
      <3>2. /\ DOMAIN lookup_tree' = DOMAIN lookup_tree
            /\ \A d \in DOMAIN lookup_tree' : lookup_tree'[d] \in Seq(Triggers)
        BY <2>3, <3>1 DEF TreeTypeOK
      <3>3. touched' \in [Triggers -> BOOLEAN]
        BY <2>3 DEF TreeTypeOK
      <3> QED
        BY <2>3, <3>2, <3>3 DEF TreeTypeOK, registry, bindings, tree
    <2> QED
      BY <1>1, <2>1, <2>2, <2>3 DEF AddToDynamicTree
  <1>2. ASSUME NEW t \in Triggers, AddToPostprocess(t) PROVE TreeTypeOK'
    <2>1. CASE UNCHANGED treeVars
      BY <2>1 DEF treeVars, registry, bindings, tree, queues, TreeTypeOK
    <2>2. CASE /\ postprocess' = [postprocess EXCEPT ![t] = TRUE]
               /\ postprocess_qq' = Append(postprocess_qq, t)
               /\ UNCHANGED <<registry, bindings, tree, lookup_tree, touched,
                              tcl, builds, status>>
      <3>1. Append(postprocess_qq, t) \in Seq(Triggers)
        BY AppendProperties DEF TreeTypeOK
      <3>2. postprocess' \in [Triggers -> BOOLEAN]
        BY <2>2 DEF TreeTypeOK
      <3> QED
        BY <2>2, <3>1, <3>2 DEF TreeTypeOK, registry, bindings, tree
    <2> QED
      BY <1>2, <2>1, <2>2 DEF AddToPostprocess
  <1>3. ASSUME NEW d \in DOMAIN lookup_tree, ExtractCandidate(d)
        PROVE  TreeTypeOK'
    <2>1. lookup_tree[d] \in Seq(Triggers) /\ lookup_tree[d] # <<>>
      BY <1>3 DEF ExtractCandidate, FirstLayer, TreeTypeOK
    <2>2. Tail(lookup_tree[d]) \in Seq(Triggers)
      BY <2>1, HeadTailProperties
    <2>3. /\ DOMAIN lookup_tree' = DOMAIN lookup_tree
          /\ \A e \in DOMAIN lookup_tree' : lookup_tree'[e] \in Seq(Triggers)
      BY <1>3, <2>2 DEF ExtractCandidate, TreeTypeOK
    <2>4. touched' \in [Triggers -> BOOLEAN]
      BY <1>3 DEF ExtractCandidate, Untouched, TreeTypeOK
    <2> QED
      BY <1>3, <2>3, <2>4
      DEF ExtractCandidate, TreeTypeOK, registry, bindings, tree
  <1>4. CASE ExtractPostprocess
    <2>1. Tail(postprocess_qq) \in Seq(Triggers)
      BY <1>4, HeadTailProperties DEF ExtractPostprocess, TreeTypeOK
    <2>2. postprocess' \in [Triggers -> BOOLEAN]
      BY <1>4 DEF ExtractPostprocess, PostprocessDone, TreeTypeOK
    <2> QED
      BY <1>4, <2>1, <2>2
      DEF ExtractPostprocess, TreeTypeOK, registry, bindings, tree
  <1> QED
    BY <1>1, <1>2, <1>3, <1>4

LEMMA NextType ==
    ASSUME TreeTypeOK, [TreeNext]_treeVars
    PROVE  TreeTypeOK'
  <1>1. ASSUME NEW t \in Triggers, Load(t) PROVE TreeTypeOK'
    BY <1>1 DEF Load, TreeTypeOK, bindings, tree, queues
  <1>2. ASSUME NEW c \in Commands, Bind(c) PROVE TreeTypeOK'
    BY <1>2, BindType
  <1>3. CASE BuildDeletesTwice \/ \E t \in Triggers : BuildReadsFreed(t)
    BY <1>3, HaltType DEF BuildDeletesTwice, BuildReadsFreed, Stops
  <1>4. ASSUME NEW why \in CallerStops, Halt(why) PROVE TreeTypeOK'
    BY <1>4, HaltType, StopAssumption
  <1>5. CASE UNCHANGED treeVars
    BY <1>5 DEF treeVars, registry, bindings, tree, queues, TreeTypeOK
  <1> QED
    BY <1>1, <1>2, <1>3, <1>4, <1>5, BuildType, QueueType
    DEF TreeNext, BuildStep

\* Every variable of the tree keeps its type; among others time_triggers only
\* holds registered triggers, so that TouchTimeTriggers never follows a pointer
\* to a deleted one.
THEOREM TreeTypeCorrect == TreeSpec => []TreeTypeOK
  <1>1. TreeInit => TreeTypeOK
    BY InitType
  <1>2. TreeTypeOK /\ [TreeNext]_treeVars => TreeTypeOK'
    BY NextType
  <1> QED
    BY <1>1, <1>2, PTL DEF TreeSpec

(***************************************************************************)
(* The inductive invariant behind the safety properties.  Before the first *)
(* BuildTree is over there is no layer, so nothing can be touched; while   *)
(* it runs, a leaf that does not wait lies above all its dependents, and   *)
(* only leaves that wait may lie below max_distance.                       *)
(***************************************************************************)
Fresh ==
    /\ \A t \in Triggers \ loaded : ~touched[t] /\ deps[t] = {}
    /\ \A t \in Triggers : Dependents(t) \subseteq loaded

NeverBuilt ==
    builds = 0 => /\ tcl = "script" /\ ~built
                  /\ \A t \in Triggers : distance[t] = 0

NoTreeYet ==
    (builds = 0 \/ (builds = 1 /\ tcl = "build")) =>
        DOMAIN lookup_tree = {} /\ live = loaded

QueuesMatch ==
    builds <= 1 =>
        /\ \A t \in Triggers : touched[t] =>
              /\ t \in live /\ distance[t] \in DOMAIN lookup_tree
              /\ t \in Range(lookup_tree[distance[t]])
        /\ \A d \in DOMAIN lookup_tree :
              /\ IsInjective(lookup_tree[d])
              /\ \A t \in Range(lookup_tree[d]) : touched[t] /\ distance[t] = d

Layered ==
    /\ \A t \in Triggers : t \in to_process \/ distance[t] <= max_distance
    /\ tcl = "script" => to_process = {}
    /\ (tcl = "script" /\ builds > 0) => DOMAIN lookup_tree = 0 .. max_distance

DependentsLive ==
    builds <= 1 => \A t \in live : Dependents(t) \subseteq live

Relaxed ==
    (builds = 1 /\ tcl = "build") =>
        \A t \in Triggers : \A u \in Dependents(t) :
            /\ t \in loaded \cap Virtuals => distance[u] > 0
            /\ (distance[t] > 0 /\ t \notin to_process) =>
                  distance[u] > distance[t]

TreeInv ==
    /\ TreeTypeOK
    /\ Fresh
    /\ NeverBuilt
    /\ NoTreeYet
    /\ QueuesMatch
    /\ Layered
    /\ Relaxed
    /\ DependentsLive
    /\ FirstBuildOrder
    /\ PostprocessIffQueued

LEMMA InitInv == TreeInit => TreeInv
  <1> SUFFICES ASSUME TreeInit PROVE TreeInv
    OBVIOUS
  <1>1. Fresh /\ NeverBuilt /\ NoTreeYet /\ DependentsLive
    BY DEF TreeInit, Fresh, NeverBuilt, NoTreeYet, DependentsLive, Dependents
  <1>2. QueuesMatch
    BY DEF TreeInit, QueuesMatch
  <1>3. Layered /\ Relaxed
    BY DEF TreeInit, Layered, Relaxed
  <1>4. FirstBuildOrder
    BY DEF TreeInit, FirstBuildOrder, DependentsDeeper
  <1>5. PostprocessIffQueued
    BY DEF TreeInit, PostprocessIffQueued, IsInjective, Range
  <1> QED
    BY <1>1, <1>2, <1>3, <1>4, <1>5, InitType DEF TreeInv

\* Steps that leave everything but the status alone.
LEMMA HaltInv ==
    ASSUME TreeInv, TreeTypeOK',
           UNCHANGED <<registry, bindings, tree, queues, tcl, builds>>
    PROVE  TreeInv'
  <1>1. Fresh' /\ NeverBuilt' /\ NoTreeYet'
    BY DEF TreeInv, Fresh, NeverBuilt, NoTreeYet, Dependents, registry,
           bindings, tree, queues
  <1>2. QueuesMatch'
    BY DEF TreeInv, QueuesMatch, registry, tree, queues
  <1>3. Layered' /\ Relaxed' /\ DependentsLive'
    BY DEF TreeInv, Layered, Relaxed, DependentsLive, Dependents, registry,
           bindings, tree, queues
  <1>4. FirstBuildOrder'
    BY DEF TreeInv, FirstBuildOrder, DependentsDeeper, registry, bindings, tree
  <1>5. PostprocessIffQueued'
    BY DEF TreeInv, PostprocessIffQueued, queues
  <1> QED
    BY <1>1, <1>2, <1>3, <1>4, <1>5 DEF TreeInv

LEMMA LoadInv ==
    ASSUME TreeInv, TreeTypeOK', NEW t \in Triggers, Load(t)
    PROVE  TreeInv'
  <1> USE DEF TreeInv
  <1>1. /\ live' = live \cup {t} /\ loaded' = loaded \cup {t}
        /\ UNCHANGED <<bindings, tree, queues, tcl, builds>>
        /\ ~touched[t] /\ deps[t] = {}
    BY DEF Load, Fresh
  <1>2. Fresh' /\ NeverBuilt' /\ NoTreeYet'
    BY <1>1 DEF Fresh, NeverBuilt, NoTreeYet, Dependents, bindings, tree, queues
  <1>3. QueuesMatch'
    BY <1>1 DEF QueuesMatch, tree, queues
  <1>4. Layered'
    BY <1>1 DEF Layered, tree, queues
  <1>5. Relaxed' /\ DependentsLive'
    BY <1>1 DEF Load, Relaxed, DependentsLive, Dependents, tree, bindings
  <1>6. FirstBuildOrder'
    BY <1>1 DEF FirstBuildOrder, DependentsDeeper, bindings, tree
  <1>7. PostprocessIffQueued'
    BY <1>1 DEF PostprocessIffQueued, queues
  <1> QED
    BY <1>2, <1>3, <1>4, <1>5, <1>6, <1>7

LEMMA BindInv ==
    ASSUME TreeInv, TreeTypeOK', NEW c \in Commands, Bind(c)
    PROVE  TreeInv'
  <1> USE DEF TreeInv
  <1>1. /\ c.src \in live /\ c.dst \in live /\ c.src \in Triggers
        /\ tcl = "script"
        /\ UNCHANGED <<registry, tree, queues, tcl, builds>>
    BY CommandAssumption DEF Bind
  <1>2. \A t \in Triggers : \/ deps'[t] = deps[t]
                           \/ /\ t = c.src
                              /\ deps'[t] = deps[t] \cup
                                    {[trigger |-> c.dst, offs |-> c.in]}
    BY <1>1 DEF Bind, TreeTypeOK
  <1>3. Fresh' /\ DependentsLive'
    <2>1. \A t \in Triggers : Dependents(t)' \subseteq Dependents(t) \cup {c.dst}
      BY <1>2 DEF Dependents
    <2>2. /\ c.src \in loaded /\ c.dst \in loaded
          /\ UNCHANGED <<loaded, touched>>
      BY <1>1 DEF TreeTypeOK, registry, queues
    <2>3. \A t \in Triggers \ loaded' : ~touched'[t] /\ deps'[t] = {}
      BY <1>2, <2>2 DEF Fresh
    <2>4. \A t \in Triggers : Dependents(t)' \subseteq loaded'
      BY <2>1, <2>2 DEF Fresh
    <2>5. DependentsLive'
      BY <1>1, <2>1 DEF DependentsLive, TreeTypeOK, registry
    <2> QED
      BY <2>3, <2>4, <2>5 DEF Fresh
  <1>4. NeverBuilt'
    BY <1>1 DEF NeverBuilt, Bind, tree
  <1>5. NoTreeYet' /\ QueuesMatch' /\ Layered' /\ Relaxed'
    BY <1>1 DEF NoTreeYet, QueuesMatch, Layered, Relaxed, registry, tree, queues
  <1>6. FirstBuildOrder'
    <2>1. built' => built /\ deps' = deps
      BY DEF Bind, TreeTypeOK
    <2> QED
      BY <1>1, <2>1 DEF FirstBuildOrder, DependentsDeeper, registry, tree
  <1>7. PostprocessIffQueued'
    BY <1>1 DEF PostprocessIffQueued, queues
  <1> QED
    BY <1>3, <1>4, <1>5, <1>6, <1>7

\* The first BuildTree finds no layer and no touched trigger.
LEMMA NothingTouchedYet ==
    ASSUME TreeInv, builds = 0 \/ (builds = 1 /\ tcl = "build")
    PROVE  /\ DOMAIN lookup_tree = {} /\ live = loaded
           /\ \A t \in Triggers : ~touched[t]
  <1>1. DOMAIN lookup_tree = {} /\ live = loaded
    BY DEF TreeInv, NoTreeYet
  <1>2. \A t \in Triggers : ~touched[t]
    BY <1>1 DEF TreeInv, QueuesMatch
  <1> QED
    BY <1>1, <1>2

LEMMA BuildStartInv ==
    ASSUME TreeInv, TreeTypeOK', BuildStart
    PROVE  TreeInv'
  <1> DEFINE first == UNION {Dependents(r) : r \in loaded \cap Virtuals}
  <1>1. /\ tcl = "script" /\ tcl' = "build" /\ builds' = builds + 1
        /\ builds \in Nat
        /\ to_process' = first
        /\ distance' = [t \in Triggers |-> IF t \in first THEN 1 ELSE distance[t]]
        /\ UNCHANGED <<registry, bindings, max_distance, queues>>
    BY DEF BuildStart, TreeInv, TreeTypeOK
  <1>2. Fresh'
    BY <1>1 DEF TreeInv, Fresh, Dependents, registry, bindings, queues
  <1>3. NeverBuilt'
    BY <1>1 DEF NeverBuilt
  <1>4. CASE builds # 0
    <2>1. ~(builds' <= 1)
      BY <1>1, <1>4
    <2>2. Layered'
      BY <1>1 DEF TreeInv, Layered, TreeTypeOK
    <2>3. PostprocessIffQueued'
      BY <1>1 DEF TreeInv, PostprocessIffQueued, queues
    <2>4. /\ NoTreeYet' /\ QueuesMatch' /\ Relaxed' /\ DependentsLive'
          /\ FirstBuildOrder'
      BY <1>1, <2>1 DEF NoTreeYet, QueuesMatch, Relaxed, DependentsLive,
                        FirstBuildOrder
    <2> QED
      BY <1>2, <1>3, <2>2, <2>3, <2>4 DEF TreeInv
  <1>5. CASE builds = 0
    <2>1. /\ DOMAIN lookup_tree = {} /\ live = loaded
          /\ \A t \in Triggers : ~touched[t]
      BY <1>5, NothingTouchedYet
    <2>2. NoTreeYet' /\ QueuesMatch'
      BY <1>1, <2>1 DEF NoTreeYet, QueuesMatch, registry, queues, TreeInv,
                        TreeTypeOK
    <2>3. Layered'
      BY <1>1 DEF TreeInv, Layered, TreeTypeOK
    <2>4. Relaxed'
      <3>1. \A t \in Triggers : distance[t] = 0
        BY <1>5 DEF TreeInv, NeverBuilt
      <3>2. \A t \in Triggers : distance'[t] > 0 => t \in to_process'
        BY <1>1, <3>1
      <3>3. \A t \in loaded \cap Virtuals : \A u \in Dependents(t) :
              u \in Triggers /\ distance'[u] = 1
        BY <1>1 DEF Dependents, TreeInv, TreeTypeOK, Port
      <3>4. UNCHANGED loaded /\ \A t \in Triggers : Dependents(t)' = Dependents(t)
        BY <1>1 DEF registry, bindings, Dependents
      <3> QED
        BY <3>2, <3>3, <3>4 DEF Relaxed
    <2>5. FirstBuildOrder'
      BY <1>1 DEF FirstBuildOrder, DependentsDeeper
    <2>6. PostprocessIffQueued'
      BY <1>1 DEF TreeInv, PostprocessIffQueued, queues
    <2>7. DependentsLive'
      BY <1>1, <1>5 DEF TreeInv, DependentsLive, Dependents, registry, bindings
    <2> QED
      BY <1>2, <1>3, <2>2, <2>3, <2>4, <2>5, <2>6, <2>7 DEF TreeInv
  <1> QED
    BY <1>4, <1>5

\* The relaxation step: what it moves waits again, and what it does not move
\* and does not wait was already in order.
LEMMA ProcessInv ==
    ASSUME TreeInv, TreeTypeOK', NEW t \in Triggers, ProcessOneTrigger(t)
    PROVE  TreeInv'
  <1>1. /\ tcl = "build" /\ t \in to_process
        /\ distance \in [Triggers -> Nat] /\ max_distance \in Nat
        /\ distance' = [u \in Triggers |->
              IF u \in Grown(t) THEN distance[t] + 1 ELSE distance[u]]
        /\ to_process' = (to_process \ {t}) \cup Grown(t)
        /\ max_distance' = IF max_distance > distance[t] THEN max_distance
                                                        ELSE distance[t]
        /\ UNCHANGED <<registry, bindings, queues, tcl, builds>>
    BY DEF ProcessOneTrigger, Popped, TreeInv, TreeTypeOK
  <1>2. /\ UNCHANGED loaded
        /\ \A u \in Triggers : Dependents(u)' = Dependents(u)
        /\ \A u \in Triggers : Dependents(u) \subseteq Triggers
    BY <1>1 DEF registry, bindings, Dependents, TreeInv, TreeTypeOK, Port
  <1>3. Fresh'
    BY <1>1, <1>2 DEF TreeInv, Fresh, bindings, queues
  <1>4. builds # 0
    BY <1>1 DEF TreeInv, NeverBuilt
  <1>5. NeverBuilt' /\ NoTreeYet' /\ DependentsLive'
    BY <1>1, <1>2, <1>4
    DEF TreeInv, NeverBuilt, NoTreeYet, DependentsLive, registry, queues,
        TreeTypeOK
  <1>6. QueuesMatch'
    <2> SUFFICES ASSUME builds' <= 1
                 PROVE  QueuesMatch'
      BY DEF QueuesMatch
    <2>1. builds = 1
      BY <1>1, <1>4 DEF TreeInv, TreeTypeOK
    <2> QED
      BY <1>1, <2>1, NothingTouchedYet
      DEF QueuesMatch, registry, queues, TreeInv, TreeTypeOK
  <1>7. Layered'
    <2>1. \A u \in Triggers : u \in to_process' \/ distance'[u] <= max_distance'
      <3> SUFFICES ASSUME NEW u \in Triggers, u \notin to_process'
                   PROVE  distance'[u] <= max_distance'
        OBVIOUS
      <3>1. distance'[u] = distance[u] /\ distance[u] \in Nat
        BY <1>1
      <3>2. distance[u] <= max_distance \/ u = t
        BY <1>1 DEF TreeInv, Layered
      <3>3. max_distance <= max_distance' /\ distance[t] <= max_distance'
        BY <1>1
      <3> QED
        BY <1>1, <3>1, <3>2, <3>3
    <2> QED
      BY <1>1, <2>1 DEF Layered
  <1>8. Relaxed'
    <2> SUFFICES ASSUME builds' = 1, tcl' = "build",
                        NEW w \in Triggers, NEW u \in Dependents(w)
                 PROVE  /\ w \in loaded \cap Virtuals => distance'[u] > 0
                        /\ (distance'[w] > 0 /\ w \notin to_process') =>
                              distance'[u] > distance'[w]
      BY <1>2 DEF Relaxed
    <2>1. u \in Triggers /\ distance[u] \in Nat /\ distance[w] \in Nat
          /\ distance[t] \in Nat
      BY <1>1, <1>2
    <2>2. distance'[u] >= distance[u]
      BY <1>1, <2>1 DEF Grown
    <2>3. /\ w \in loaded \cap Virtuals => distance[u] > 0
          /\ (distance[w] > 0 /\ w \notin to_process) =>
                distance[u] > distance[w]
      BY <1>1 DEF TreeInv, Relaxed
    <2>4. CASE w \in loaded \cap Virtuals /\ (w \in to_process' \/ distance'[w] <= 0)
      BY <1>1, <2>1, <2>2, <2>3, <2>4
    <2>5. CASE w \notin to_process' /\ w # t
      <3>1. distance'[w] = distance[w] /\ w \notin to_process
        BY <1>1, <2>5
      <3> QED
        BY <1>1, <2>1, <2>2, <2>3, <3>1
    <2>6. CASE w \notin to_process' /\ w = t
      <3>1. distance'[t] = distance[t]
        BY <1>1, <2>6
      <3>2. distance'[u] >= distance[t] + 1
        BY <1>1, <2>1, <2>6 DEF Grown
      <3> QED
        BY <1>1, <2>1, <2>2, <2>3, <2>6, <3>1, <3>2
    <2>7. CASE w \in to_process'
      BY <1>1, <2>1, <2>2, <2>3, <2>7
    <2> QED
      BY <2>4, <2>5, <2>6, <2>7
  <1>9. FirstBuildOrder'
    BY <1>1 DEF FirstBuildOrder, DependentsDeeper
  <1>10. PostprocessIffQueued'
    BY <1>1 DEF TreeInv, PostprocessIffQueued, queues
  <1> QED
    BY <1>3, <1>5, <1>6, <1>7, <1>8, <1>9, <1>10 DEF TreeInv

\* When no leaf waits the relaxation is complete, so what BuildFinish keeps is
\* closed under dependence.
LEMMA BuildFinishInv ==
    ASSUME TreeInv, TreeTypeOK', BuildFinish
    PROVE  TreeInv'
  <1>1. /\ tcl = "build" /\ tcl' = "script" /\ to_process = {}
        /\ lookup_tree' = [d \in 0 .. max_distance |-> <<>>]
        /\ live' = live \ OutOfHierarchy
        /\ UNCHANGED <<loaded, deps, anchs, tree, postprocess_qq, touched,
                       postprocess, builds>>
    BY DEF BuildFinish, Layers
  <1>2. builds # 0
    BY <1>1 DEF TreeInv, NeverBuilt
  <1>3. Fresh'
    BY <1>1 DEF TreeInv, Fresh, Dependents
  <1>4. NeverBuilt' /\ NoTreeYet' /\ Relaxed'
    BY <1>1, <1>2 DEF NeverBuilt, NoTreeYet, Relaxed
  <1>5. /\ DOMAIN lookup_tree' = 0 .. max_distance
        /\ \A d \in DOMAIN lookup_tree' : lookup_tree'[d] = <<>>
    BY <1>1
  <1>6. Layered'
    BY <1>1, <1>5 DEF TreeInv, Layered, tree
  <1>7. PostprocessIffQueued'
    BY <1>1 DEF TreeInv, PostprocessIffQueued
  <1>8. QueuesMatch' /\ FirstBuildOrder' /\ DependentsLive'
    <2>1. CASE ~(builds <= 1)
      BY <1>1, <2>1 DEF QueuesMatch, FirstBuildOrder, DependentsLive
    <2>2. CASE builds <= 1
      <3>1. builds = 1
        BY <1>2, <2>2 DEF TreeInv, TreeTypeOK
      <3>2. live = loaded /\ \A t \in Triggers : ~touched[t]
        BY <1>1, <3>1, NothingTouchedYet
      <3>3. QueuesMatch'
        <4>1. IsInjective(<<>>) /\ Range(<<>>) = {}
          BY DEF IsInjective, Range
        <4>2. \A t \in Triggers : ~touched'[t]
          BY <1>1, <3>2
        <4> QED
          BY <1>5, <4>1, <4>2 DEF QueuesMatch
      <3>4. ASSUME NEW t \in live', NEW d \in deps'[t]
            PROVE  /\ d.trigger \in live'
                   /\ distance'[d.trigger] > distance'[t]
        <4> DEFINE u == d.trigger
        <4>1. t \in Triggers /\ t \in loaded /\ t \notin OutOfHierarchy
          BY <1>1, <3>2 DEF TreeInv, TreeTypeOK
        <4>2. u \in Dependents(t)
          BY <1>1 DEF Dependents
        <4>3. u \in loaded /\ u \in Triggers
          BY <4>1, <4>2 DEF TreeInv, Fresh, TreeTypeOK
        <4>4. distance[t] \in Nat /\ distance[u] \in Nat
          BY <4>1, <4>3 DEF TreeInv, TreeTypeOK
        <4>5. /\ t \in loaded \cap Virtuals => distance[u] > 0
              /\ distance[t] > 0 => distance[u] > distance[t]
          BY <1>1, <3>1, <4>1, <4>2 DEF TreeInv, Relaxed
        <4>6. t \in Virtuals \/ distance[t] > 0
          BY <4>1, <4>4 DEF OutOfHierarchy
        <4>7. distance[u] > 0 /\ distance[u] > distance[t]
          BY <4>1, <4>4, <4>5, <4>6
        <4>8. u \in live'
          BY <1>1, <3>2, <4>3, <4>4, <4>7 DEF OutOfHierarchy
        <4> QED
          BY <1>1, <4>7, <4>8 DEF tree
      <3>5. FirstBuildOrder'
        BY <3>4 DEF FirstBuildOrder, DependentsDeeper
      <3>6. DependentsLive'
        BY <3>4 DEF DependentsLive, Dependents
      <3> QED
        BY <3>3, <3>5, <3>6
    <2> QED
      BY <2>1, <2>2
  <1> QED
    BY <1>3, <1>4, <1>6, <1>7, <1>8 DEF TreeInv

\* What the two queues of lookup_tree and postprocess_qq keep of the invariant
\* when the registry, the bindings and the distances stand still.
LEMMA QueueStepInv ==
    ASSUME TreeInv, TreeTypeOK',
           UNCHANGED <<registry, bindings, tree, tcl, builds>>,
           DOMAIN lookup_tree' = DOMAIN lookup_tree,
           \A t \in Triggers \ loaded : ~touched'[t],
           QueuesMatch', PostprocessIffQueued'
    PROVE  TreeInv'
  <1>1. Fresh' /\ NeverBuilt' /\ NoTreeYet'
    BY DEF TreeInv, Fresh, NeverBuilt, NoTreeYet, Dependents, registry,
           bindings, tree
  <1>2. Layered' /\ Relaxed' /\ DependentsLive'
    BY DEF TreeInv, Layered, Relaxed, DependentsLive, Dependents, registry,
           bindings, tree
  <1>3. FirstBuildOrder'
    BY DEF TreeInv, FirstBuildOrder, DependentsDeeper, registry, bindings, tree
  <1> QED
    BY <1>1, <1>2, <1>3 DEF TreeInv

LEMMA AddToDynamicTreeInv ==
    ASSUME TreeInv, TreeTypeOK', NEW t \in Triggers, AddToDynamicTree(t)
    PROVE  TreeInv'
  <1>1. CASE UNCHANGED treeVars
    BY <1>1, HaltInv DEF treeVars
  <1>2. CASE Halt("no_layer")
    BY <1>2, HaltInv DEF Halt
  <1>3. CASE /\ t \in live /\ ~touched[t] /\ distance[t] \in DOMAIN lookup_tree
             /\ touched' = [touched EXCEPT ![t] = TRUE]
             /\ lookup_tree' = [lookup_tree EXCEPT ![distance[t]] = Append(@, t)]
             /\ UNCHANGED <<registry, bindings, tree, postprocess_qq,
                            postprocess, tcl, builds, status>>
    <2> DEFINE q == lookup_tree[distance[t]]
    <2>1. /\ touched \in [Triggers -> BOOLEAN] /\ t \in loaded
          /\ \A d \in DOMAIN lookup_tree : lookup_tree[d] \in Seq(Triggers)
          /\ live \subseteq Triggers
      BY <1>3 DEF TreeInv, TreeTypeOK
    <2>2. /\ DOMAIN lookup_tree' = DOMAIN lookup_tree
          /\ lookup_tree'[distance[t]] = Append(q, t)
          /\ \A d \in DOMAIN lookup_tree :
                d # distance[t] => lookup_tree'[d] = lookup_tree[d]
          /\ touched'[t]
          /\ \A u \in Triggers : u # t => touched'[u] = touched[u]
      BY <1>3, <2>1
    <2>3. UNCHANGED <<live, distance, builds, loaded>>
      BY <1>3 DEF registry, tree
    <2>4. QueuesMatch'
      <3> SUFFICES ASSUME builds <= 1 PROVE QueuesMatch'
        BY <2>3 DEF QueuesMatch
      <3>1. /\ \A u \in Triggers : touched[u] =>
                  /\ u \in live /\ distance[u] \in DOMAIN lookup_tree
                  /\ u \in Range(lookup_tree[distance[u]])
            /\ \A d \in DOMAIN lookup_tree :
                  /\ IsInjective(lookup_tree[d])
                  /\ \A u \in Range(lookup_tree[d]) :
                        touched[u] /\ distance[u] = d
        BY DEF TreeInv, QueuesMatch
      <3>2. t \notin Range(q)
        BY <1>3, <3>1
      <3>3. /\ IsInjective(Append(q, t))
            /\ Range(Append(q, t)) = Range(q) \cup {t}
        BY <1>3, <2>1, <3>1, <3>2, AppendOnce
      <3>4. ASSUME NEW u \in Triggers, touched'[u]
            PROVE  /\ u \in live /\ distance[u] \in DOMAIN lookup_tree
                   /\ u \in Range(lookup_tree'[distance[u]])
        <4>1. CASE u = t
          BY <1>3, <2>2, <3>3, <4>1
        <4>2. CASE u # t
          <5>1. touched[u]
            BY <2>1, <2>2, <3>4, <4>2
          <5>2. /\ u \in live /\ distance[u] \in DOMAIN lookup_tree
                /\ u \in Range(lookup_tree[distance[u]])
            BY <3>1, <5>1
          <5> QED
            BY <2>2, <3>3, <5>2
        <4> QED
          BY <4>1, <4>2
      <3>5. ASSUME NEW d \in DOMAIN lookup_tree
            PROVE  /\ IsInjective(lookup_tree'[d])
                   /\ \A u \in Range(lookup_tree'[d]) :
                         touched'[u] /\ distance[u] = d
        <4>1. \A u \in Range(lookup_tree[d]) :
                 touched[u] /\ distance[u] = d /\ u \in Triggers
          BY <2>1, <3>1, SeqRange
        <4>2. \A u \in Range(lookup_tree[d]) : touched'[u]
          BY <2>2, <4>1
        <4> QED
          BY <1>3, <2>2, <3>1, <3>3, <4>1, <4>2
      <3> QED
        BY <2>2, <2>3, <3>4, <3>5 DEF QueuesMatch
    <2>5. PostprocessIffQueued'
      BY <1>3 DEF TreeInv, PostprocessIffQueued
    <2>6. \A u \in Triggers \ loaded : ~touched'[u]
      BY <2>1, <2>2 DEF TreeInv, Fresh
    <2> QED
      BY <1>3, <2>2, <2>4, <2>5, <2>6, QueueStepInv
  <1> QED
    BY <1>1, <1>2, <1>3 DEF AddToDynamicTree

LEMMA ExtractCandidateInv ==
    ASSUME TreeInv, TreeTypeOK', NEW d \in DOMAIN lookup_tree,
           ExtractCandidate(d)
    PROVE  TreeInv'
  <1> DEFINE q == lookup_tree[d]
             h == Head(q)
  <1>1. /\ q \in Seq(Triggers) /\ q # <<>>
        /\ touched \in [Triggers -> BOOLEAN]
        /\ live \subseteq Triggers
        /\ \A e \in DOMAIN lookup_tree : lookup_tree[e] \in Seq(Triggers)
    BY DEF ExtractCandidate, FirstLayer, TreeInv, TreeTypeOK
  <1>2. /\ lookup_tree' = [lookup_tree EXCEPT ![d] = Tail(@)]
        /\ touched' = [touched EXCEPT ![h] = FALSE]
        /\ UNCHANGED <<registry, bindings, tree, postprocess_qq, postprocess,
                       tcl, builds>>
    BY DEF ExtractCandidate, Untouched
  <1>3. /\ DOMAIN lookup_tree' = DOMAIN lookup_tree
        /\ lookup_tree'[d] = Tail(q)
        /\ \A e \in DOMAIN lookup_tree :
              e # d => lookup_tree'[e] = lookup_tree[e]
        /\ \A u \in Triggers : touched'[u] = (touched[u] /\ u # h)
    BY <1>1, <1>2
  <1>4. UNCHANGED <<live, distance, builds, loaded>>
    BY <1>2 DEF registry, tree
  <1>5. QueuesMatch'
    <2> SUFFICES ASSUME builds <= 1 PROVE QueuesMatch'
      BY <1>4 DEF QueuesMatch
    <2>1. /\ \A u \in Triggers : touched[u] =>
                /\ u \in live /\ distance[u] \in DOMAIN lookup_tree
                /\ u \in Range(lookup_tree[distance[u]])
          /\ \A e \in DOMAIN lookup_tree :
                /\ IsInjective(lookup_tree[e])
                /\ \A u \in Range(lookup_tree[e]) :
                      touched[u] /\ distance[u] = e
      BY DEF TreeInv, QueuesMatch
    <2>2. /\ IsInjective(Tail(q))
          /\ Range(Tail(q)) = Range(q) \ {h}
          /\ h \in Range(q)
      BY <1>1, <2>1, TailOnce
    <2>3. ASSUME NEW u \in Triggers, touched'[u]
          PROVE  /\ u \in live /\ distance[u] \in DOMAIN lookup_tree
                 /\ u \in Range(lookup_tree'[distance[u]])
      <3>1. touched[u] /\ u # h
        BY <1>1, <1>3, <2>3
      <3>2. /\ u \in live /\ distance[u] \in DOMAIN lookup_tree
            /\ u \in Range(lookup_tree[distance[u]])
        BY <2>1, <3>1
      <3> QED
        BY <1>3, <2>2, <3>1, <3>2
    <2>4. ASSUME NEW e \in DOMAIN lookup_tree
          PROVE  /\ IsInjective(lookup_tree'[e])
                 /\ \A u \in Range(lookup_tree'[e]) :
                       touched'[u] /\ distance[u] = e
      <3>1. \A u \in Range(lookup_tree[e]) :
               touched[u] /\ distance[u] = e /\ u \in Triggers
        BY <1>1, <2>1, SeqRange
      <3>2. CASE e = d
        BY <1>3, <2>2, <3>1, <3>2
      <3>3. CASE e # d
        <4>1. distance[h] = d
          BY <2>1, <2>2
        <4>2. \A u \in Range(lookup_tree[e]) : u # h
          BY <3>1, <3>3, <4>1
        <4> QED
          BY <1>3, <2>1, <3>1, <3>3, <4>2
      <3> QED
        BY <3>2, <3>3
    <2> QED
      BY <1>3, <1>4, <2>3, <2>4 DEF QueuesMatch
  <1>6. PostprocessIffQueued'
    BY <1>2 DEF TreeInv, PostprocessIffQueued
  <1>7. \A u \in Triggers \ loaded : ~touched'[u]
    BY <1>3 DEF TreeInv, Fresh
  <1> QED
    BY <1>2, <1>3, <1>5, <1>6, <1>7, QueueStepInv

LEMMA PostprocessInv ==
    ASSUME TreeInv, TreeTypeOK',
           \/ \E t \in Triggers : AddToPostprocess(t)
           \/ ExtractPostprocess
    PROVE  TreeInv'
  <1> DEFINE q == postprocess_qq
  <1>1. /\ q \in Seq(Triggers)
        /\ postprocess \in [Triggers -> BOOLEAN]
        /\ IsInjective(q)
        /\ Range(q) = {u \in Triggers : postprocess[u]}
    BY DEF TreeInv, TreeTypeOK, PostprocessIffQueued
  <1>2. ASSUME UNCHANGED <<registry, bindings, tree, lookup_tree, touched,
                           tcl, builds>>,
               PostprocessIffQueued'
        PROVE  TreeInv'
    <2>1. QueuesMatch'
      BY <1>2 DEF TreeInv, QueuesMatch, registry, tree
    <2>2. \A u \in Triggers \ loaded : ~touched'[u]
      BY <1>2 DEF TreeInv, Fresh
    <2> QED
      BY <1>2, <2>1, <2>2, QueueStepInv
  <1>3. ASSUME NEW t \in Triggers, AddToPostprocess(t) PROVE TreeInv'
    <2>1. CASE UNCHANGED treeVars
      BY <2>1, HaltInv DEF treeVars
    <2>2. CASE /\ ~postprocess[t]
               /\ postprocess' = [postprocess EXCEPT ![t] = TRUE]
               /\ postprocess_qq' = Append(postprocess_qq, t)
               /\ UNCHANGED <<registry, bindings, tree, lookup_tree, touched,
                              tcl, builds, status>>
      <3>1. /\ IsInjective(Append(q, t))
            /\ Range(Append(q, t)) = Range(q) \cup {t}
        BY <1>1, <2>2, AppendOnce
      <3>2. PostprocessIffQueued'
        BY <1>1, <2>2, <3>1 DEF PostprocessIffQueued
      <3> QED
        BY <1>2, <2>2, <3>2
    <2> QED
      BY <1>3, <2>1, <2>2 DEF AddToPostprocess
  <1>4. CASE ExtractPostprocess
    <2>1. /\ q # <<>>
          /\ postprocess_qq' = Tail(q)
          /\ postprocess' = [postprocess EXCEPT ![Head(q)] = FALSE]
          /\ UNCHANGED <<registry, bindings, tree, lookup_tree, touched,
                         tcl, builds>>
      BY <1>4 DEF ExtractPostprocess, PostprocessDone
    <2>2. /\ IsInjective(Tail(q))
          /\ Range(Tail(q)) = Range(q) \ {Head(q)}
          /\ Head(q) \in Range(q)
      BY <1>1, <2>1, TailOnce
    <2>3. PostprocessIffQueued'
      BY <1>1, <2>1, <2>2 DEF PostprocessIffQueued
    <2> QED
      BY <1>2, <2>1, <2>3
  <1> QED
    BY <1>3, <1>4

LEMMA NextInv ==
    ASSUME TreeInv, [TreeNext]_treeVars
    PROVE  TreeInv'
  <1>0. TreeTypeOK'
    BY NextType DEF TreeInv
  <1>1. ASSUME NEW t \in Triggers, Load(t) PROVE TreeInv'
    BY <1>0, <1>1, LoadInv
  <1>2. ASSUME NEW c \in Commands, Bind(c) PROVE TreeInv'
    BY <1>0, <1>2, BindInv
  <1>3. CASE BuildStart
    BY <1>0, <1>3, BuildStartInv
  <1>4. CASE BuildStep
    BY <1>0, <1>4, ProcessInv, BuildFinishInv, HaltInv
    DEF BuildStep, BuildDeletesTwice, BuildReadsFreed, Halt
  <1>5. ASSUME NEW t \in Triggers, AddToDynamicTree(t) PROVE TreeInv'
    BY <1>0, <1>5, AddToDynamicTreeInv
  <1>6. ASSUME NEW d \in DOMAIN lookup_tree, ExtractCandidate(d) PROVE TreeInv'
    BY <1>0, <1>6, ExtractCandidateInv
  <1>7. CASE (\E t \in Triggers : AddToPostprocess(t)) \/ ExtractPostprocess
    BY <1>0, <1>7, PostprocessInv
  <1>8. ASSUME NEW why \in CallerStops, Halt(why) PROVE TreeInv'
    BY <1>0, <1>8, HaltInv DEF Halt
  <1>9. CASE UNCHANGED treeVars
    BY <1>0, <1>9, HaltInv DEF treeVars
  <1> QED
    BY <1>1, <1>2, <1>3, <1>4, <1>5, <1>6, <1>7, <1>8, <1>9 DEF TreeNext

\* The inductive invariant holds in every behaviour of the tree, whoever calls
\* it: the script in any order, the callers of the queues at any time.
THEOREM TreeInvCorrect == TreeSpec => []TreeInv
  <1>1. TreeInit => TreeInv
    BY InitInv
  <1>2. TreeInv /\ [TreeNext]_treeVars => TreeInv'
    BY NextInv
  <1> QED
    BY <1>1, <1>2, PTL DEF TreeSpec

\* Until the tree is built a second time, a trigger waits in the queue of its
\* layer, once, exactly while its flag "touched" is set.
THEOREM FirstBuildQueuesCorrect == TreeSpec => []FirstBuildQueues
  <1>1. TreeInv => FirstBuildQueues
    BY DEF TreeInv, TreeTypeOK, QueuesMatch, FirstBuildQueues,
           TouchedIffQueued
  <1> QED
    BY <1>1, TreeInvCorrect, PTL

\* The first BuildTree puts every dependent strictly below what it depends on
\* and deletes no trigger that a live one wakes, whatever the bindings are.
THEOREM FirstBuildOrderCorrect == TreeSpec => []FirstBuildOrder
  <1>1. TreeInv => FirstBuildOrder
    BY DEF TreeInv
  <1> QED
    BY <1>1, TreeInvCorrect, PTL

\* After any number of builds every registered trigger has a layer, so that
\* AddToDynamicTree never indexes past the end of lookup_tree.
THEOREM EveryLeafHasLayerCorrect == TreeSpec => []EveryLeafHasLayer
  <1>1. TreeInv => EveryLeafHasLayer
    <2> SUFFICES ASSUME TreeInv, builds > 0, tcl = "script", NEW t \in live
                 PROVE  distance[t] \in DOMAIN lookup_tree
      BY DEF EveryLeafHasLayer
    <2>1. t \in Triggers /\ distance[t] \in Nat /\ max_distance \in Nat
      BY DEF TreeInv, TreeTypeOK
    <2>2. distance[t] <= max_distance /\ DOMAIN lookup_tree = 0 .. max_distance
      BY <2>1 DEF TreeInv, Layered
    <2> QED
      BY <2>1, <2>2
  <1> QED
    BY <1>1, TreeInvCorrect, PTL

\* A trigger waits for its dump, once, exactly while its flag is set: one
\* change of a dumped trigger prints one dump.
THEOREM PostprocessCorrect == TreeSpec => []PostprocessIffQueued
  <1>1. TreeInv => PostprocessIffQueued
    BY DEF TreeInv
  <1> QED
    BY <1>1, TreeInvCorrect, PTL
=============================================================================
