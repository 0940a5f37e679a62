---------------------------- MODULE TriggerTree ----------------------------
(***************************************************************************)
(* The registry of triggers, the bindings between them and the layered     *)
(* tree that decides in which order they are processed: CTriggerTree,      *)
(* the CBaseTrigger part of every trigger, and the registration half of    *)
(* MentalFsm.  The module is an open system: the Tcl script loads, binds   *)
(* and builds, and whoever calls AddToDynamicTree, AddToPostprocess,       *)
(* ExtractCandidate and ExtractPostprocess does so at any time the script  *)
(* is not inside BuildTree.  Module MentalFsm is the caller of the code.   *)
(***************************************************************************)
EXTENDS Integers, Sequences, Functions

CONSTANTS
    Triggers,    \* every trigger the script may load
    Kind,        \* the class of a trigger
    Outs,        \* size of its vector "values"
    Ins,         \* size of its vector "anchs"
    Commands,    \* the bindtrigger commands the script may give
    Dumped,      \* triggers a dump was switched on for
    CallerStops, \* the reasons the callers of the tree may end the process for
    MaxBuilds,   \* bound: how often the script gives "triggers build_tree"
    NoSource     \* a NULL entry of "anchs"

\* enum inout: what stands between the colons of an input-output spec
Forms == {"in", "out", "none"}

\* CVirtTrigger, and the classes of the libraries under triggers/.
ASSUME KindAssumption ==
    Kind \in [Triggers -> {"virt", "time", "log", "pcre", "neuro"}]

ASSUME SizeAssumption ==
    /\ Outs \in [Triggers -> Nat]
    /\ Ins \in [Triggers -> Nat \ {0}]

ASSUME CommandAssumption ==
    Commands \subseteq [src : Triggers, srcForm : Forms, out : Int,
                        dst : Triggers, dstForm : Forms, in : Int]

ASSUME DumpAssumption == Dumped \subseteq Triggers

ASSUME BuildAssumption == MaxBuilds \in Nat

VARIABLES
    loaded,         \* triggers ever constructed; their leaves are never freed
    live,           \* triggers registered in MentalFsm and not deleted
    time_triggers,  \* MentalFsm::time_triggers
    deps,           \* CBaseTrigger::deps, [trigger, offs] of the dependent
    anchs,          \* CBaseTrigger::anchs, [trigger, offs] of the source
    distance,       \* trigger_tree_leaf::distance
    max_distance,
    to_process,     \* leaves waiting in BuildTree
    lookup_tree,    \* one queue of leaves per layer
    postprocess_qq,
    touched,        \* CBaseTrigger::touched
    postprocess,    \* CBaseTrigger::postprocess
    tcl,            \* the Tcl thread: between commands, or inside BuildTree
    builds,         \* how many times BuildTree was entered
    built,          \* history: BuildTree has seen every entry of deps
    status          \* "run", or why the process ended

registry == <<loaded, live, time_triggers>>
bindings == <<deps, anchs, built>>
tree     == <<distance, max_distance, to_process>>
queues   == <<lookup_tree, postprocess_qq, touched, postprocess>>
treeVars == <<registry, bindings, tree, queues, tcl, builds, status>>

Slots(t) == 0 .. Ins[t] - 1
Port     == [trigger : Triggers, offs : Int]
Stops    == {"exit4", "no_layer", "null_input", "freed_input", "double_free",
             "fpe", "race"}

ASSUME StopAssumption == CallerStops \subseteq Stops

Running  == status = "run"

TreeTypeOK ==
    /\ loaded \subseteq Triggers
    /\ live \subseteq loaded
    /\ time_triggers \subseteq live
    /\ deps \in [Triggers -> SUBSET Port]
    /\ \A t \in Triggers : anchs[t] \in [Slots(t) -> Port \cup {NoSource}]
    /\ DOMAIN anchs = Triggers
    /\ distance \in [Triggers -> Nat]
    /\ max_distance \in Nat
    /\ to_process \subseteq Triggers
    /\ \/ DOMAIN lookup_tree = {}
       \/ \E m \in 0 .. max_distance : DOMAIN lookup_tree = 0 .. m
    /\ \A d \in DOMAIN lookup_tree : lookup_tree[d] \in Seq(Triggers)
    /\ postprocess_qq \in Seq(Triggers)
    /\ touched \in [Triggers -> BOOLEAN]
    /\ postprocess \in [Triggers -> BOOLEAN]
    /\ tcl \in {"script", "build"}
    /\ builds \in 0 .. MaxBuilds
    /\ built \in BOOLEAN
    /\ status \in Stops \cup {"run"}

\* CTriggerTree, MentalFsm and the constructors of triggers before any loading
TreeInit ==
    /\ loaded = {} /\ live = {} /\ time_triggers = {}
    /\ deps = [t \in Triggers |-> {}]
    /\ anchs = [t \in Triggers |-> [i \in Slots(t) |-> NoSource]]
    /\ distance = [t \in Triggers |-> 0]
    /\ max_distance = 0
    /\ to_process = {}
    /\ lookup_tree = [d \in {} |-> <<>>]
    /\ postprocess_qq = <<>>
    /\ touched = [t \in Triggers |-> FALSE]
    /\ postprocess = [t \in Triggers |-> FALSE]
    /\ tcl = "script" /\ builds = 0 /\ built = FALSE
    /\ status = "run"

Virtuals == {t \in Triggers : Kind[t] = "virt"}

\* The constructors that also call RegisterTimeTrigger.
Timed == {t \in Triggers : Kind[t] \in {"time", "neuro"}}

\* The process ends, by exit() or by undefined behaviour.
Halt(why) ==
    /\ status' = why
    /\ UNCHANGED <<registry, bindings, tree, queues, tcl, builds>>

(***************************************************************************)
(* loadtrigger: the constructor registers the leaf as a root or as a       *)
(* child, the trigger in MentalFsm and, for two kinds, as a time trigger.  *)
(* A name is registered once.                                              *)
(***************************************************************************)
Load(t) ==
    /\ Running /\ tcl = "script"
    /\ t \notin loaded
    /\ loaded' = loaded \cup {t}
    /\ live' = live \cup {t}
    /\ time_triggers' = time_triggers \cup ({t} \cap Timed)
    /\ UNCHANGED <<bindings, tree, queues, tcl, builds, status>>

(***************************************************************************)
(* bindtrigger src dst: BindTo of the source, then BindFrom of the         *)
(* destination, whatever BindTo answered.  CLogTrigger::BindTo and         *)
(* CVirtTrigger::BindFrom do nothing.                                      *)
(***************************************************************************)

\* The four classes test the same: the two ends, whatever the number of the
\* input, and that the destination does not depend on the source yet.
RightEnds(c) == c.srcForm = "out" /\ c.out < Outs[c.src] /\ c.dstForm # "out"
NewDependent(c) == \A d \in deps[c.src] : d.trigger # c.dst
BindsTo(c) == Kind[c.src] # "log" /\ RightEnds(c) /\ NewDependent(c)

\* GetExtendedOutsCount of the source
ExtendedOuts(t) == IF Kind[t] = "log" THEN 0 ELSE Outs[t]

\* The slot of anchs that BindFrom writes: time and log have one input, and
\* refuse positive numbers only.
SingleInput(c) == Kind[c.dst] \in {"time", "log"} /\ c.in <= 0

ManyInputs(c) == Kind[c.dst] \in {"pcre", "neuro"} /\ c.in \in Slots(c.dst)

SlotOf(c) == IF Kind[c.dst] \in {"time", "log"} THEN 0 ELSE c.in

\* The number of the output may be one past the last.
BindsFrom(c) ==
    /\ c.dstForm = "in" /\ (SingleInput(c) \/ ManyInputs(c))
    /\ c.srcForm = "out" /\ c.out <= ExtendedOuts(c.src)

Bind(c) ==
    /\ Running /\ tcl = "script"
    /\ {c.src, c.dst} \subseteq live
    /\ deps' = IF BindsTo(c)
               THEN [deps EXCEPT ![c.src] =
                        @ \cup {[trigger |-> c.dst, offs |-> c.in]}]
               ELSE deps
    /\ built' = (built /\ ~BindsTo(c))
    /\ anchs' = IF BindsFrom(c)
                THEN [anchs EXCEPT ![c.dst][SlotOf(c)] =
                        [trigger |-> c.src, offs |-> c.out]]
                ELSE anchs
    /\ UNCHANGED <<registry, tree, queues, tcl, builds, status>>

Dependents(t) == {d.trigger : d \in deps[t]}

(***************************************************************************)
(* triggers build_tree: CTriggerTree::BuildTree.  The dependents of the    *)
(* roots go to layer 1; then every leaf that waits pushes its dependents   *)
(* below itself; then the queues of the layers are created and the         *)
(* children no root reaches are unregistered and deleted.  The order in    *)
(* which waiting leaves are taken is left open.                            *)
(***************************************************************************)
BuildStart ==
    /\ Running /\ tcl = "script" /\ builds < MaxBuilds
    /\ LET first == UNION {Dependents(r) : r \in loaded \cap Virtuals}
       IN  /\ distance' = [t \in Triggers |->
                              IF t \in first THEN 1 ELSE distance[t]]
           /\ to_process' = first
    /\ tcl' = "build" /\ builds' = builds + 1
    /\ UNCHANGED <<registry, bindings, max_distance, queues, status>>

NotGrownFar(t) == {u \in Dependents(t) : distance[u] < distance[t]}

\* The dependents of a leaf that do not yet lie below it.
Grown(t) == {u \in Dependents(t) : distance[u] < distance[t] + 1}

NeverPopped(t) == to_process \cup Grown(t)

Popped(t) == (to_process \ {t}) \cup Grown(t)

ProcessOneTrigger(t) ==
    /\ Running /\ tcl = "build"
    /\ t \in to_process /\ Dependents(t) \subseteq live
    /\ distance' = [u \in Triggers |->
                       IF u \in Grown(t) THEN distance[t] + 1 ELSE distance[u]]
    /\ to_process' = Popped(t)
    /\ max_distance' = IF max_distance > distance[t] THEN max_distance
                                                     ELSE distance[t]
    /\ UNCHANGED <<registry, bindings, queues, tcl, builds, status>>

\* A dependent that an earlier BuildTree deleted is still in deps.
BuildReadsFreed(t) ==
    /\ Running /\ tcl = "build"
    /\ t \in to_process /\ ~(Dependents(t) \subseteq live)
    /\ Halt("freed_input")

OutOfHierarchy == {t \in loaded \ Virtuals : distance[t] <= 0}

TimeTriggersKept == time_triggers

TimeTriggersLeft == time_triggers \ OutOfHierarchy

OneLayerShort == 0 .. max_distance - 1

Layers == 0 .. max_distance

BuildFinish ==
    /\ Running /\ tcl = "build" /\ to_process = {}
    /\ OutOfHierarchy \subseteq live
    /\ lookup_tree' = [d \in Layers |-> <<>>]
    /\ live' = live \ OutOfHierarchy
    /\ time_triggers' = TimeTriggersLeft
    /\ tcl' = "script" /\ built' = TRUE
    /\ UNCHANGED <<loaded, deps, anchs, tree, postprocess_qq, touched,
                   postprocess, builds, status>>

\* The leaf of a deleted trigger is still a child: a second BuildTree hands
\* the freed trigger to UnregisterTrigger again.
BuildDeletesTwice ==
    /\ Running /\ tcl = "build" /\ to_process = {}
    /\ ~(OutOfHierarchy \subseteq live)
    /\ Halt("double_free")

(***************************************************************************)
(* AddToDynamicTree: once touched, a trigger is not queued again.  A layer *)
(* that BuildTree has not created is an index past the end of the vector.  *)
(***************************************************************************)
AddToDynamicTree(t) ==
    /\ Running /\ tcl = "script"
    /\ t \in live
    /\ \/ /\ touched[t]
          /\ UNCHANGED treeVars
       \/ /\ ~touched[t] /\ distance[t] \in DOMAIN lookup_tree
          /\ touched' = [touched EXCEPT ![t] = TRUE]
          /\ lookup_tree' = [lookup_tree EXCEPT ![distance[t]] = Append(@, t)]
          /\ UNCHANGED <<registry, bindings, tree, postprocess_qq,
                         postprocess, tcl, builds, status>>
       \/ /\ ~touched[t] /\ distance[t] \notin DOMAIN lookup_tree
          /\ Halt("no_layer")

SomeLayer(d) == d \in DOMAIN lookup_tree /\ lookup_tree[d] # <<>>

\* The layer ExtractCandidate finds: the first whose queue is not empty.
FirstLayer(d) ==
    /\ d \in DOMAIN lookup_tree
    /\ lookup_tree[d] # <<>>
    /\ \A e \in DOMAIN lookup_tree : e < d => lookup_tree[e] = <<>>

NothingQueued == \A d \in DOMAIN lookup_tree : lookup_tree[d] = <<>>

StillTouched(t) == touched

Untouched(t) == [touched EXCEPT ![t] = FALSE]

ExtractCandidate(d) ==
    /\ Running /\ tcl = "script"
    /\ FirstLayer(d)
    /\ lookup_tree' = [lookup_tree EXCEPT ![d] = Tail(@)]
    /\ touched' = Untouched(Head(lookup_tree[d]))
    /\ UNCHANGED <<registry, bindings, tree, postprocess_qq, postprocess,
                   tcl, builds, status>>

AddToPostprocess(t) ==
    /\ Running /\ tcl = "script"
    /\ t \in live \cap Dumped
    /\ \/ /\ postprocess[t]
          /\ UNCHANGED treeVars
       \/ /\ ~postprocess[t]
          /\ postprocess' = [postprocess EXCEPT ![t] = TRUE]
          /\ postprocess_qq' = Append(postprocess_qq, t)
          /\ UNCHANGED <<registry, bindings, tree, lookup_tree, touched,
                         tcl, builds, status>>

StillPostprocess(t) == postprocess

PostprocessDone(t) == [postprocess EXCEPT ![t] = FALSE]

ExtractPostprocess ==
    /\ Running /\ tcl = "script"
    /\ postprocess_qq # <<>>
    /\ postprocess_qq' = Tail(postprocess_qq)
    /\ postprocess' = PostprocessDone(Head(postprocess_qq))
    /\ UNCHANGED <<registry, bindings, tree, lookup_tree, touched,
                   tcl, builds, status>>

BuildStep ==
    \/ \E t \in Triggers : ProcessOneTrigger(t) \/ BuildReadsFreed(t)
    \/ BuildFinish
    \/ BuildDeletesTwice

TreeNext ==
    \/ \E t \in Triggers : Load(t)
    \/ \E c \in Commands : Bind(c)
    \/ BuildStart
    \/ BuildStep
    \/ \E t \in Triggers : AddToDynamicTree(t) \/ AddToPostprocess(t)
    \/ \E d \in DOMAIN lookup_tree : ExtractCandidate(d)
    \/ ExtractPostprocess
    \/ \E why \in CallerStops : Running /\ Halt(why)

TreeSpec == TreeInit /\ [][TreeNext]_treeVars

\* BuildTree runs to its end on the Tcl thread: nothing in it waits.
TreeLiveSpec == TreeSpec /\ WF_treeVars(BuildStep)

----------------------------------------------------------------------------

(* Properties *)

\* The flag "touched", base_trigger.h:85: "already added to the dynamic tree".
\* It is set exactly while the leaf waits in the queue of its layer, and the
\* leaf waits once: a set flag without an entry makes AddToDynamicTree drop
\* every later wake-up of the trigger.
TouchedIffQueued ==
    Running =>
        /\ \A t \in live : touched[t] =>
              /\ distance[t] \in DOMAIN lookup_tree
              /\ t \in Range(lookup_tree[distance[t]])
        /\ \A d \in DOMAIN lookup_tree :
              /\ IsInjective(lookup_tree[d])
              /\ \A t \in Range(lookup_tree[d]) : touched[t] /\ distance[t] = d

\* A script that builds the tree once keeps the flags and the queues together.
FirstBuildQueues == builds <= 1 => TouchedIffQueued

\* The flag "postprocess" is set exactly while the leaf waits, once, for its
\* dump: a dump is neither lost nor printed twice after one change.
PostprocessIffQueued ==
    /\ IsInjective(postprocess_qq)
    /\ Range(postprocess_qq) = {t \in Triggers : postprocess[t]}

\* Every dependent lies strictly below the triggers it depends on, and no
\* trigger that a live trigger still wakes was deleted.
DependentsDeeper ==
    (tcl = "script" /\ built) =>
        \A t \in live : \A d \in deps[t] :
            /\ d.trigger \in live
            /\ distance[d.trigger] > distance[t]

\* The first BuildTree establishes it and late commands that bind nothing new
\* keep it.  A second BuildTree pulls the dependents of the roots back to layer
\* 1 and does not push them down again.
FirstBuildOrder == builds <= 1 => DependentsDeeper

\* After BuildTree every registered trigger, loaded before it or later, has a
\* queue to wait in: AddToDynamicTree indexes lookup_tree within its size.
EveryLeafHasLayer ==
    (builds > 0 /\ tcl = "script" /\ Running) =>
        \A t \in live : distance[t] \in DOMAIN lookup_tree

\* The relaxation loop of BuildTree comes to an end when the bindings have no
\* cycle (with one it never does).
BuildEnds == (tcl = "build") ~> (tcl = "script" \/ ~Running)

=============================================================================
