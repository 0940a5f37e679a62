----------------------------- MODULE MentalFsm -----------------------------
(***************************************************************************)
(* The network thread of CNetLink at work on the tree: a message from the  *)
(* DSP sets outputs of virtual triggers, announces a sample rate, or moves *)
(* the time, which runs the machine: every step touches the time triggers, *)
(* processes the queued triggers layer by layer and prints the dumps.  The *)
(* Tcl thread gives its commands meanwhile and no lock separates the two;  *)
(* a table command that meets a running network thread, and a message that *)
(* meets a running BuildTree, end the behaviour with status "race".        *)
(*                                                                         *)
(* What a trigger computes is left open: processing one may change any of  *)
(* its outputs.  Times are in samples; the parts of one message are taken  *)
(* one by one.                                                             *)
(***************************************************************************)
EXTENDS TriggerTree

CONSTANTS
    Reads,        \* the slots of anchs a trigger dereferences when processed
    LocalRates,   \* sample rates the script may set,
    RemoteRates,  \* the script or the DSP may set,
    MinRates,     \* the script may set
    MaxTime       \* bound: the largest time a message carries

ASSUME ReadsAssumption == Reads \in [Triggers -> SUBSET Nat]

ASSUME RateAssumption ==
    LocalRates \subseteq Nat /\ RemoteRates \subseteq Nat /\ MinRates \subseteq Nat

ASSUME TimeAssumption == MaxTime \in Nat

ASSUME CallerAssumption ==
    {"exit4", "null_input", "freed_input", "fpe", "race"} \subseteq CallerStops

VARIABLES
    net,     \* where the network thread is
    pending, \* triggers the loop it is in has still to wake
    done,    \* history: triggers processed in the current step of time
    stale,   \* history: <<t, i>> whose source changed after t was processed
    current_time, local_samplerate, remote_samplerate, min_samplerate,
    max_time_step,
    new_time \* the parameter of RunToTime

rates  == <<local_samplerate, remote_samplerate, min_samplerate>>
clock  == <<current_time, max_time_step, new_time>>
ghosts == <<done, stale>>
fsmVars == <<net, pending, ghosts, clock, rates>>
vars    == <<treeVars, fsmVars>>

\* "output", "touch" and "wake" are the loops of SetOutput, TouchTimeTriggers
\* and handle_values_differences.
NetStates == {"idle", "output", "touch", "wake", "drain", "post"}
Loops     == {"output", "touch", "wake"}

TypeOK ==
    /\ TreeTypeOK
    /\ net \in NetStates
    /\ pending \subseteq Triggers
    /\ builds <= 1 => pending \subseteq live
    /\ done \subseteq Triggers
    /\ stale \subseteq live \X Nat
    /\ current_time \in Nat /\ max_time_step \in Nat /\ new_time \in Nat
    /\ local_samplerate \in Nat /\ remote_samplerate \in Nat
    /\ min_samplerate \in Nat

Init ==
    /\ TreeInit
    /\ net = "idle" /\ pending = {} /\ done = {} /\ stale = {}
    /\ current_time = 0 /\ max_time_step = 0 /\ new_time = 0
    /\ local_samplerate = 1 /\ remote_samplerate = 1 /\ min_samplerate = 10

\* The slots fed by one of the outputs os of s.
Fed(s, os) ==
    {p \in live \X UNION {Slots(t) : t \in Triggers} :
        /\ p[2] \in Slots(p[1])
        /\ anchs[p[1]][p[2]] \in [trigger : {s}, offs : os]}

(***************************************************************************)
(* The Tcl thread.                                                         *)
(***************************************************************************)
\* A new binding of a trigger starts a new account of its inputs.
StaleLeft(c) == {p \in stale : p[1] # c.dst}

TclTable ==
    /\ net = "idle"
    /\ \/ \E t \in Triggers : Load(t) /\ UNCHANGED fsmVars
       \/ \E c \in Commands :
             /\ Bind(c)
             /\ stale' = StaleLeft(c)
             /\ UNCHANGED <<net, pending, done, clock, rates>>
       \/ BuildStart /\ UNCHANGED fsmVars

TclBuild ==
    /\ BuildStep
    /\ stale' = {p \in stale : p[1] \in live'}
    /\ UNCHANGED <<net, pending, done, clock, rates>>

\* No lock keeps the tables still while the network thread reads them.
TclRace ==
    /\ Running /\ net # "idle" /\ tcl = "script"
    /\ Halt("race") /\ UNCHANGED fsmVars

SetLocalSamplerate(r) ==
    /\ Running /\ tcl = "script"
    /\ local_samplerate' = r
    /\ UNCHANGED <<treeVars, net, pending, ghosts, clock, remote_samplerate,
                   min_samplerate>>

SetMinSamplerate(r) ==
    /\ Running /\ tcl = "script"
    /\ min_samplerate' = r
    /\ UNCHANGED <<treeVars, net, pending, ghosts, clock, local_samplerate,
                   remote_samplerate>>

\* Given by the script, or by a samplerate message when the thread is idle.
SetRemoteSamplerate(r) ==
    /\ Running /\ (tcl = "script" \/ net = "idle")
    /\ remote_samplerate' = r
    /\ UNCHANGED <<treeVars, net, pending, ghosts, clock, local_samplerate,
                   min_samplerate>>

(***************************************************************************)
(* The network thread receives a message.                                  *)
(***************************************************************************)
NetReady == Running /\ net = "idle"

\* Any message but a sample rate, while the script is inside BuildTree.
NetRace ==
    /\ NetReady /\ tcl = "build"
    /\ Halt("race") /\ UNCHANGED fsmVars

\* CVirtTrigger::SetOutput compares the INPUT number of the dependent with the
\* number of the output.
WokenByOutput(v, n) == {d.trigger : d \in {e \in deps[v] : e.offs = n}}

SetOutput(v, n) ==
    /\ NetReady /\ tcl = "script"
    /\ v \in live \cap Virtuals
    /\ n < Outs[v]
    /\ \/ v \in Dumped /\ AddToPostprocess(v)
       \/ v \notin Dumped /\ UNCHANGED treeVars
    /\ net' = "output"
    /\ pending' = WokenByOutput(v, n)
    /\ stale' = stale \cup Fed(v, {n})
    /\ UNCHANGED <<done, clock, rates>>

SetOutputOutOfRange ==
    /\ NetReady /\ tcl = "script"
    /\ live \cap Virtuals # {}
    /\ Halt("exit4") /\ UNCHANGED fsmVars

\* process_time_msg compares the time of the message, in remote samples, with
\* the time of the machine, in local samples.
Older(t) == t < current_time

ScaleRemoteTime(t) == (t * local_samplerate) \div remote_samplerate

EveryTimeTrigger == loaded \cap Timed

\* What TouchTimeTriggers goes through.
TouchedByTime == time_triggers

ReceiveTime(t) ==
    /\ NetReady /\ tcl = "script"
    /\ ~Older(t)
    /\ remote_samplerate # 0 /\ min_samplerate # 0
    /\ new_time' = ScaleRemoteTime(t)
    /\ max_time_step' = local_samplerate \div min_samplerate
    /\ net' = "touch" /\ pending' = TouchedByTime /\ done' = {}
    /\ UNCHANGED <<treeVars, stale, current_time, rates>>

ReceiveOldTime(t) ==
    /\ NetReady /\ tcl = "script"
    /\ Older(t)
    /\ Halt("exit4") /\ UNCHANGED fsmVars

\* An integer division by zero in ScaleRemoteTime or RunToTime.
ReceiveTimeNoRate(t) ==
    /\ NetReady /\ tcl = "script"
    /\ ~Older(t)
    /\ remote_samplerate = 0 \/ min_samplerate = 0
    /\ Halt("fpe") /\ UNCHANGED fsmVars

(***************************************************************************)
(* The loops that wake triggers.                                           *)
(***************************************************************************)
WakePending(t) ==
    /\ net \in Loops
    /\ t \in pending
    /\ AddToDynamicTree(t)
    /\ pending' = pending \ {t}
    /\ UNCHANGED <<net, ghosts, clock, rates>>

\* A second BuildTree may have deleted a dependent and left the binding.
WakeFreed(t) ==
    /\ Running /\ net \in Loops
    /\ t \in pending \ live
    /\ Halt("freed_input") /\ UNCHANGED fsmVars

LoopBroken == net \in Loops

LoopOver == net \in Loops /\ pending = {}

LoopDone ==
    /\ Running
    /\ LoopOver
    /\ net' = IF net = "output" THEN "idle" ELSE "drain"
    /\ UNCHANGED <<treeVars, pending, ghosts, clock, rates>>

(***************************************************************************)
(* StepToTime: the queued triggers, the nearest layer first.  A trigger    *)
(* reads the inputs in Reads, may change any of its outputs, and then, in  *)
(* handle_values_differences, wakes the dependents bound by input 0.       *)
(***************************************************************************)
Unbound(t) == {i \in Reads[t] : anchs[t][i] = NoSource}

Dangling(t) == {i \in Reads[t] \ Unbound(t) : anchs[t][i].trigger \notin live}

WokenByChange(t) == {d.trigger : d \in {e \in deps[t] : e.offs = 0}}

Producers == {"time", "pcre", "neuro"}

\* The outputs processing a trigger may change: a virtual trigger and a log
\* trigger change none.
Changeable(t) ==
    IF Kind[t] \in Producers THEN SUBSET (0 .. Outs[t] - 1) ELSE {{}}

ProcessAnchestors(d) ==
    LET t == Head(lookup_tree[d])
    IN  /\ net = "drain"
        /\ ExtractCandidate(d)
        /\ Unbound(t) = {} /\ Dangling(t) = {}
        /\ \E changed \in Changeable(t) :
             /\ pending' = IF changed = {} THEN {} ELSE WokenByChange(t)
             /\ stale' = {p \in stale : p[1] # t} \cup Fed(t, changed)
        /\ net' = "wake"
        /\ done' = done \cup {t}
        /\ UNCHANGED <<clock, rates>>

\* An input that was never bound, or whose source was deleted by BuildTree.
ProcessBadInput(d) ==
    LET t == Head(lookup_tree[d])
    IN  /\ Running /\ net = "drain"
        /\ FirstLayer(d)
        /\ \/ Unbound(t) # {} /\ Halt("null_input")
           \/ Unbound(t) = {} /\ Dangling(t) # {} /\ Halt("freed_input")
        /\ UNCHANGED fsmVars

Drained ==
    /\ Running /\ net = "drain"
    /\ NothingQueued
    /\ net' = "post"
    /\ UNCHANGED <<treeVars, pending, ghosts, clock, rates>>

PostprocessTasks ==
    /\ net = "post"
    /\ ExtractPostprocess
    /\ UNCHANGED fsmVars

(***************************************************************************)
(* The loop of RunToTime: current_time moves when a step is over, by       *)
(* max_time_step while more than that is left, and to new_time at the end. *)
(***************************************************************************)
TimeLeft == new_time - current_time

MoreStepsButOne == TimeLeft - 1 > max_time_step

MoreSteps == TimeLeft > max_time_step

StepDoneEarly == Running /\ net = "post"

StepDone == Running /\ net = "post" /\ postprocess_qq = <<>>

NoTimePassed == current_time

TimePassed == current_time + max_time_step

NextStep ==
    /\ StepDone /\ MoreSteps
    /\ current_time' = TimePassed
    /\ net' = "touch" /\ pending' = TouchedByTime /\ done' = {}
    /\ UNCHANGED <<treeVars, stale, max_time_step, new_time, rates>>

LastStep ==
    /\ StepDone /\ ~MoreSteps
    /\ current_time' = new_time
    /\ net' = "idle" /\ done' = {}
    /\ UNCHANGED <<treeVars, pending, stale, max_time_step, new_time, rates>>

NetStep ==
    \/ \E t \in Triggers : WakePending(t) \/ WakeFreed(t)
    \/ LoopDone
    \/ \E d \in DOMAIN lookup_tree : ProcessAnchestors(d) \/ ProcessBadInput(d)
    \/ Drained
    \/ PostprocessTasks
    \/ NextStep
    \/ LastStep

Receive ==
    \/ \E v \in Triggers, n \in UNION {0 .. Outs[t] - 1 : t \in Triggers} :
          SetOutput(v, n)
    \/ SetOutputOutOfRange
    \/ \E t \in 0 .. MaxTime :
          ReceiveTime(t) \/ ReceiveOldTime(t) \/ ReceiveTimeNoRate(t)
    \/ NetRace

Next ==
    \/ TclTable
    \/ TclBuild
    \/ TclRace
    \/ \E r \in LocalRates : SetLocalSamplerate(r)
    \/ \E r \in MinRates : SetMinSamplerate(r)
    \/ \E r \in RemoteRates : SetRemoteSamplerate(r)
    \/ Receive
    \/ NetStep

Spec == Init /\ [][Next]_vars

\* Each thread, once inside a call, runs it to its end: nothing in RunToTime,
\* SetOutput or BuildTree waits for another thread.
LiveSpec == Spec /\ WF_vars(NetStep) /\ WF_vars(TclBuild)

----------------------------------------------------------------------------
(* Properties *)

\* Layering pays off: until a second build, a trigger is processed at most once
\* in one step of time, after everything it depends on.  A processed trigger is
\* not queued again before the step ends.
OncePerStep ==
    (built /\ builds <= 1 /\ Running) => \A t \in done : ~touched[t]

\* The wake-up the code intends for the slot p of a trigger: a virtual source
\* wakes the dependents whose input number is that of the output, any other
\* source those bound by input 0.
WakeExpected(p) ==
    LET port == anchs[p[1]][p[2]]
    IN  IF Kind[port.trigger] = "virt"
        THEN p[1] \in WokenByOutput(port.trigger, port.offs)
        ELSE p[1] \in WokenByChange(port.trigger)

\* The trigger waits in the queue of its layer.
Queued(t) ==
    /\ distance[t] \in DOMAIN lookup_tree
    /\ t \in Range(lookup_tree[distance[t]])

\* No wake-up is lost on the way: between the loops of the network thread a
\* trigger with a changed input that the code does wake is in the tree.
WakeNotLost ==
    (Running /\ net \notin Loops /\ builds <= 1) =>
        \A p \in stale : WakeExpected(p) => Queued(p[1])

\* Time moves only when the step is complete: no trigger waits, no dump waits,
\* and every time trigger was processed at the old time.  After a second build a
\* touched trigger without a place in a queue breaks it.
StepComplete ==
    [][current_time' # current_time /\ builds <= 1 =>
         /\ NothingQueued /\ postprocess_qq = <<>>
         /\ time_triggers \subseteq done]_vars

\* The machine never leaps over a sampling instant: one step of time is at
\* most local_samplerate / min_samplerate samples.
NoLeap == [][current_time' - current_time <= max_time_step]_vars

\* RunToTime returns, with the time it was asked for, unless the step is zero
\* samples long (more steps a second than samples): then it never does.
TimeReached ==
    (net = "touch") ~> \/ net = "idle" /\ current_time = new_time
                       \/ max_time_step = 0
                       \/ ~Running

\* net_link.cpp:118 refuses a message whose "time is less than current time":
\* the clock of the machine never goes back.
TimeNeverGoesBack == [][current_time' >= current_time]_vars

\* virt_trigger.cpp:139: SetOutput "marks the trigger that depends on this
\* input as needing processing": a trigger bound both ways to the output of a
\* virtual trigger is queued once the output was set.
OutputWakesDependents ==
    (Running /\ net = "idle") =>
        \A p \in stale :
            LET port == anchs[p[1]][p[2]]
            IN  (/\ port.trigger \in Virtuals
                 /\ [trigger |-> p[1], offs |-> p[2]] \in deps[port.trigger])
                => touched[p[1]]
=============================================================================
