# Mental FSM: a TLA+ model of the trigger machine and of P2Vera

The program (`mentalstate.cpp`, `main.cpp`) is a Tcl shell around a state
machine for recognising sound.  A digital signal processor (DSP) sends messages
over a peer-to-peer library, P2Vera; they set the outputs of *virtual* triggers
and move the time; *time*, *log*, *pcre* and *neuro* triggers, bound to one
another by the Tcl script, are processed layer by layer at every step of time.
A second program, `fann_train`, makes the neural networks the neuro triggers
load.

All source paths below are relative to `src/`.

## Inventory

| Component | State | Operations | Met by | Modelled in |
|---|---|---|---|---|
| Registry and bindings: `MentalFsm`, `CBaseTrigger`, `mentalstate.cpp` | `triggers`, `time_triggers`, `trig_dict`; `deps` and `anchs` of every trigger | `loadtrigger` (constructor, `RegisterTrigger`, `RegisterTimeTrigger`), `bindtrigger` (`BindTo`, `BindFrom`), `UnregisterTrigger` | Tcl thread writes, network thread reads, no lock | `TriggerTree` |
| Layered tree: `trigger_tree.cpp`, `base_trigger.cpp` | `distance`, `max_distance`, `to_process`; one queue per layer (`lookup_tree`), `postprocess_qq`; flags `touched`, `postprocess` | `BuildTree`, `AddToDynamicTree`, `ExtractCandidate`, `AddToPostprocess`, `ExtractPostprocess` | `BuildTree` on the Tcl thread, the rest on the network thread | `TriggerTree` |
| Steps of time: `mental_fsm.cpp` | `current_time`, `max_time_step`, three sample rates | `RunToTime`, `StepToTime`, `TouchTimeTriggers`, `ScaleRemoteTime`, the setters | network thread; rates also from Tcl | `MentalFsm` |
| Virtual triggers: `virt_trigger.cpp` | values | `BindTo`, `SetOutput` | network thread | `TriggerTree`, `MentalFsm` |
| Network link: `net_link.cpp` | connection flag, table of virtual triggers | messages of type time, samplerate, trigger; connect, disconnect | network thread pops, control thread connects | `MentalFsm`, `Control` |
| Time trigger: `triggers/time_v1` | a counter with its latches | `ProcessAnchestors` in three modes, three circles, two latches | network thread | `TimeTrigger` |
| Log trigger: `triggers/log_v1` | a threshold automaton | the same | network thread | `LogTrigger` |
| Neuro trigger: `triggers/neuro_v1` | states, unions of states, the current one, their times | `TryState`, `Enter`, `SetState`, processing | network thread | `NeuroTrigger` |
| Pattern trigger: `triggers/pcre_v1` | a bounded queue of symbols, patterns | `push_back`, `pop_front`, the search | network thread | `PcreTrigger` |
| Connection control: `p2vera_control.cpp` | `is_started`, `is_connected` | the connect and disconnect handshake | its own threads, Tcl thread, clients | `Control` |
| Streams, hubs, queues: `p2hub.cpp`, `p2queue.cpp`, `p2stream.cpp` | bounded queues, each with a wake-up pipe; targets | `create_stream`, `send_message`, `receive_message`, `pop_message` | every thread | `P2Vera` |
| P2Vera node: `p2vera.cpp` | registered streams and their descriptors | `register_stream`, `start_network`, `rcv_thread` | Tcl thread, receiving thread | `P2Vera` |
| Discovery: `net_find.cpp`, `net_find_handlers.cpp` | servers known, by id, by address, by stream | link, ping, information and list requests over UDP, review | a server thread and a client thread | `NetFind` |
| Remote servers: `nf_remote_server.cpp`, `nf_bkst_server.cpp` | pings sent, failure counter, reference count | `add_ping_request`, `add_ping_response`, `validate_alive`, counting of units | discovery threads, holders of units | `NetFind` |
| TCP streams: `tcpstream.cpp` | connections, flows, the framing automaton | accept, `add_server`, flow requests, `send_data`, `rcv_thread` | a receiving thread, the client thread of discovery, senders | `TcpFrames`, `TcpStreams` |
| Network trainer: `fann_train/` | options, training sets, network, project file with its history | the interactive commands `fann`, `data`, `project` | one thread; the files stay when it ends | `TrainData`, `TrainProject` |
| Plug-in loader, output and helpers, FANN headers, manual tests | none of the system's | | | not modelled, see below |

What is hard here: the tables of the machine are shared by two threads without a
lock; the two flags must agree with the queues they stand for; `BuildTree` is a
relaxation that a script may run again over what the first run left behind;
messages set a trigger while others already wait; two clocks run at different
rates; every trigger is an automaton that is asked at irregular instants.  In
P2Vera: datagrams are lost and reordered, peers are dropped on timeouts while
another thread holds them, two locks are taken in opposite orders, queues and
pipes fill up, frames split anywhere.  In the trainer: data, options, network
and files change in any order, a project outlives the session, and a file is
emptied before it is written, which may then fail.
`PROJECT.json` lists each hazard at its line and the properties that cover it,
or why none does.

What makes each part correct, in a sentence: the tree puts what depends below
what it depends on and neither loses nor repeats a wake-up; a step of time
processes a trigger once, after its inputs, and time moves only when the step is
over; a counter completes no count up early and an automaton keeps its times; a hub
offers every message to every reader once and in one order, and wakes it;
discovery counts its references exactly and forgets a program that ended; frames
leave whole and in the order they came in; both ends of a connection mean the
same by a number; no two threads wait for each other but in the ways named; one
client is served; training reads rows of the network's shape, and what was
committed stays until a write of the file fails.

## Modules

The machine:

* `TriggerTree` - registry, bindings, tree and queues as an *open system*.  The
  actions `Load`, `Bind`, `BuildStart`, `ProcessOneTrigger`, `BuildFinish`,
  `AddToDynamicTree`, `AddToPostprocess`, `ExtractCandidate` and
  `ExtractPostprocess` are the operations of `CTriggerTree`, `CBaseTrigger` and
  the Tcl commands; `TreeSpec` lets any caller use them in any order, so what
  holds of it the rest of the program may rely on.
* `MentalFsm` - the same tree with its real callers: the Tcl thread
  (`TclTable`, `TclBuild`, the `Set...Samplerate` actions) and the network
  thread (`SetOutput`, `ReceiveTime`, the loops that wake triggers, the drain of
  the layers, the dumps, `NextStep` and `LastStep`).  `net` is the program
  counter of the network thread.  It is built from the actions of `TriggerTree`,
  and what is proved of `TreeSpec` is used of it.
* `TimeTrigger`, `LogTrigger`, `NeuroTrigger`, `PcreTrigger` - what processing
  does *inside* a trigger of each kind, which `MentalFsm` leaves open.  An action
  is one call of `ProcessAnchestors`, with the input it reads and the instant it
  runs at.  `Triggers` puts one of each side by side.

P2Vera:

* `OrderedBroadcast` - what a stream promises its readers: one sequence of
  messages per hub, each later message offered once to every reader that joined,
  in order, and lost only to a full box.
* `P2Vera` - nodes that share a stream: clients with their queues and pipes,
  hubs with their mutex, the receiving thread with its snapshot of descriptors,
  datagrams between the hubs.  It implements `OrderedBroadcast`
  (`INSTANCE ... WITH`: the log of a hub, the queues that joined, and for each the
  part of the log no thread still has to put into it).
* `NetFind` - discovery in one node: its two threads, the objects of
  `RemoteNfServer` with their reference counts, the table with its indices, and
  programs at other addresses that start, end and come back under another id.
* `TcpFrames` - one direction of a connection, byte by byte: `send_data` with
  its escapes, the socket, `process_buffer`.
* `TcpStreams` - connections between nodes in whole frames: both sides'
  `add_server` and accept, flow requests and their race, sending over a hub,
  closing, and the mutexes of three threads of a node.
* `Control` - the control threads of the machine, the connecting half of
  `CNetLink` with its threads, and clients as in
  `p2vera/source/tests/test_msgclient.cpp`.

The trainer:

* `TrainData` - options, training sets and network under `fann` and `data`.
* `TrainProject` - extends it by the project file, its history and the commands
  `project`; `Write` truncates a file and may write it in part (`Rests`);
  `Restart` ends the program and keeps the files.

`MC...` modules instantiate these for TLC; `MCTriggers` loads one of the four
kinds of trigger, `MCTcp` the two halves of TCP, and a behaviour is about one of them.
`TriggerTreeProofs`, `MentalFsmProofs`, `P2VeraProofs`, `NetFindProofs`,
`ControlProofs` and `TrainProjectProofs` hold the theorems about the modules they
are named for, the last one those about `TrainData` too; `TriggerProofs` those
about the four kinds of trigger, `TcpProofs` those about `TcpStreams` and
`TcpFrames`.

### State and code

*Tree.*  `lookup_tree[d]` is the queue of layer `d`; before the first build it
has no layer.  `deps[t]` holds `[trigger, offs]` of the dependents, where `offs`
is the number of the dependent's *input*; `anchs[t][i]` holds the source and
*output* number of input `i`.  `live` are the triggers not deleted; `loaded` are
all leaves, which are never freed.  `built`, `done` and `stale` are history:
whether `BuildTree` saw all of `deps`, what was processed in this step, and which
inputs changed after their trigger was last processed.

*Triggers.*  `TimeTrigger` keeps the members of `CTimeTrigger`; `since` is
history, the instant the count was armed or last completed.  The constructor
hides two members behind locals and sets none of the three times, so these start
with any of `HeapTimes`.  `PcreTrigger` keeps the array of symbols with its
terminating zero, which `push_back` writes and `pop_front` does not; `inputs` is
history.  In `NeuroTrigger` the network may propose any state.

*P2Vera.*  `qq` and `pipe` are the two halves of a `P2VeraStreamQq`, changed under
different locks and in different order; `pc`, `msg` and `todo` say where a thread
is in `send_message` or `_insert_message`: it walks all queues of the hub in order,
passes over those that only write (`Skip`), and fills and wakes the others.  In
`NetFind`, `obj` are the objects
in memory, `byId`, `bySockaddr` and `endpoints` the ways to find one; `unit` and
`fresh` are the two pointers the server thread holds outside the lock; `waiting`
are the entries of `pings_sent`, `late` those of them past the timeout.  In `TcpStreams` a connection is named by who connected and for which
object; `flows` stands for `hub_to_flow` and its inverse; the `pc` of the client
thread, the reader and the writer says which mutexes they hold.

*Control.*  `pc[i]` is the place of a control thread in `handle_network`; `fd[i]`
is the descriptor the link thread polls, `link` the stream it pops from.

*Trainer.*  `opts`, `entries`, `ann` and `project` are the globals of the
program, `nets` and `disk` the files.  Of a set of values the widths of its rows
are kept.  `why` is history: what happened that lets rows and network disagree.

### Abstractions

Each is wider than the code unless it says otherwise.

* *Values.* In `MentalFsm` what a time, pcre or neuro trigger computes is left
  open: processing one may change any subset of its outputs (`Changeable`).
  Virtual and log triggers change none there.
* *Order of relaxation.* `BuildTree` takes `to_process` in queue order; the model
  takes any waiting leaf, and a leaf that waits twice waits once.
* *Messages.* A message may carry several parts; they are taken one by one.
* *Names.* A name is loaded once.  A name loaded twice leaves two leaves
  (`mental_fsm.cpp:92`); this is narrower than the code.
* *Dumps.* Which triggers are dumped (`Dumped`) does not change during a run.
* *Patterns* are words over the codes, not regular expressions (narrower).
* *Inputs of triggers* are classes: below, within or above the thresholds.
* *P2Vera.* Nodes become targets of each other at any time; which datagrams a
  loss takes is open.  A stream is registered before the network starts, as
  `register_stream` demands.
* *NetFind.* A `sendto` that fails is a lost datagram.  The node does not
  discover itself.  `MAX_PING_QQ_SIZE` is not reached: the list of pings is
  bounded by `PingIds`.  Alternate addresses are left out.  Time is the action
  `Expire`: a ping may become late at any moment.
* *TcpFrames.* A byte is a byte, but the messages are few.  The two bytes where a
  CRC should stand are zero, as in the code.
* *TcpStreams.* Two threads that send over one connection at once take turns by
  frames (narrower: a blocking `send` may be interleaved by the kernel).
* *Control.* A message reaches any subset of who listens, at once; reordering on
  the way is the business of `P2Vera`.  The echo of the machine's own replies is
  dropped, as its control thread drops it.
* *Trainer.* A command that is refused changes nothing and is left out.  One that
  fails as it writes is not: the project file has been emptied and holds a part
  that can be read, without history, or nothing that can (`Rests`); the end of the
  program between the two is such a write and a `Restart`.  A file that cannot be
  opened for writing stays as it is, which is no step.  A network whose file could
  not be written is none.  Layers, hidden neurons, epochs and report periods do not
  decide what may be done next and are left out, as is `project path`.

### Ends of the process

`exit()` and undefined behaviour are terminal values of `status`, or of `exited`.
In the tree and the machine: `exit4`, `no_layer` (index past `lookup_tree`),
`null_input` (an entry of `anchs` never bound), `freed_input` and `double_free`
(a trigger that `BuildTree` deleted), `fpe` (division by a zero rate).  The Tcl
thread and the network thread share every table without a lock; any overlap of a
table command with a message is a data race and ends the behaviour with `race`,
as does in `P2Vera` a stream created while its hub is walked.  In `NetFind`
`freed` is the use of a server that the other thread let go.  The rates are
single integers and are allowed to change in the middle of a step.

## Runs

| Run | Instance | Shows |
|---|---|---|
| `tree` (`MCTriggerTree.cfg`) | four triggers of four kinds, five commands, up to three builds | types; flags and queues agree and dependents lie deeper while the script builds once; every registered trigger has a layer after any build; dumps are neither lost nor doubled; `BuildTree` ends |
| `machine` (`MCMentalFsm.cfg`) | the same triggers with the network thread, up to two builds, two samples per message and one per step | once per step, no lost wake-up, complete steps, no leap, and `RunToTime` returns |
| `triggers` (`MCTriggers.cfg`) | a time trigger in every setup, a log trigger with every set of reports, four neuro states in two unions, three patterns over two codes | a counter completes no count up early, alone or in turn with counts down; the log trigger remembers the right event; no neuro state or union is left before its minimum or outstayed but where another limit overrules it; a pattern is found once, with the symbol that completes it |
| `nodes` (`MCP2Vera.cfg`) | two nodes, a client that reads and writes, one that reads, one that writes; queues of two messages, pipes of two bytes | `OrderedBroadcast` is implemented; no message without a byte that wakes its reader; no echo; readers are served unless the hub is jammed by a full pipe |
| `netfind` (`MCNetFind.cfg`) | two programs at one address, one after the other, memory for two objects, two datagrams on their way | reference counts are exact with both threads at work; every index leads to a known server; a program that ended is forgotten for good |
| `tcp` (`MCTcp.cfg`) | four messages with every kind of byte, a socket of twelve bytes and a buffer of six; two nodes, two streams, one frame per socket | frames whole and in order; the receiver exits only behind a frame cut or too long; both ends mean the same stream; no hub keeps a closed connection; what was sent is read but for three named jams |
| `control` (`MCControl.cfg`) | two clients, of which one may repeat, one or two control threads, three attempts | one control thread serves one client; data that arrived is handled, also with two threads and two queues |
| `trainer` (`MCTrainer.cfg`) | two sets, two data files (one empty), one network file, two project files, up to seven commands on the data or nine on the history | training meets rows of another shape only for a named reason; the history is a tree; no command changes a commit or loses one, but for a write that is cut short and loses all of them |
| `rebuild` | violation of `TouchedIffQueued` | a second `build_tree` drops the queues and keeps the flags |
| `output_lost` | violation of `OutputWakesDependents` | `SetOutput` compares an input number with an output number |
| `time_goes_back` | violation of `TimeNeverGoesBack` | a time in remote samples is compared with a clock in local samples |
| `lost_pings` (`LostPings.cfg`) | violation of `LossesPerReview` | a ping that was lost is counted again in every review |

### Bounds

*Tree and machine.*  Four triggers are what a diamond with paths of different
length below a root needs, plus a leaf that only a long path reaches; every
subset of the commands is given in every order, so each child is also tried as
one no root reaches.  The commands have no cycle below a root: with one
`BuildTree` does not return, and `BuildEnds` would be false.  `MaxBuilds`: one
build is the plain use of the command; with two, a late binding is deleted
although its source lives, and the network thread meets the freed trigger; with
three, `BuildTree` itself reads one.  `MaxTime` is 1 remote sample, which is two
local ones and two steps at the rates the run sets; the default rates (1 and 10)
give steps of length zero, which the run also has.

*Triggers.*  `MaxNow` is 6 with periods of 2 and 3, so a count up, a count down
and a start of the next cycle fit with instants that come late in between.  Two
unions with different limits and one state with limits of its own make every
pair of limits that can overrule one another.  A queue of three symbols is full,
overflows, and is trimmed in the middle; one pattern is longer than it.

*Nodes.*  A queue and a pipe of two with three messages make both overflow; the
jam of a full pipe needs a byte more than a reader takes, which two allow.  The
order in which node B is set up is fixed, that of node A open.

*NetFind.*  One failure is allowed instead of `MAX_FAILURE_COUNT` 10: the counter
is compared with the bound in one place only.  One address for two programs makes
the newcomer meet the entry of the one before it; two objects let memory be used
again.  Two datagrams at once are what an overtaking needs.  A scan of an address
and a request for the list of servers find the network empty (`MCBound`).

*TCP.*  A socket of twelve bytes takes one frame of any message and a part of the
next.  One object per server suffices for a connection and its counterpart from
the other side; a wire of one frame fills at once, which makes senders wait; two
messages are written, the second where one connection is left.  Only node B ends.

*Control.*  Three attempts let a client fail twice and be granted after that, one
more client is enough to be denied, two control threads to grant twice.

*Trainer.*  Seven commands add two sets, resize, merge, train, save and load in
any order; nine make three commits over two files with reverts between them, and
any of the writes may be cut short.

`CHECK_DEADLOCK FALSE` stands in every configuration: a process that has ended,
or a behaviour at a bound, takes no step, and threads that wait for each other
are found by the liveness properties instead.

### Fairness

Weak fairness is asked of threads of the program, inside what they do, and never
of users, clients, messages or the network.

* `TreeLiveSpec` asks it of the steps inside `BuildTree`, `LiveSpec` of those and
  of the steps of the network thread inside a message: nothing in these calls
  waits for another thread.  `TimeReached` excepts a step of zero samples, for
  which the loop of `RunToTime` does not end.
* `P2Vera`: of every thread that delivers and of every reader, since both loop
  for ever.  `ReadersServed` excepts `Jammed`, a writer that waits for room in a
  pipe with the hub locked, whose reader wants that lock or is the writer itself.
* `NetFind`: of the loop of the client thread, of time (a ping not answered
  becomes late) and of the list server, which runs this same code, when it
  forgets a program that ended.  A newcomer may use the address.  Nothing is
  asked of the network.
* `TcpStreams`: of the three threads of a node and of accept.  `FramesRead`
  excepts for ever being `Silent` (in `recv` for a server that says nothing, with
  the TCP manager locked), `Crossed` (the client thread holds discovery and wants
  the TCP manager, the reader the other way round) or `Full` (in `send` with
  discovery or a hub locked).  All three happen in the run.
* `Control`: of the control threads and of the threads of the link.

Every property of a passing run has a mutant in `PROJECT.json`: a plausible slip
in one mapped definition that the property catches.

## Proofs

For all values of the constants that satisfy the named assumptions (the kinds
and sizes of triggers, the shape of commands, naturals for rates and times,
`CallerAssumption`: the reasons for which the callers end the process are among
`CallerStops`; finite sets of objects, ping numbers and control threads, naturals
for the limits of attempts and failures):

* `TriggerTreeProofs`: `TreeSpec => []TreeInv`, and from it `TreeTypeOK`,
  `FirstBuildQueues`, `FirstBuildOrder`, `EveryLeafHasLayer` and
  `PostprocessIffQueued`.
* `MentalFsmProofs`: `Spec => []FsmInv`, and from it
  `TypeOK`, `OncePerStep`, `WakeNotLost`, `StepComplete` and `NoLeap`.
* `TriggerProofs`: `LogSpec => []EventMatchesMove`, for any number of crossings;
  `TimeSpec => CyclesFull`, for any periods and any `HeapTimes`; `LimitsOrdered =>
  (NeuroSpec => KeepsTimes)`, for any states, unions and limits.  `LimitsOrdered`
  says that no minimum exceeds its maximum, which the loader does not enforce.
  `CodesShown => (PcreSpec => []FoundOnceAtOnce)`, for any patterns, codes and
  length of the queue.  `CodesShown` says that no code is the zero that ends a
  string: `pcre_trigger.cpp:77` takes the first character of an entry, which an
  empty entry would make a zero.  `TriggersSpec => []TriggersTypeOK` needs neither.
* `P2VeraProofs`: `Spec => []NodesInv`, and from it `NodesTypeOK`,
  `WakeUpForEveryMessage` and `NoEcho`; `Spec => BroadcastSpec`, the refinement of
  `OrderedBroadcast`.  For any number of nodes,
  clients and messages, queues and pipes of any size with a pipe no smaller than
  a queue, and whatever the network loses.
* `NetFindProofs`: `Spec => []NetFindInv`, and from it `NetFindTypeOK`,
  `RefsExact` and `TablesAgree`, for any number of programs, addresses, objects
  and datagrams.
* `TcpProofs`: `StreamsSpec => []StreamsInv`, and from it `StreamsTypeOK`,
  `NoCrossTalk` and `HubsKnowFlows`, for any number of nodes, streams, objects and
  messages, and sockets of any size.  `FramesSpec => []FramesInv`, and from it
  `FramesWhole` and `ExitExplained`, for any messages of bytes, however long, any
  number of them, and a socket and a buffer of any size.
* `ControlProofs`: `Spec => []ControlInv`, and from it `ControlTypeOK` and
  `OneClientServed`, for any number of clients, attempts and control threads.
* `TrainProjectProofs`: `TrainerSpec => []ProjectInv`, and from it `HistoryIsTree`
  and `CommitsKept`, for any number of files, sets, commits and sessions;
  `TrainerSpec => []TrainerInv`, and from it `TrainerTypeOK` and
  `MisfitExplained`, for any names, rows and sizes besides.  That
  no user names a commit by the absence of a parent is the part of
  `ProjectAssumption` it needs.

The argument for the tree.  `FirstBuildOrder` says nothing while `BuildTree`
runs, so it is not inductive.  `Relaxed` is what the relaxation keeps: a leaf
that does not wait lies above all its dependents, a root's dependents have a
positive distance.  When nothing waits, every trigger with a positive distance
has only dependents with a greater one, so what `BuildFinish` deletes no live
trigger wakes (`DependentsLive`).  `NoTreeYet` says that there is no queue
before the first build is over, hence no touched trigger (`NothingTouchedYet`),
so replacing the queues loses nothing the first time.  `Layered` ties the
largest distance to the number of layers for any number of builds.

The argument for the machine.  Its steps are operations of the tree or leave the
tree alone (`NextRefines`), so `TreeInv` holds of it too.  `StepOrder` generalises `OncePerStep`: whatever
waits is not yet processed and lies at least as deep as all that is, and
whatever is about to be woken lies deeper.  It holds when a trigger is taken
from the first non-empty layer, and its dependents lie deeper by
`FirstBuildOrder`.  `TimeTriggersSeen` and `NothingLost` follow a wake-up from
the loop that gives it to the queue; `ThreadsApart` keeps the network thread
between messages while `BuildTree` runs.

The argument for the log trigger.  `Moved` says that once there was a crossing,
where the input is and where it came from are two different levels, and
`EventOfMove` reads the event off those two, whatever the latch then does with it.

The argument for the time trigger.  Only arming and completing set the instant
that is due, and while it counts up both have set it to `since + UpTime`
(`CountInv`), so a count that completes because that instant has come is full.  The
end of a count up in turn with counts down leaves another time there, which the end
of the count down replaces before it is read.

The argument for the neuro trigger.  The union the trigger remembers is that of
its state, and the two entry times agree with the history (`NeuroInv`).  So the
limits are tested against the true times, and whatever leaves before a minimum goes
where a limit sends it (`NextStateTimes`).

The argument for the pattern trigger.  `FoundOnceAtOnce` is inductive but for what
is in the buffer behind the zero, and for why a trim never takes a part: no pattern
ends inside what is left from before, so the one that ends first ends at the new
symbol, and everything up to it goes (`InputKeeps`).  So the buffer holds what
came after the last find, or as much of it as fits, and never what a trim left
behind its zero (`TextIsRecent`).

The argument for the nodes.  `WakeUpForEveryMessage` counts, per queue, the bytes
in the pipe, on their way and just taken.  `OneComes`: at most one byte is on its
way, since whoever brings one walks the hub of the queue and so holds its mutex
(`WalkInv`).  So a message enters a queue together with the promise of one byte,
and a reader gives up a byte before it takes a message.  `NoEcho` is the last of
four facts about where a message is (`FreshInv`): a client has a new one alone
until it lets go of the mutex; then every other hub gets it as a datagram, in the
hands of its receiving thread, or in its log, and never in two of these, because a
hub is not its own target and sends on only what its clients wrote.

The argument for the broadcast.  A reader was offered the log of its hub less what
some thread still owes it (`Owes`), which is at most one message, and that the
last (`OwesOne`, `LastLogged`).  `CreateStream` of a reader is then a `Join`, `Lock`
a `Publish`, since nobody owes anything while the mutex is free, `Insert` an
`Offer`, since a queue stands once in the list of its hub (`HubsOwn`), and `Pop` a
`Take`.  Every other step leaves what is owed as it is (`Unseen`).

The argument for discovery.  `RefsExact` and `TablesAgree` need each other: a count
is a sum over what leads to an object, so an object in free memory is one that
nothing leads to, and a newcomer that takes it changes no other count
(`DiscoverKeeps`, `ListKeeps`); a dropped server is in the table, so a review takes
exactly the units of its endpoint and its entry, and the object lives on only if
the server thread holds it (`ReviewKeeps`).  That a table finds a server under its
own id makes the entries differ (`KnownServer`).  `Datagrams`: whoever asks has an
id.  Nothing is needed of `fresh`, the pointer without a unit, and nothing is
claimed of it.

The argument for TCP streams.  `NoCrossTalk` speaks of frames only, so it is not
inductive: `NumbersOK` says of all a connection carries, in the maps of either end
or in a frame on its way, that a number stands for one stream and was given out by
the connecting end.  Only `AddHub` carries a new pair, with the next number; what an
end sends it holds, and what it learns was on its way (`SentFlowKeeps`,
`FlowRqKeeps`).  `HubsKnowFlows` needs that a thread works on connections of its own
node (`ThreadsOK`); a flow that is about to be requested may have gone with its
connection, and then nobody is told (`Requested`).

The argument for the frames.  `FramesWhole` compares the two ends of a socket, so
`FramesInv` says what is between them: there is a sequence of all bytes ever sent
and a place in it where each frame starts (`Sent`), and the socket holds the rest of
it from where the decoder is (`Unread`), which follows from what it has stored
(`ReadSoFar`).  A read moves that place by one and a send lengthens the sequence;
what the next byte can be then follows from the frame (`NextByte`): the byte that is
due, or the start of another frame where one was cut, and that the decoder takes for
an error wherever it is, because no coded byte is a start (`CodedIs`).  `CodingIs`
is about the coding itself: where in a frame each byte of a message begins, for a
message of any length.  `FlattenSeq` is a recursive function over a sequence; it
has the value its recursion says up to each length, or else up to no length from a
least one on (`LeastIs`, from the well-foundedness of the naturals), and there the
recursion gives it one (`FlattenParts`).  The same way serves the folds of the
trainer.

The argument for control.  `OneClientServed` counts, so it is proved from
`ServedOnce`: while there is one control thread, no grant is out before
`is_connected` is set but the one in its hands (`pc[i] = "granted"`), and all grants
are equal.  `InHand` ties what a thread works on to its queue being joined,
`LinkKnown` gives the threads of the link a stream, `GrantsTold` follows a grant
from the queue of a client to the data it sends, `StillTrying` leaves a client
that asks an attempt.

The argument for the project.  `Tree` says of a file what `HistoryIsTree` asks, and
that children are commits too; only a commit lengthens a history, with an id that
is new while the names of the others are in turn (`InTurn`), and it enters itself
as a child of the current commit alone (`CommittedOK`).  A commit out of turn ends
the premise for that file until a write of it fails.  What such a write leaves has
no history at all (`RestsOK`), which is a tree and all that `CommitsKept` lets go;
that it saves no more than the whole write would have is `RestsSaved`.

The argument for the sets of the trainer.  `MisfitExplained` asks for a reason that
was told, and reasons are never taken back, so it is enough that whatever a command
brings together fits: every set in memory has rows of its own width or there is a
reason (`MemoryOK`), and what is saved in a project fits the sizes saved with it
(`FilesOK`), whatever session wrote it.  Merging takes the rows of its sources
(`FlattenIs`), dropping some of them (`DroppedIs`), so no row of another width
appears.

Only model-checked: the liveness properties, since fairness and `ENABLED` are out of
the prover's reach (`BuildEnds`, `TimeReached`, `ReadersServed`, `ForgottenForGood`,
`FramesRead`, `DataHandled`).  Every invariant and every action property that a passing
run checks is a theorem.  The safety properties of the tree that carry `builds <= 1` are
false with a second build; `rebuild` shows one counterexample.

## Findings

With a run:

1. *Rebuild.* `trigger_tree.cpp:55` replaces the queues; `base_trigger.h:85` says
   the flag `touched` means "already in the dynamic tree".  After a second build
   a touched trigger is never queued again.
2. *Crossed outputs.* `virt_trigger.cpp:135` compares the input number of the
   dependent with the number of the output set; a binding with different numbers
   never wakes its dependent, against the comment at `virt_trigger.cpp:139`.
3. *Clock goes back.* `net_link.cpp:117` compares before scaling; the message at
   `net_link.cpp:118` states the check that was meant.
4. *Lost pings.* `nf_remote_server.cpp:164` erases the empty range, so a ping that
   timed out counts again in every review, where the comment at
   `nf_remote_server.cpp:153` speaks of losses per unit of time.  A server that
   answers is dropped after enough reviews.

Seen while modelling, without a run:

* `neuro_state.cpp:237` loads the table that codes next states by outputs, and
  nothing reads it: the number of the greatest output is taken for the state.
* Two nodes that discover each other make two connections (`tcpstream.cpp:534`
  compares servers, and an accepted connection has none yet), and each message
  travels over both.
* A granted disconnect leaves `is_connected` set (`p2vera_control.cpp:77`) and the
  link enabled: no later client is served.  `is_started` is never set
  (`p2vera_control.cpp:34`).
* An automatic commit takes the name `auto:n` without looking whether a user gave
  it before (`fann_train/project_handlers.cpp:350`), although
  `fann_train/cfg_serialize.proto:66` asks for unique names; `HistoryIsTree` says so in its
  premise.
* The end of a count down sets `time_uptrig` (`time_trigger.cpp:430`), which a count
  down does not read: in mode down a second count ends as soon as it begins, and in
  mode updown the first ends by what the heap held.  `CyclesFull` speaks of counts
  up.
* `save`, `commit` and `revert` truncate the project file and then write it
  (`fann_train/project_handlers.cpp:158`, `373`, `418`): a write that fails, or the
  end of the program in between, loses the whole history.  A save that finds the old
  file unreadable also goes on without it (`:154`).
* A commit keeps what was last saved, not what is in memory.  Loading a project
  does not restore the file names of its sets, so a reload empties them.
  Validation looks at the first row of a set only.  Loading a project without a
  network keeps the one in memory, of whatever sizes; `fann_opts.trained` is not
  reset.  `saveas` over another project keeps that project's history.

## Not modelled

* *Plug-in loader* (`trigger_loader.cpp`): `dlopen` glue around copies of
  `base_trigger.cpp`, which is modelled once.
* *Output, configuration, checksum and encoding helpers*: no state of the system.
* *FANN headers* (`fann_cpp.h`, `fann_train/fann*.h`): vendored.  What training
  and a network compute is the library's.
* *Network link*: the table that finds a virtual trigger by its number, with the
  read before the range check (`net_link.cpp:97`); the commands that only print.
* *Queues*: the reference count, which starts at 1 and never falls to 0, so that
  `unlink_stream` is never reached; `close`, `flush` and `discard`, which do
  nothing.
* *TCP*: `remove_server`, which nothing calls, and the reference count of a
  connection.
* *Trainer*: the batch mode, which does once what the commands do, and `show`,
  `dump` and `list`, which print.
* *Tcl commands* `tree`, `mkdump` and `netlink` only print or switch printing.
* *Registry with a name loaded twice* and *bindings with a cycle*: the first
  leaves a leaf that is freed twice, the second does not terminate.

## Plan

What is left is what the theorems suppose.  `LimitsOrdered` and `CodesShown` are about
the files a trigger is loaded from and are stated as premises, since the loaders check
neither.  `OneClientServed` and the properties with `builds <= 1` carry the case in which
they hold.  Of the liveness properties, the safety halves could be proved: that the
measure each rests on never grows.
