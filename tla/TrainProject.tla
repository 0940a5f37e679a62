---------------------------- MODULE TrainProject ----------------------------
(***************************************************************************)
(* The project of fann_train: its file, which holds the options, the       *)
(* training data and the history, and the commands `project'.  What a      *)
(* commit keeps is read from the file, and save keeps the history it finds *)
(* there.  A command that writes empties the file first, and may fail or   *)
(* end before all of it is written anew.  The program may end at any       *)
(* command; the files stay.                                                *)
(*                                                                         *)
(* Automatic commits are named by their number: "auto:1" is 1.  Paths are  *)
(* resolved: a name is a file (`project path' is left out).                *)
(***************************************************************************)
EXTENDS TrainData

CONSTANTS
    ProjectFiles,
    UserIds,     \* names the user gives to commits, also automatic ones
    MaxCommits   \* bound: commits in a file

\* The absence of a parent is no name.
ASSUME ProjectAssumption ==
    MaxCommits \in Nat /\ "" \notin ProjectFiles /\ -1 \notin UserIds

VARIABLES
    project,     \* project_info: the file name, and whether it is present
    disk,        \* the project files: [present, opts, entries, history, current]
    failed       \* history: the files whose last write was cut short

trainVars == <<dataVars, project, disk, failed>>

Ids == UserIds \cup 0 .. MaxCommits
NoParent == -1

NoProject == [present |-> FALSE, size |-> NoOptions.size, net |-> "",
              entries |-> <<>>, history |-> <<>>, current |-> NoParent]

\* Both kinds of state are of the types of TrainData; the ids in a history
\* are those of its commits.
TrainerTypeOK ==
    /\ DataTypeOK
    /\ project \in [named : BOOLEAN, file : ProjectFiles \cup {""}]
    /\ failed \subseteq ProjectFiles
    /\ \A f \in ProjectFiles :
           /\ disk[f].size \in Sizes /\ disk[f].net \in NetFiles \cup {""}
           /\ \A h \in ToSet(disk[f].history) :
                  h.id \in Ids /\ h.parent \in Ids \cup {NoParent} /\ ToSet(h.children) \subseteq Ids
           /\ disk[f].current \in {h.id : h \in ToSet(disk[f].history)} \cup {NoParent}

TrainerInit ==
    /\ DataInit
    /\ project = [named |-> FALSE, file |-> ""]
    /\ disk = [f \in ProjectFiles |-> NoProject]
    /\ failed = {}

-----------------------------------------------------------------------------
\* serialize_project, and the history that save_project takes over.
PackedAlone(old) == [present |-> TRUE, size |-> opts.size, net |-> opts.file,
                     entries |-> entries, history |-> <<>>, current |-> NoParent]
PackedCurrent(old) == [PackedAlone(old) EXCEPT !.current = old.current]
Packed(old) == [present |-> TRUE, size |-> opts.size, net |-> opts.file,
                entries |-> entries, history |-> old.history, current |-> old.current]

\* What a write that is cut short leaves.  The fields go out in the order of the
\* format: the name, the options, the sets one by one, the history last and whole.
\* A file cut inside a field is not read, nor is one without options; for every
\* command it is as good as none.
Cut(p, k) == [p EXCEPT !.entries = SubSeq(@, 1, k), !.history = <<>>, !.current = NoParent]
Rests(p) == ({NoProject} \cup {Cut(p, k) : k \in 0 .. Len(p.entries)}) \ {p}

\* The file is truncated, then written.  A save that cannot read the old file goes
\* on without its history, which is the last of the cuts.
Write(f, p) ==
    \/ disk' = [disk EXCEPT ![f] = p] /\ failed' = failed \ {f}
    \/ \E rest \in Rests(p) :
           disk' = [disk EXCEPT ![f] = rest] /\ failed' = failed \cup {f}

\* unpack_project: the file names of the sets are not read back, the network is
\* loaded if it has a name, and otherwise the one in memory stays.
Unpacked(es) ==
    [i \in DOMAIN es |-> [es[i] EXCEPT !.input.file = "", !.output.file = ""]]

Trained(p) == p.net # "" /\ nets[p.net] # NoNet

Unpack(p) ==
    LET net == IF p.net = "" THEN ann ELSE nets[p.net]
    IN  /\ opts' = [size |-> p.size, file |-> p.net, trained |-> Trained(p)]
        /\ entries' = Unpacked(p.entries)
        /\ ann' = net
        /\ why' = why \cup IF net \notin {NoNet, p.size} THEN {"foreign"} ELSE {}
        /\ UNCHANGED <<nets, unfit>>

\* project name: the name counts as the name of a file.
NameProject ==
    /\ project' = [project EXCEPT !.named = TRUE]
    /\ UNCHANGED <<dataVars, disk, failed>>

SaveAs(f) ==
    /\ project' = [named |-> TRUE, file |-> f]
    /\ UNCHANGED <<dataVars, disk, failed>>

Save ==
    /\ project.named /\ project.file # ""
    /\ Write(project.file, Packed(disk[project.file]))
    /\ UNCHANGED <<dataVars, project>>

Load(f) ==
    /\ disk[f].present
    /\ project' = [named |-> TRUE, file |-> f]
    /\ Unpack(disk[f])
    /\ UNCHANGED <<disk, failed>>

HasFile == project.named /\ project.file # "" /\ disk[project.file].present

\* project_find_commit: the first of that name.
Found(history, id) == {i \in DOMAIN history : history[i].id = id}
First(history, id) == Min(Found(history, id))

\* project_commit, to the project as the file has it: the current commit becomes
\* the parent of the new one, which becomes the current one.
NewCommit(p, id) == [id |-> id, size |-> p.size, net |-> p.net, entries |-> p.entries,
                     parent |-> p.current, children |-> <<>>]
WithChild(history, i, id) == [history EXCEPT ![i].children = Append(@, id)]

CommittedBesideLast(p, id) ==
    LET old == IF p.history = <<>> THEN <<>> ELSE WithChild(p.history, Len(p.history), id)
    IN  [p EXCEPT !.history = Append(old, NewCommit(p, id)), !.current = id]
Committed(p, id) ==
    LET old == IF Found(p.history, p.current) = {} THEN p.history
               ELSE WithChild(p.history, First(p.history, p.current), id)
    IN  [p EXCEPT !.history = Append(old, NewCommit(p, id)), !.current = id]

Commit(id) ==
    /\ HasFile
    /\ LET p == disk[project.file]
       IN  /\ Len(p.history) < MaxCommits
           /\ \/ id \in UserIds /\ Found(p.history, id) = {}
              \/ id = Len(p.history)
           /\ Write(project.file, Committed(p, id))
    /\ UNCHANGED <<dataVars, project>>

\* project_revert: the file and the memory go back, the history stays.  If the
\* write is seen to fail the memory does not; that it fails when the file is
\* closed is not seen.
Reverted(p, i) ==
    [p EXCEPT !.size = p.history[i].size, !.net = p.history[i].net,
              !.entries = p.history[i].entries, !.current = p.history[i].id]

Revert(id) ==
    /\ HasFile
    /\ LET p == disk[project.file]
           q == Reverted(p, First(p.history, id))
       IN  /\ Found(p.history, id) # {}
           /\ Write(project.file, q)
           /\ Unpack(q) \/ (project.file \in failed' /\ UNCHANGED dataVars)
    /\ UNCHANGED project

\* The program ends and is started again.
Restart ==
    /\ opts' = NoOptions /\ entries' = <<>> /\ ann' = NoNet
    /\ project' = [named |-> FALSE, file |-> ""]
    /\ UNCHANGED <<nets, unfit, why, disk, failed>>

ProjectCommand ==
    \/ NameProject \/ Save
    \/ \E f \in ProjectFiles : SaveAs(f) \/ Load(f)
    \/ \E id \in Ids : Commit(id) \/ Revert(id)

TrainerNext ==
    \/ (DataCommand \/ FannCommand) /\ UNCHANGED <<project, disk, failed>>
    \/ ProjectCommand
    \/ Restart

TrainerSpec == TrainerInit /\ [][TrainerNext]_trainVars

-----------------------------------------------------------------------------
\* While nobody gives a commit an automatic name out of turn, the history of a
\* file is a tree, whatever was saved over it, loaded and reverted: the ids are
\* distinct, as the format asks (cfg_serialize.proto:66), only the first commit
\* has no parent, every other has an earlier one, which lists it as a child, and
\* the current commit is one of them.
HistoryIsTree ==
    \A f \in ProjectFiles :
        LET h == disk[f].history
        IN  (\A i \in DOMAIN h : h[i].id \in Nat => h[i].id = i - 1) =>
            /\ \A i, j \in DOMAIN h : h[i].id = h[j].id => i = j
            /\ h # <<>> => disk[f].current \in {h[i].id : i \in DOMAIN h}
            /\ \A i \in DOMAIN h : IF i = 1 THEN h[i].parent = NoParent
                                   ELSE h[i].parent \in {h[j].id : j \in 1 .. i - 1}
            /\ \A i, j \in DOMAIN h :
                   h[j].parent = h[i].id <=> h[j].id \in ToSet(h[i].children)

\* No command takes a commit out of a file or changes what it keeps: neither a
\* save, which writes the whole file anew, nor a save over another project, nor
\* a revert to an earlier commit (project_handlers.cpp:139, 419).  Only a write
\* that is cut short takes commits, and then all of the file's.
Kept(c, d) == /\ c.id = d.id /\ c.parent = d.parent /\ c.size = d.size
              /\ c.net = d.net /\ c.entries = d.entries
CommitsKept ==
    [][\A f \in ProjectFiles :
           LET h == disk[f].history
               g == disk'[f].history
           IN  \/ Len(h) <= Len(g) /\ \A i \in DOMAIN h : Kept(h[i], g[i])
               \/ f \in failed' /\ g = <<>>]_trainVars
=============================================================================
