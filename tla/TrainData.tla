----------------------------- MODULE TrainData -----------------------------
(***************************************************************************)
(* fann_train, the program that makes the networks the neuro triggers      *)
(* load: its options, its training data and its network, as the commands   *)
(* `fann' and `data' of its script change them.  Of a set of values only   *)
(* the width is kept: a set is the sequence of the widths of its rows.     *)
(*                                                                         *)
(* A command that the program refuses changes nothing and is left out; a   *)
(* file may fail to be written.  Layers, hidden neurons, epochs and the    *)
(* report period are set once; the library's own work (training, its       *)
(* error) is not modelled.                                                 *)
(***************************************************************************)
EXTENDS Integers, Sequences, SequencesExt, FiniteSetsExt

CONSTANTS
    Names,       \* names of training sets
    DataFiles,   \* files with values,
    Contents,    \* and for each how many lines and columns it has
    NetFiles,    \* files with networks
    MaxSize,     \* bound: inputs and outputs of the network
    MergeLists,  \* what the user lists in a merge
    MaxEntries,  \* bound: training sets
    MaxRows      \* bound: rows of a merged set

ASSUME TrainDataAssumption ==
    /\ Contents \in [DataFiles -> [lines : Nat, columns : Nat]]
    /\ MaxSize \in [{"input", "output"} -> Nat]
    /\ MergeLists \subseteq Seq(Names)
    /\ {MaxEntries, MaxRows} \subseteq Nat
    /\ "" \notin DataFiles \cup NetFiles

VARIABLES
    opts,        \* fann_opts: sizes, network file, trained
    entries,     \* train_entries
    ann,         \* the sizes of the network in memory, or NoNet
    nets,        \* the networks in the files
    unfit,       \* history: rows that do not fit the network were read,
    why          \* and what happened before that can make it so

dataVars == <<opts, entries, ann, nets, unfit, why>>

Sides == {"input", "output"}
Sizes == [input : 0 .. MaxSize["input"], output : 0 .. MaxSize["output"]]
NoNet == [input |-> -1, output |-> -1]

Io == [type : {"file", "vector", "matrix"}, file : DataFiles \cup {""},
       groups : Nat, rows : Seq(Nat)]

DataTypeOK ==
    /\ opts \in [size : Sizes, file : NetFiles \cup {""}, trained : BOOLEAN]
    /\ entries \in Seq([name : Names, input : Io, output : Io])
    /\ ann \in Sizes \cup {NoNet}
    /\ nets \in [NetFiles -> Sizes \cup {NoNet}]
    /\ unfit \in BOOLEAN
    /\ why \subseteq {"resized", "bare", "foreign"}

NoOptions == [size |-> [s \in Sides |-> 0], file |-> "", trained |-> FALSE]

DataInit ==
    /\ opts = NoOptions
    /\ entries = <<>>
    /\ ann = NoNet
    /\ nets = [f \in NetFiles |-> NoNet]
    /\ unfit = FALSE
    /\ why = {}

-----------------------------------------------------------------------------
\* The sets of training data.

Listed(name) == \E i \in DOMAIN entries : entries[i].name = name
EntryOf(name) == CHOOSE e \in ToSet(entries) : e.name = name

\* The first set of that name goes, if there is one.
Dropped(es, name) == RemoveFirstMatch(es, LAMBDA e : e.name = name)
Without(es, names) == FoldLeft(Dropped, es, names)

Bare(e) == <<>> \in {e.input.rows, e.output.rows}

Put(es) ==
    /\ entries' = es
    /\ why' = why \cup IF \E e \in ToSet(es) : Bare(e) THEN {"bare"} ELSE {}

\* Every line needs as many values as the expression has groups, and the
\* expression as many groups as the network has inputs.  A set from a loaded
\* project has no file name: the directory is opened instead, and has no lines.
Readable(io, n) ==
    io.type = "file" /\ io.file # "" /\ Contents[io.file].lines > 0 =>
        n <= io.groups /\ io.groups <= Contents[io.file].columns

\* What load_input_entry_data leaves, also where it fails at a line.
Reread(io, n) ==
    LET lines == IF io.file = "" \/ ~Readable(io, n) THEN 0 ELSE Contents[io.file].lines
    IN  IF io.type = "file" THEN [io EXCEPT !.rows = [i \in 1 .. lines |-> n]] ELSE io

\* A list of values is as wide as the network; a file is read with the default
\* expression, which has a group for each, or with one of the user's.  The
\* option of an own expression is only ever taken for the input.
FromFile(f, g) == [type |-> "file", file |-> f, groups |-> g, rows |-> <<>>]
ValuesAnyWidth(n) ==
    {[type |-> "vector", file |-> "", groups |-> n, rows |-> <<w>>] : w \in 1 .. n + 1}
Values(n) == {[type |-> "vector", file |-> "", groups |-> n, rows |-> <<n>>]}

Inputs == Values(opts.size["input"])
          \cup {FromFile(f, g) : f \in DataFiles, g \in 1 .. MaxSize["input"]}
Outputs == Values(opts.size["output"])
           \cup {FromFile(f, opts.size["output"]) : f \in DataFiles}

\* data add
Add(name, inp, out) ==
    /\ \A s \in Sides : opts.size[s] > 0
    /\ Len(entries) < MaxEntries /\ ~Listed(name)
    /\ Readable(inp, opts.size["input"]) /\ Readable(out, opts.size["output"])
    /\ Put(Append(entries, [name |-> name, input |-> Reread(inp, opts.size["input"]),
                            output |-> Reread(out, opts.size["output"])]))
    /\ UNCHANGED <<opts, ann, nets, unfit>>

\* data reload: the output is read only if the input was.
Reload(name) ==
    /\ Listed(name)
    /\ LET e == EntryOf(name)
           ok == Readable(e.input, opts.size["input"])
           new == [e EXCEPT !.input = Reread(@, opts.size["input"]),
                            !.output = IF ok THEN Reread(@, opts.size["output"]) ELSE @]
       IN  Put([i \in DOMAIN entries |-> IF entries[i] = e THEN new ELSE entries[i]])
    /\ UNCHANGED <<opts, ann, nets, unfit>>

\* data remove
RemoveEntry(name) ==
    /\ Listed(name)
    /\ Put(Without(entries, <<name>>))
    /\ UNCHANGED <<opts, ann, nets, unfit>>

Matrix(rows) == [type |-> "matrix", file |-> "", groups |-> 0, rows |-> rows]
RowsOf(names, side) ==
    FlattenSeq([i \in DOMAIN names |-> EntryOf(names[i])[side].rows])

\* data merge: a new set with the rows of others; a set of the new name goes,
\* and the merged ones where that was asked for.
Merge(inps, outs, name, removeMerged) ==
    /\ \A n \in ToSet(inps \o outs) : Listed(n)
    /\ LET merged == [name |-> name, input |-> Matrix(RowsOf(inps, "input")),
                      output |-> Matrix(RowsOf(outs, "output"))]
           rest == Without(entries, (IF removeMerged THEN inps \o outs ELSE <<>>)
                                    \o <<name>>)
       IN  /\ Len(merged.input.rows) <= MaxRows /\ Len(merged.output.rows) <= MaxRows
           /\ Len(rest) < MaxEntries
           /\ Put(Append(rest, merged))
    /\ UNCHANGED <<opts, ann, nets, unfit>>

-----------------------------------------------------------------------------
\* The network.

\* fann inputs, fann outputs.
Resize(side, n) ==
    /\ opts' = [opts EXCEPT !.size[side] = n]
    /\ why' = why \cup IF opts.size[side] # n /\ (entries # <<>> \/ ann # NoNet)
                       THEN {"resized"} ELSE {}
    /\ UNCHANGED <<entries, ann, nets, unfit>>

\* fann file
SetNetFile(f) ==
    /\ opts' = [opts EXCEPT !.file = f]
    /\ UNCHANGED <<entries, ann, nets, unfit, why>>

\* validate_fann_opts looks at the first row of each side of each set, in
\* order, and takes the first row of a set that has none.
Checked == FlattenSeq([i \in DOMAIN entries |->
               <<[n |-> opts.size["input"], rows |-> entries[i].input.rows],
                 [n |-> opts.size["output"], rows |-> entries[i].output.rows]>>])
Stops == {i \in DOMAIN Checked : Checked[i].rows = <<>> \/ Head(Checked[i].rows) # Checked[i].n}

Refused ==
    \/ \E s \in Sides : opts.size[s] < 1
    \/ Stops # {} /\ Checked[Min(Stops)].rows # <<>>
ReadsNothing == Stops # {} /\ Checked[Min(Stops)].rows = <<>>

\* Rows of another width than the first, or a network of other sizes.
Misfit ==
    \/ ReadsNothing
    \/ \E c \in ToSet(Checked) : ToSet(c.rows) # {c.n}
    \/ ann \notin {NoNet, opts.size}

\* fann train: a network that exists is trained further, whatever its sizes.
Created == IF ann = NoNet THEN opts.size ELSE ann
Train ==
    /\ ~Refused
    /\ ann' = Created
    /\ opts' = [opts EXCEPT !.trained = TRUE]
    /\ unfit' = (unfit \/ Misfit)
    /\ UNCHANGED <<entries, nets, why>>

\* What is read of a set without rows may also make it refuse.
TrainRefusedByChance ==
    /\ ReadsNothing /\ ~Refused
    /\ unfit' = TRUE
    /\ UNCHANGED <<opts, entries, ann, nets, why>>

\* fann validate: the network is run on all sets.
Validate ==
    /\ ann # NoNet /\ opts.trained /\ ~Refused
    /\ unfit' = (unfit \/ Misfit)
    /\ UNCHANGED <<opts, entries, ann, nets, why>>

\* fann test: it is run on the input of one, unless that is a list of values.
Test(name) ==
    /\ ann # NoNet /\ opts.trained /\ ~Refused /\ Listed(name)
    /\ LET io == EntryOf(name).input
       IN  unfit' = (\/ unfit \/ ReadsNothing
                     \/ /\ io.type # "vector"
                        /\ ToSet(io.rows) # {opts.size["input"]} \/ ann # opts.size)
    /\ UNCHANGED <<opts, entries, ann, nets, why>>

\* fann save: that the library could not write the file goes unnoticed.
SaveNet ==
    /\ ann # NoNet /\ opts.trained /\ opts.file # ""
    /\ \E written \in {ann, NoNet} : nets' = [nets EXCEPT ![opts.file] = written]
    /\ UNCHANGED <<opts, entries, ann, unfit, why>>

DataCommand ==
    \/ \E name \in Names, inp \in Inputs, out \in Outputs : Add(name, inp, out)
    \/ \E name \in Names : Reload(name) \/ RemoveEntry(name)
    \/ \E inps, outs \in MergeLists, name \in Names, rm \in BOOLEAN :
           Merge(inps, outs, name, rm)

FannCommand ==
    \/ \E side \in Sides : \E n \in 0 .. MaxSize[side] : Resize(side, n)
    \/ \E f \in NetFiles : SetNetFile(f)
    \/ Train \/ TrainRefusedByChance \/ Validate \/ SaveNet
    \/ \E name \in Names : Test(name)

-----------------------------------------------------------------------------
\* The network is trained on rows of its own sizes, as validate_fann_opts is
\* there to ensure (fann_handlers.cpp:132), unless the sizes were changed while
\* there were sets or a network, a set was left without rows, or a project was
\* loaded beside a network of other sizes.
MisfitExplained == unfit => why # {}
=============================================================================
