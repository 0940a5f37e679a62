----------------------------- MODULE MCTrainer -----------------------------
(***************************************************************************)
(* Sessions of fann_train.  A behaviour works on the data and the network, *)
(* with a project that is saved and loaded, or on the history of projects, *)
(* with one kind of training set.                                          *)
(***************************************************************************)
EXTENDS TrainProject, TLC

CONSTANTS x, y, values, nothing, net_file, first, second, c, MaxData, MaxHistory

MCContents == (values :> [lines |-> 1, columns |-> 2])
              @@ (nothing :> [lines |-> 0, columns |-> 0])
MCMaxSize == [input |-> 2, output |-> 1]
MCMergeLists == {<<>>, <<x>>, <<x, y>>}
MCUserIds == {c, 1}

VARIABLES scope, commands

MCInit == TrainerInit /\ commands = 0 /\ scope \in {"data", "history"}

OneSet ==
    \/ Add(x, [type |-> "vector", file |-> "", groups |-> 1, rows |-> <<1>>],
              [type |-> "vector", file |-> "", groups |-> 1, rows |-> <<1>>])
    \/ RemoveEntry(x)
    \/ \E side \in Sides : Resize(side, 1) /\ opts.size[side] = 0
    \/ SetNetFile(net_file) \/ Train \/ SaveNet

MCNext ==
    /\ commands' = commands + 1
    /\ UNCHANGED scope
    /\ \/ /\ scope = "data" /\ commands < MaxData
          /\ \/ (DataCommand \/ FannCommand) /\ UNCHANGED <<project, disk, failed>>
             \/ SaveAs(first) \/ Save \/ Load(first) \/ Restart
       \/ /\ scope = "history" /\ commands < MaxHistory
          /\ \/ OneSet /\ UNCHANGED <<project, disk, failed>>
             \/ ProjectCommand
             \/ Restart

MCSpec == MCInit /\ [][MCNext]_<<trainVars, scope, commands>>
=============================================================================
