--------------------------- MODULE MCTriggerTree ---------------------------
(***************************************************************************)
(* A tree of four triggers: a virtual one (the root), a time trigger, a    *)
(* neuro trigger with two inputs and a log trigger.  The commands make a   *)
(* diamond with paths of different length, and a dependent named without   *)
(* an input; every subset of them is given, in every order, so that any    *)
(* child can be one that no root reaches.                                  *)
(***************************************************************************)
EXTENDS TriggerTree, TLC

CONSTANTS v, a, n, l

MCTriggers == {v, a, n, l}

MCKind == (v :> "virt") @@ (a :> "time") @@ (n :> "neuro")
          @@ (l :> "log")

MCOuts == (v :> 2) @@ (a :> 1) @@ (n :> 1) @@ (l :> 0)

MCIns == (n :> 2) @@ [t \in {v, a, l} |-> 1]

Wire(s, o, t, form, i) ==
    [src |-> s, srcForm |-> "out", out |-> o, dst |-> t, dstForm |-> form,
     in |-> i]

MCCommands ==
    {Wire(v, 0, a, "in", 0), Wire(v, 1, n, "in", 1), Wire(a, 0, n, "in", 0),
     Wire(n, 0, l, "in", 0), Wire(v, 0, l, "none", -1)}
=============================================================================
