---------------------------- MODULE MCMentalFsm ----------------------------
(***************************************************************************)
(* The same four triggers with the network thread at work on them.         *)
(***************************************************************************)
EXTENDS MentalFsm, TLC

CONSTANTS v, a, n, l

MCTriggers == {v, a, n, l}

MCKind == (v :> "virt") @@ (a :> "time") @@ (n :> "neuro")
          @@ (l :> "log")

MCOuts == (v :> 2) @@ (a :> 1) @@ (n :> 1) @@ (l :> 0)

MCIns == (n :> 2) @@ [t \in {v, a, l} |-> 1]

MCReads == [t \in MCTriggers |-> IF t = v THEN {} ELSE 0 .. MCIns[t] - 1]

Wire(s, o, t, form, i) ==
    [src |-> s, srcForm |-> "out", out |-> o, dst |-> t, dstForm |-> form,
     in |-> i]

\* v feeds a and n, a feeds n, n feeds l.
MCCommands ==
    {Wire(v, 0, a, "in", 0), Wire(v, 1, n, "in", 1), Wire(a, 0, n, "in", 0),
     Wire(n, 0, l, "in", 0)}

\* Output 1 of v feeds input 0 of a.
CrossedCommands == {Wire(v, 1, a, "in", 0)}
=============================================================================
