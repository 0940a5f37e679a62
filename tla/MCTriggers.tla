----------------------------- MODULE MCTriggers -----------------------------
(***************************************************************************)
(* The four kinds of loaded triggers.  They meet only through the tree,    *)
(* which MCMentalFsm checks, so a behaviour here loads one of them; the    *)
(* variables of the others stay at Absent.                                 *)
(***************************************************************************)
EXTENDS Triggers, TLC

CONSTANTS s0, s1, s2, s3, u, w, none, a, b

MCStates == {s0, s1, s2, s3}
MCUnions == {u, w}

MCUnionOf == (s0 :> u) @@ (s1 :> u) @@ (s2 :> w) @@ (s3 :> none)

Free == [min |-> 0, minNext |-> s0, max |-> MaxTime + 1, maxNext |-> s0]

\* Both unions have a minimal time and one a maximal; s1 has both of its own.
MCLimits ==
    (s0 :> Free) @@ (s2 :> Free) @@ (s3 :> Free)
    @@ (s1 :> [min |-> 1, minNext |-> s3, max |-> 2, maxNext |-> s2])
    @@ (u :> [min |-> 2, minNext |-> s1, max |-> 3, maxNext |-> s3])
    @@ (w :> [min |-> 1, minNext |-> s2, max |-> MaxTime + 1, maxNext |-> s0])

MCPatterns == {<<b, a>>, <<a, b, b>>, <<b, b, b, b>>}

\* The trigger that is loaded; the others stay in one of their initial states.
VARIABLE loaded

TimeParked == /\ setup = [mode |-> "up", circle |-> "once", latch |-> "triggered",
                          sense |-> "trigup"]
              /\ direction = "up" /\ time_start = 0 /\ time_uptrig = 0
              /\ time_downtrig = 0
LogParked  == latch = "triggered" /\ reports = {}
PcreParked == q = [i \in 0 .. max_size |-> Zero]

MCInit ==
    /\ loaded \in {"time", "log", "neuro", "pcre"}
    /\ TimeInit /\ (loaded = "time" \/ TimeParked)
    /\ LogInit /\ (loaded = "log" \/ LogParked)
    /\ PcreInit /\ (loaded = "pcre" \/ PcreParked)
    /\ NeuroInit

MCNext ==
    /\ UNCHANGED loaded
    /\ \/ loaded = "time" /\ TimeNext /\ UNCHANGED <<logVars, neuroVars, pcreVars>>
       \/ loaded = "log" /\ LogNext /\ UNCHANGED <<timeVars, neuroVars, pcreVars>>
       \/ loaded = "neuro" /\ NeuroNext /\ UNCHANGED <<timeVars, logVars, pcreVars>>
       \/ loaded = "pcre" /\ PcreNext /\ UNCHANGED <<timeVars, logVars, neuroVars>>

MCSpec == MCInit /\ [][MCNext]_<<timeVars, logVars, neuroVars, pcreVars, loaded>>
=============================================================================
