------------------------------ MODULE Triggers ------------------------------
(***************************************************************************)
(* The four kinds of loaded triggers, one of each.  What each does inside  *)
(* concerns no other: they meet only through the tree, as MentalFsm has    *)
(* it.                                                                     *)
(***************************************************************************)
EXTENDS TimeTrigger, LogTrigger, NeuroTrigger, PcreTrigger

TriggersSpec == TimeSpec /\ LogSpec /\ NeuroSpec /\ PcreSpec

\* Every variable of the four triggers keeps its type.
TriggersTypeOK == TimeTypeOK /\ LogTypeOK /\ NeuroTypeOK /\ PcreTypeOK
=============================================================================
