----------------------------- MODULE LogTrigger -----------------------------
(***************************************************************************)
(* CLogTrigger: reports, as text and as feedback over the network, that    *)
(* its input crossed a threshold.  With the combinational latch it repeats *)
(* the last report while the input stays.  Which crossings are reported is *)
(* a matter of the trigger's file: `reports'.                              *)
(***************************************************************************)
EXTENDS Integers

CONSTANT MaxCrossings \* bound: changes of class in a behaviour

ASSUME CrossingsAssumption == MaxCrossings \in Nat

VARIABLES
    latch, reports,  \* from the file of the trigger
    current_state, last_event,
    said,            \* the event of the last report, or "nothing"
    origin,          \* history: the class before the last crossing
    crossings        \* history: their number

logVars == <<latch, reports, current_state, last_event, said, origin, crossings>>

Levels == {"underflow", "inrange", "overflow"}
Level  == [underflow |-> 1, inrange |-> 2, overflow |-> 3]
Events == {"low_underflow", "low_overflow", "high_underflow", "high_overflow"}

LogTypeOK ==
    /\ latch \in {"combinational", "triggered"}
    /\ reports \subseteq Events
    /\ current_state \in Levels \cup {"unknown"}
    /\ last_event \in Events
    /\ said \in Events \cup {"nothing"}
    /\ origin \in Levels \cup {"unknown"}
    /\ crossings \in 0 .. MaxCrossings

\* last_event starts as 0, which is logtrigger_low_underflow.
LogInit ==
    /\ latch \in {"combinational", "triggered"}
    /\ reports \in SUBSET Events
    /\ current_state = "unknown"
    /\ last_event = "low_underflow"
    /\ said = "nothing"
    /\ origin = "unknown"
    /\ crossings = 0

Report(e) == said' = IF e \in reports THEN e ELSE "nothing"

EventIsLevel(old, new) == new
EventMirrored(old, new) ==
    CASE new = "underflow" -> "low_underflow"
      [] new = "overflow"  -> "high_overflow"
      [] new = "inrange"   -> IF Level[old] < Level[new] THEN "high_underflow"
                              ELSE "low_overflow"
EventOf(old, new) ==
    CASE new = "underflow" -> "low_underflow"
      [] new = "overflow"  -> "high_overflow"
      [] new = "inrange"   -> IF Level[old] < Level[new] THEN "low_overflow"
                              ELSE "high_underflow"

LogFirstInput(c) ==
    /\ current_state = "unknown"
    /\ current_state' = c
    /\ said' = "nothing"
    /\ UNCHANGED <<latch, reports, last_event, origin, crossings>>

SameLevel(c) ==
    /\ current_state = c
    /\ \/ latch = "combinational" /\ Report(last_event)
       \/ latch # "combinational" /\ said' = "nothing"
    /\ UNCHANGED <<latch, reports, current_state, last_event, origin, crossings>>

Cross(c) ==
    /\ current_state \notin {c, "unknown"}
    /\ crossings < MaxCrossings
    /\ last_event' = EventOf(current_state, c)
    /\ Report(EventOf(current_state, c))
    /\ current_state' = c
    /\ origin' = current_state
    /\ crossings' = crossings + 1
    /\ UNCHANGED <<latch, reports>>

LogNext == \E c \in Levels : LogFirstInput(c) \/ SameLevel(c) \/ Cross(c)

LogSpec == LogInit /\ [][LogNext]_logVars

----------------------------------------------------------------------------

\* Once the input has crossed a threshold, the event remembered names the last
\* threshold it crossed and the direction: the one next to where it is now, on
\* the side it came from.  Repeats rest on that.
EventMatchesMove ==
    crossings > 0 =>
        /\ last_event \in {"low_underflow", "high_underflow"}
               <=> Level[current_state] < Level[origin]
        /\ last_event \in {"low_underflow", "low_overflow"}
               <=> \/ current_state = "underflow"
                   \/ current_state = "inrange" /\ origin = "underflow"
=============================================================================
