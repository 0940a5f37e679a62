---------------------------- MODULE NeuroTrigger ----------------------------
(***************************************************************************)
(* CNeuroTrigger with its CNeuroState and CNeuroUnion: an automaton whose  *)
(* next state is proposed by a neural network.  The current state and then *)
(* the union it belongs to may send the automaton elsewhere, because it    *)
(* leaves too early or stays too long.  The network is not modelled: it    *)
(* may propose any state.  The proposal is the number of the network's     *)
(* greatest output; the table next_states, which codes states by outputs,  *)
(* is loaded and never read.                                               *)
(***************************************************************************)
EXTENDS Integers

CONSTANTS
    States, Unions,
    Default,     \* the initial state
    Loaded,      \* the state whose constructor ran last
    UnionOf,     \* the union of a state, or NoUnion
    Limits,      \* of states and unions: min, minNext, max, maxNext
    NoUnion,
    MaxTime      \* bound: the last instant of a behaviour

Owners == States \cup Unions

\* A limit that is not enabled is a minimum of 0 or a maximum of Unlimited.
Unlimited == MaxTime + 1

\* The times of a state, as those of a union: below the minimum minNext is
\* taken, above the maximum maxNext.
Times == [min: Nat, minNext: States, max: Nat, maxNext: States]

ASSUME NeuroAssumption ==
    /\ MaxTime \in Nat
    /\ Default \in States /\ Loaded \in States
    /\ NoUnion \notin Unions /\ States \cap Unions = {}
    /\ UnionOf \in [States -> Unions \cup {NoUnion}]
    /\ Limits \in [Owners -> Times]

VARIABLES
    fsm_time, state, neuro_union, time_enter,
    outputs,      \* the state whose network or constants the outputs show
    state_since,  \* history: when the current state was entered,
    union_since,  \* and when its union was
    processed_at  \* history: when the inputs were last processed

neuroVars == <<fsm_time, state, neuro_union, time_enter, outputs, state_since,
               union_since, processed_at>>

NeuroTypeOK ==
    /\ fsm_time \in 0 .. MaxTime
    /\ state \in States
    /\ neuro_union \in Unions \cup {NoUnion}
    /\ time_enter \in [Owners -> 0 .. MaxTime]
    /\ outputs \in States
    /\ {state_since, union_since, processed_at} \subseteq 0 .. MaxTime

\* SetState chooses the default state, and its union, without entering them.
UnionAfterSet == UnionOf[Default]

\* Every state enters itself when it is constructed, and with it its union.
NeuroInit ==
    /\ fsm_time = 0
    /\ state = Default
    /\ neuro_union = UnionAfterSet
    /\ time_enter = [o \in Owners |-> 0]
    /\ outputs = Loaded
    /\ state_since = 0 /\ union_since = 0 /\ processed_at = 0

TimeIn(o) == fsm_time - time_enter[o]

\* CNeuroState::TryState.
StateTries(s, n) ==
    IF n # s /\ TimeIn(s) < Limits[s].min THEN Limits[s].minNext
    ELSE IF TimeIn(s) > Limits[s].max THEN Limits[s].maxNext
    ELSE n

\* CNeuroUnion::TryState, of a state without a union: no objection.
UnionTries(u, n) ==
    CASE u = NoUnion -> n
      [] u # NoUnion /\ UnionOf[n] # u /\ TimeIn(u) < Limits[u].min -> Limits[u].minNext
      [] u # NoUnion /\ UnionOf[n] = u /\ TimeIn(u) > Limits[u].max -> Limits[u].maxNext
      [] OTHER -> n

NextState(proposed) == UnionTries(UnionOf[state], StateTries(state, proposed))

Stay(proposed) ==
    /\ NextState(proposed) = state
    /\ outputs' = state
    /\ processed_at' = fsm_time
    /\ UNCHANGED <<fsm_time, state, neuro_union, time_enter, state_since,
                   union_since>>

\* CNeuroState::Enter of the next state.
NewUnion(s) == UnionOf[s] # NoUnion /\ UnionOf[s] # neuro_union
EnteredAnyUnion(s) == {s} \cup ({UnionOf[s]} \ {NoUnion})
Entered(s)  == IF NewUnion(s) THEN {s, UnionOf[s]} ELSE {s}

Move(proposed) ==
    LET s == NextState(proposed)
    IN  /\ s # state
        /\ state' = s
        /\ outputs' = s
        /\ neuro_union' = IF NewUnion(s) \/ UnionOf[s] = NoUnion THEN UnionOf[s]
                          ELSE neuro_union
        /\ time_enter' = [o \in Owners |-> IF o \in Entered(s) THEN fsm_time
                                           ELSE time_enter[o]]
        /\ state_since' = fsm_time
        /\ union_since' = IF UnionOf[s] = UnionOf[state] THEN union_since
                          ELSE fsm_time
        /\ processed_at' = fsm_time
        /\ UNCHANGED fsm_time

NeuroTick ==
    /\ fsm_time < MaxTime
    /\ fsm_time' = fsm_time + 1
    /\ UNCHANGED <<state, neuro_union, time_enter, outputs, state_since,
                   union_since, processed_at>>

NeuroNext == (\E s \in States : Stay(s) \/ Move(s)) \/ NeuroTick

NeuroSpec == NeuroInit /\ [][NeuroNext]_neuroVars

----------------------------------------------------------------------------

\* The automaton leaves a union before the union's minimal time only for the
\* state the union names, and stays in it past the maximal time only in that
\* one.  The time is the uninterrupted time in the union, however often the
\* state changed inside it and however often the union was left and entered.
UnionTimesKept ==
    LET left == UnionOf[state]
        time == fsm_time - union_since
    IN  (state' # state \/ processed_at' # processed_at) /\ left # NoUnion =>
          /\ time < Limits[left].min /\ UnionOf[state'] # left => state' = Limits[left].minNext
          /\ time > Limits[left].max /\ UnionOf[state'] = left => state' = Limits[left].maxNext

\* A state is left before its own minimal time only for the state it names, or
\* because the union sends the automaton to one of its own two.
StateTimesKept ==
    state' # state /\ fsm_time - state_since < Limits[state].min =>
        \/ state' = Limits[state].minNext
        \/ /\ UnionOf[state] # NoUnion
           /\ state' \in {Limits[UnionOf[state]].minNext, Limits[UnionOf[state]].maxNext}

\* Every step of the automaton keeps the times of its states and unions, though
\* both are asked for each proposal and overrule one another (neuro_trigger.cpp:266).
KeepsTimes == [][UnionTimesKept /\ StateTimesKept]_neuroVars
=============================================================================
