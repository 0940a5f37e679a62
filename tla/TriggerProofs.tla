---------------------------- MODULE TriggerProofs ----------------------------
(***************************************************************************)
(* Theorems about the four kinds of triggers: for counts, crossings and    *)
(* inputs without bound, any states, unions, times and patterns.           *)
(***************************************************************************)
EXTENDS Triggers, WellFoundedInduction, SequenceTheorems, TLAPS

(***************************************************************************)
(* Numbers and sequences.                                                  *)
(***************************************************************************)

\* The least of some numbers is one of them, and none is less.
LEMMA LeastIs ==
    ASSUME NEW T, T \subseteq Nat, T # {}
    PROVE  Min(T) \in T /\ \A y \in T : Min(T) <= y
  <1>1. PICK x \in T : \A y \in T : <<y, x>> \notin OpToRel(<, Nat)
    BY NatLessThanWellFounded, WFMin
  <1>2. \A y \in T : <<y, x>> \in OpToRel(<, Nat) <=> y < x
    BY DEF OpToRel
  <1>3. ASSUME NEW y \in T PROVE x <= y
    <2>1. ~(y < x) /\ x \in Nat /\ y \in Nat
      BY <1>1, <1>2
    <2> QED
      BY <2>1
  <1> QED
    BY <1>3 DEF Min

\* The greatest of some numbers up to n is one of them, and none is greater.
LEMMA GreatestIs ==
    ASSUME NEW n \in Nat, NEW T, T \subseteq 0 .. n, T # {}
    PROVE  Max(T) \in T /\ \A y \in T : y <= Max(T)
  <1> DEFINE U == {n - y : y \in T}
  <1>1. U \subseteq Nat /\ U # {}
    <2>1. \A y \in T : n - y \in Nat
      OBVIOUS
    <2> QED
      BY <2>1
  <1>2. Min(U) \in U /\ \A z \in U : Min(U) <= z
    BY <1>1, LeastIs
  <1>3. PICK x \in T : Min(U) = n - x
    BY <1>2
  <1>4. \A y \in T : x >= y
    <2>1. ASSUME NEW y \in T PROVE x >= y
      <3>1. n - y \in U /\ x \in 0 .. n /\ y \in 0 .. n
        OBVIOUS
      <3>2. n - x <= n - y
        BY <1>2, <1>3, <3>1
      <3> QED
        BY <3>1, <3>2
    <2> QED
      BY <2>1
  <1> HIDE DEF U
  <1> QED
    BY <1>4 DEF Max

\* A sequence by its elements.
LEMMA SeqBy ==
    ASSUME NEW S, NEW n \in Nat, NEW s, s = [i \in 1 .. n |-> s[i]], \A i \in 1 .. n : s[i] \in S
    PROVE  s \in Seq(S) /\ Len(s) = n
  <1>1. s \in [1 .. n -> S]
    OBVIOUS
  <1> QED
    BY <1>1

(***************************************************************************)
(* The log trigger.                                                        *)
(***************************************************************************)

\* The heights of the levels are numbers, and tell the levels apart.
LEMMA Heights ==
    /\ \A c \in Levels : Level[c] \in 1 .. 3
    /\ \A c, d \in Levels : Level[c] < Level[d] \/ Level[d] < Level[c] \/ c = d
  BY DEF Levels, Level

\* What EventMatchesMove needs besides: an input that crossed came from a level
\* other than the one it is at.
Moved ==
    crossings > 0 => /\ current_state \in Levels
                     /\ origin \in Levels \ {current_state}

LogInv == LogTypeOK /\ Moved /\ EventMatchesMove

\* The event of a crossing names the threshold next to where the input is now,
\* on the side it came from.
LEMMA EventOfMove ==
    ASSUME NEW old \in Levels, NEW new \in Levels, old # new
    PROVE  /\ EventOf(old, new) \in Events
           /\ EventOf(old, new) \in {"low_underflow", "high_underflow"}
                  <=> Level[new] < Level[old]
           /\ EventOf(old, new) \in {"low_underflow", "low_overflow"}
                  <=> new = "underflow" \/ (new = "inrange" /\ old = "underflow")
  <1>1. CASE new = "underflow"
    BY <1>1 DEF EventOf, Events, Levels, Level
  <1>2. CASE new = "overflow"
    BY <1>2 DEF EventOf, Events, Levels, Level
  <1>3. CASE new = "inrange"
    BY <1>3 DEF EventOf, Events, Levels, Level
  <1> QED
    BY <1>1, <1>2, <1>3 DEF Levels

\* No event was posted at the start.
LEMMA LogStart == LogInit => LogInv
  BY CrossingsAssumption DEF LogInit, LogInv, LogTypeOK, Moved, EventMatchesMove, Events

\* A sample posts the event of its own move, if any.
LEMMA LogStep == LogInv /\ [LogNext]_logVars => LogInv'
  <1> SUFFICES ASSUME LogInv, [LogNext]_logVars PROVE LogInv'
    OBVIOUS
  <1> USE CrossingsAssumption
  <1>1. ASSUME NEW c \in Levels, LogFirstInput(c) PROVE LogInv'
    <2>1. crossings = 0
      BY <1>1 DEF LogInv, LogTypeOK, Moved, LogFirstInput, Levels
    <2> QED
      BY <1>1, <2>1 DEF LogInv, LogTypeOK, Moved, EventMatchesMove, LogFirstInput
  <1>2. ASSUME NEW c \in Levels, SameLevel(c) PROVE LogInv'
    <2>1. said' \in Events \cup {"nothing"}
      BY <1>2 DEF SameLevel, Report, LogInv, LogTypeOK
    <2> QED
      BY <1>2, <2>1 DEF LogInv, LogTypeOK, Moved, EventMatchesMove, SameLevel
  <1>3. ASSUME NEW c \in Levels, Cross(c) PROVE LogInv'
    <2>1. current_state \in Levels \ {c}
      BY <1>3 DEF Cross, LogInv, LogTypeOK
    <2>2. LogTypeOK'
      BY <1>3, <2>1, EventOfMove DEF Cross, Report, LogInv, LogTypeOK
    <2>3. Moved'
      BY <1>3, <2>1 DEF Cross, Moved
    <2>4. EventMatchesMove'
      BY <1>3, <2>1, EventOfMove DEF Cross, EventMatchesMove
    <2> QED
      BY <2>2, <2>3, <2>4 DEF LogInv
  <1>4. CASE UNCHANGED logVars
    BY <1>4 DEF LogInv, LogTypeOK, Moved, EventMatchesMove, logVars
  <1> QED
    BY <1>1, <1>2, <1>3, <1>4 DEF LogNext

\* The event on which repeats rest names the last threshold crossed and the
\* direction, whatever levels the input leapt over.
THEOREM EventMatchesMoveCorrect == LogSpec => []EventMatchesMove
  <1>1. LogInv => EventMatchesMove
    BY DEF LogInv
  <1> QED
    BY LogStart, LogStep, <1>1, PTL DEF LogSpec

(***************************************************************************)
(* The time trigger.                                                       *)
(***************************************************************************)

\* An armed counter that counts up is due UpTime after it was armed or last
\* completed, whatever the heap held and however often it was released.  A counter
\* of mode down never counts up once it is armed, and completes nothing if it does.
CountInv ==
    /\ cur_time \in Nat
    /\ setup.mode \in {"up", "down", "updown"}
    /\ since \in Nat \cup {Never}
    /\ setup.mode # "down" /\ direction = "up" /\ since # Never =>
           time_uptrig = since + UpTime

\* No counter is armed at first.
LEMMA CountStart == TimeInit => CountInv
  BY DEF TimeInit, CountInv, Setups, Never

\* Arming and completing set the instant that is due, and nothing else does.
LEMMA CountKeeps == CountInv /\ [TimeNext]_timeVars => CountInv'
  <1> SUFFICES ASSUME CountInv, [TimeNext]_timeVars PROVE CountInv'
    OBVIOUS
  <1> USE CountAssumption
  <1>1. CASE UNCHANGED timeVars
    BY <1>1 DEF CountInv, timeVars, times
  <1>2. CASE Tick
    BY <1>2 DEF Tick, CountInv, times
  <1>3. ASSUME NEW c \in Classes, FirstInput(c) \/ Release(c) \/ CountNothing(c) PROVE CountInv'
    BY <1>3 DEF FirstInput, Release, CountNothing, Counts, Input, CountInv, times
  <1>4. ASSUME NEW c \in Classes, Arm(c) PROVE CountInv'
    BY <1>4 DEF Arm, Input, CountInv, Never
  <1>5. ASSUME NEW c \in Classes, CountUp(c) PROVE CountInv'
    <2>1. UNCHANGED <<cur_time, setup>>
      BY <1>5 DEF CountUp, Counts, Input
    <2>2. \/ UNCHANGED <<time_uptrig, since, direction>>
          \/ /\ time_uptrig' = NextUp /\ since' = Completed
             /\ direction' = IF setup.mode = "updown" THEN "down" ELSE direction
          \/ setup.mode = "down" /\ UNCHANGED since
      BY <1>5 DEF CountUp, times
    <2>3. setup.mode # "down" /\ direction' = "up" => direction = "up"
      BY <1>5 DEF CountUp
    <2> QED
      BY <2>1, <2>2, <2>3 DEF CountInv, NextUp, Completed, Never
  <1>6. ASSUME NEW c \in Classes, CountDown(c) PROVE CountInv'
    <2>1. UNCHANGED <<cur_time, setup>>
      BY <1>6 DEF CountDown, Counts, Input
    <2>2. \/ UNCHANGED <<time_uptrig, since, direction>>
          \/ /\ setup.mode # "up" /\ since' = Completed
             /\ time_uptrig' = cur_time + IF setup.mode = "down" THEN DownTime ELSE UpTime
      BY <1>6 DEF CountDown, times
    <2> QED
      BY <2>1, <2>2 DEF CountInv, Completed, Never
  <1> QED
    BY <1>1, <1>2, <1>3, <1>4, <1>5, <1>6 DEF TimeNext

\* A cycle completes when it is due.
LEMMA CompletesWhenDue ==
    ASSUME CountInv, [TimeNext]_timeVars, since # Never, CompletesUp
    PROVE  cur_time - since >= UpTime
  <1> USE CountAssumption
  <1>1. since' # since /\ values'.direct = 1 /\ values'.direct_pr # -1
    BY DEF CompletesUp
  <1>2. ASSUME NEW c \in Classes, CountUp(c)
        PROVE  cur_time >= time_uptrig /\ setup.mode # "down" /\ direction = "up"
    BY <1>1, <1>2 DEF CountUp
  <1>3. ASSUME NEW c \in Classes, Arm(c) PROVE FALSE
    <2>1. values'.direct = 0
      BY <1>3 DEF Arm, Announce
    <2> QED
      BY <1>1, <2>1
  <1>4. ASSUME NEW c \in Classes, FirstInput(c) \/ Release(c) \/ CountNothing(c)
        PROVE  FALSE
    BY <1>1, <1>4 DEF FirstInput, Release, CountNothing
  <1>5. ASSUME NEW c \in Classes, CountDown(c) PROVE FALSE
    <2>1. values'.direct_pr = -1 \/ UNCHANGED since
      BY <1>5 DEF CountDown, Announce, DownReading
    <2> QED
      BY <1>1, <2>1
  <1>6. ~Tick /\ ~UNCHANGED timeVars
    BY <1>1 DEF Tick, timeVars
  <1>7. cur_time >= time_uptrig /\ setup.mode # "down" /\ direction = "up"
    BY <1>2, <1>3, <1>4, <1>5, <1>6 DEF TimeNext
  <1> QED
    BY <1>7 DEF CountInv, Never

\* A counter completes no count up early, for any periods, any garbage in the times
\* a constructor does not set, and any inputs (CTimeTrigger::ProcessAnchestors).
THEOREM CyclesFullCorrect == TimeSpec => CyclesFull
  <1>1. CountInv /\ [TimeNext]_timeVars =>
          [since # Never /\ CompletesUp => cur_time - since >= UpTime]_timeVars
    BY CompletesWhenDue
  <1> QED
    BY CountStart, CountKeeps, <1>1, PTL DEF TimeSpec, CyclesFull

(***************************************************************************)
(* The neuro trigger.                                                      *)
(***************************************************************************)

\* The union the trigger remembers is that of its state, and the two entry times
\* it compares with are those of its state and of its union.
NeuroInv ==
    /\ NeuroTypeOK
    /\ neuro_union = UnionOf[state]
    /\ time_enter[state] = state_since
    /\ UnionOf[state] # NoUnion => time_enter[UnionOf[state]] = union_since

\* What is proposed, and what the limits make of it, is a state.
LEMMA NextIsState ==
    ASSUME NeuroInv, NEW p \in States
    PROVE  StateTries(state, p) \in States /\ NextState(p) \in States
  <1>1. state \in States /\ \A s \in States : Limits[s] \in Times
    BY NeuroAssumption DEF NeuroInv, NeuroTypeOK, Owners
  <1>2. StateTries(state, p) \in States
    BY <1>1 DEF StateTries, Times
  <1>3. \A u \in Unions : Limits[u] \in Times
    BY NeuroAssumption DEF Owners
  <1>4. UnionOf[state] \in Unions \cup {NoUnion}
    BY <1>1, NeuroAssumption
  <1>5. NextState(p) \in States
    BY <1>2, <1>3, <1>4 DEF NextState, UnionTries, Times
  <1> QED
    BY <1>2, <1>5

\* It holds when the states were constructed,
LEMMA NeuroStart == NeuroInit => NeuroInv
  <1>1. UnionOf[Default] \in Unions \cup {NoUnion} /\ Default \in States /\ Loaded \in States
    BY NeuroAssumption
  <1>2. MaxTime \in Nat
    BY NeuroAssumption
  <1>3. ASSUME NeuroInit PROVE NeuroTypeOK
    BY <1>1, <1>2, <1>3 DEF NeuroInit, NeuroTypeOK, UnionAfterSet
  <1> QED
    BY <1>1, <1>3 DEF NeuroInit, NeuroInv, UnionAfterSet, Owners

\* and every step keeps it.
LEMMA NeuroKeeps == NeuroInv /\ [NeuroNext]_neuroVars => NeuroInv'
  <1> SUFFICES ASSUME NeuroInv, [NeuroNext]_neuroVars PROVE NeuroInv'
    OBVIOUS
  <1>1. CASE UNCHANGED neuroVars
    BY <1>1 DEF NeuroInv, NeuroTypeOK, neuroVars
  <1>2. CASE NeuroTick
    BY <1>2, NeuroAssumption DEF NeuroTick, NeuroInv, NeuroTypeOK
  <1>3. ASSUME NEW p \in States, Stay(p) PROVE NeuroInv'
    BY <1>3 DEF Stay, NeuroInv, NeuroTypeOK
  <1>4. ASSUME NEW p \in States, Move(p) PROVE NeuroInv'
    <2>1. PICK s \in States :
            /\ s # state /\ state' = s /\ outputs' = s
            /\ neuro_union' = IF NewUnion(s) \/ UnionOf[s] = NoUnion THEN UnionOf[s] ELSE neuro_union
            /\ time_enter' = [o \in Owners |-> IF o \in Entered(s) THEN fsm_time ELSE time_enter[o]]
            /\ state_since' = fsm_time
            /\ union_since' = IF UnionOf[s] = UnionOf[state] THEN union_since ELSE fsm_time
            /\ processed_at' = fsm_time /\ fsm_time' = fsm_time
      BY <1>4, NextIsState DEF Move
    <2>2. /\ UnionOf[s] \in Unions \cup {NoUnion} /\ UnionOf[state] \in Unions \cup {NoUnion}
          /\ s \in Owners /\ \A u \in Unions : u \in Owners /\ u # s
          /\ NoUnion \notin Unions
      BY NeuroAssumption DEF Owners, NeuroInv, NeuroTypeOK
    <2>3. neuro_union' = UnionOf[s]
      BY <2>1 DEF NewUnion
    <2>4. time_enter'[s] = fsm_time
      BY <2>1, <2>2 DEF Entered
    <2>5. ASSUME UnionOf[s] # NoUnion PROVE time_enter'[UnionOf[s]] = union_since'
      <3>1. UnionOf[s] \in Owners /\ UnionOf[s] # s
        BY <2>2, <2>5
      <3>2. CASE UnionOf[s] = UnionOf[state]
        <4>1. ~NewUnion(s) /\ Entered(s) = {s}
          BY <3>2 DEF NewUnion, Entered, NeuroInv
        <4> QED
          BY <2>1, <2>5, <3>1, <3>2, <4>1 DEF NeuroInv
      <3>3. CASE UnionOf[s] # UnionOf[state]
        <4>1. NewUnion(s) /\ Entered(s) = {s, UnionOf[s]}
          BY <2>5, <3>3 DEF NewUnion, Entered, NeuroInv
        <4> QED
          BY <2>1, <3>1, <3>3, <4>1
      <3> QED
        BY <3>2, <3>3
    <2>6. NeuroTypeOK'
      BY <2>1, <2>2, <2>3 DEF NeuroInv, NeuroTypeOK
    <2> QED
      BY <2>1, <2>3, <2>4, <2>5, <2>6 DEF NeuroInv
  <1> QED
    BY <1>1, <1>2, <1>3, <1>4 DEF NeuroNext

\* The minimum of no state or union is beyond its maximum; the files do not
\* ensure it.
LimitsOrdered == \A o \in Owners : Limits[o].min <= Limits[o].max

\* Where a proposal leads.
LEMMA NextStateTimes ==
    ASSUME LimitsOrdered, NeuroInv, NEW p \in States, state' = NextState(p)
    PROVE  UnionTimesKept /\ StateTimesKept
  <1>a. /\ state \in States /\ state \in Owners
        /\ fsm_time \in Nat /\ UnionOf[state] \in Unions \cup {NoUnion} /\ NoUnion \notin Unions
        /\ state_since \in Nat /\ union_since \in Nat
        /\ time_enter[state] = state_since
        /\ UnionOf[state] # NoUnion => time_enter[UnionOf[state]] = union_since
    BY NeuroAssumption DEF NeuroInv, NeuroTypeOK, Owners
  <1>b. \A o \in Owners : Limits[o].min \in Nat /\ Limits[o].max \in Nat /\ Limits[o].min <= Limits[o].max
    BY NeuroAssumption DEF LimitsOrdered, Times
  <1> DEFINE n == StateTries(state, p)
  <1>1. UnionTimesKept
    <2>1. CASE UnionOf[state] = NoUnion
      BY <2>1 DEF UnionTimesKept
    <2>2. CASE UnionOf[state] # NoUnion
      <3>1. UnionOf[state] \in Owners /\ TimeIn(UnionOf[state]) = fsm_time - union_since
        BY <1>a, <2>2 DEF Owners, TimeIn
      <3>2. state' = UnionTries(UnionOf[state], n)
        BY DEF NextState
      <3> QED
        BY <1>a, <1>b, <2>2, <3>1, <3>2 DEF UnionTimesKept, UnionTries
    <2> QED
      BY <2>1, <2>2
  <1>2. StateTimesKept
    <2>1. ASSUME state' # state, fsm_time - state_since < Limits[state].min
          PROVE  \/ state' = Limits[state].minNext
                 \/ /\ UnionOf[state] # NoUnion
                    /\ state' \in {Limits[UnionOf[state]].minNext, Limits[UnionOf[state]].maxNext}
      <3>1. n \in {state, Limits[state].minNext}
        BY <1>a, <1>b, <2>1 DEF StateTries, TimeIn
      <3>2. state' = UnionTries(UnionOf[state], n)
        BY DEF NextState
      <3> QED
        BY <2>1, <3>1, <3>2 DEF UnionTries
    <2> QED
      BY <2>1 DEF StateTimesKept
  <1> QED
    BY <1>1, <1>2

\* The automaton keeps the times of its states and unions, for any number of
\* them, any limits in order and any proposals (CNeuroTrigger, neuro_trigger.cpp:266).
THEOREM KeepsTimesCorrect == LimitsOrdered => (NeuroSpec => KeepsTimes)
  <1> SUFFICES ASSUME LimitsOrdered PROVE NeuroSpec => KeepsTimes
    OBVIOUS
  <1>1. NeuroInv /\ [NeuroNext]_neuroVars => [UnionTimesKept /\ StateTimesKept]_neuroVars
    <2> SUFFICES ASSUME NeuroInv, NeuroNext PROVE UNCHANGED neuroVars \/ (UnionTimesKept /\ StateTimesKept)
      OBVIOUS
    <2>1. CASE NeuroTick
      BY <2>1 DEF NeuroTick, UnionTimesKept, StateTimesKept
    <2>2. ASSUME NEW p \in States, Stay(p) \/ Move(p) PROVE UnionTimesKept /\ StateTimesKept
      <3>1. state' = NextState(p)
        BY <2>2 DEF Stay, Move
      <3> QED
        BY <3>1, NextStateTimes
    <2> QED
      BY <2>1, <2>2 DEF NeuroNext
  <1> QED
    BY NeuroStart, NeuroKeeps, <1>1, PTL DEF NeuroSpec, KeepsTimes

(***************************************************************************)
(* The pattern trigger.                                                    *)
(***************************************************************************)

\* No input has the code zero, which ends a string: a code is the first
\* character of an entry of the file, a zero only if the entry is empty.
CodesShown == Zero \notin Codes

Content == [i \in 1 .. cur_size |-> q[i - 1]]

\* The buffer with one symbol more: the newest symbols that fit, and a zero.
LEMMA PushedIs ==
    ASSUME PcreTypeOK, NEW c \in Codes
    PROVE  /\ Pushed(c) \in [0 .. max_size -> Codes \cup {Zero}]
           /\ Size \in 0 .. max_size - 1 /\ Size <= cur_size
           /\ Pushed(c)[Size] = c /\ Pushed(c)[Size + 1] = Zero
           /\ \A i \in 0 .. Size - 1 : Pushed(c)[i] = q[i + (cur_size - Size)]
  <1>1. /\ q \in [0 .. max_size -> Codes \cup {Zero}] /\ cur_size \in 0 .. max_size
        /\ max_size \in Nat \ {0}
    BY PcreAssumption DEF PcreTypeOK
  <1>2. Size \in 0 .. max_size - 1 /\ Size <= cur_size
    BY <1>1 DEF Size
  <1>3. Room \in [0 .. max_size -> Codes \cup {Zero}]
    BY <1>1 DEF Room, Shifted
  <1>4. \A i \in 0 .. Size - 1 : Room[i] = q[i + (cur_size - Size)]
    BY <1>1, <1>2 DEF Room, Shifted, Size
  <1> HIDE DEF Size, Room
  <1> QED
    BY <1>1, <1>2, <1>3, <1>4 DEF Pushed

\* What the patterns see of a buffer with a zero at z.
LEMMA StrIs ==
    ASSUME NEW buf \in [0 .. max_size -> Codes \cup {Zero}],
           NEW z \in 0 .. max_size, buf[z] = Zero
    PROVE  /\ Str(buf) \in Seq(Codes) /\ Len(Str(buf)) \in 0 .. z
           /\ \A i \in 1 .. Len(Str(buf)) : Str(buf)[i] = buf[i - 1]
           /\ (\A i \in 0 .. z - 1 : buf[i] # Zero) => Len(Str(buf)) = z
  <1> DEFINE T == {i \in 0 .. max_size : buf[i] = Zero}
             n == Min(T)
             t == [i \in 1 .. n |-> buf[i - 1]]
  <1>1. n \in T /\ \A y \in T : n <= y
    <2>1. z \in T /\ T \subseteq Nat
      BY PcreAssumption
    <2> QED
      BY <2>1, LeastIs
  <1>2. z \in T /\ Str(buf) = t
    BY DEF Str
  <1>3. n \in 0 .. z /\ n \in Nat /\ max_size \in Nat /\ n <= max_size
    BY <1>1, <1>2, PcreAssumption
  <1> HIDE DEF n
  <1>4. \A i \in 1 .. n : t[i] = buf[i - 1] /\ buf[i - 1] \in Codes
    <2>1. ASSUME NEW i \in 1 .. n PROVE buf[i - 1] \in Codes
      <3>1. i - 1 \in 0 .. max_size /\ i - 1 \notin T
        BY <1>1, <1>3
      <3> QED
        BY <3>1
    <2> QED
      BY <2>1
  <1>5. t \in Seq(Codes) /\ Len(t) = n
    BY <1>3, <1>4, SeqBy
  <1>6. (\A i \in 0 .. z - 1 : buf[i] # Zero) => n = z
    BY <1>1, <1>2, <1>3
  <1> HIDE DEF t
  <1> QED
    BY <1>2, <1>3, <1>4, <1>5, <1>6

\* A pattern that does not end before the last symbol ends with it or nowhere.
LEMMA EndOfIs ==
    ASSUME NEW p \in Patterns, NEW s \in Seq(Codes)
    PROVE  /\ EndOf(p, s) \in 0 .. Len(s)
           /\ EndOf(p, s) = 0 <=> Ends(p, s) = {}
           /\ EndOf(p, s) # 0 => EndOf(p, s) \in Ends(p, s)
  <1>1. Len(p) \in Nat /\ Len(p) > 0 /\ Len(s) \in Nat
    <2>1. p \in Seq(Codes) /\ p # <<>>
      BY PcreAssumption
    <2> QED
      BY <2>1, EmptySeq
  <1>2. Ends(p, s) \subseteq Len(p) .. Len(s) /\ Ends(p, s) \subseteq Nat
    BY <1>1 DEF Ends
  <1>3. CASE Ends(p, s) = {}
    BY <1>1, <1>3 DEF EndOf
  <1>4. CASE Ends(p, s) # {}
    <2>1. EndOf(p, s) = Min(Ends(p, s)) /\ Min(Ends(p, s)) \in Ends(p, s)
      BY <1>2, <1>4, LeastIs DEF EndOf
    <2> QED
      BY <1>1, <1>2, <1>4, <2>1
  <1> QED
    BY <1>3, <1>4

\* How much of the text is trimmed.
LEMMA TrimIs ==
    ASSUME NEW s \in Seq(Codes)
    PROVE  /\ Trim(s) \in 0 .. Len(s)
           /\ \A p \in Patterns : EndOf(p, s) <= Trim(s)
           /\ Trim(s) = 0 \/ \E p \in Patterns : Trim(s) = EndOf(p, s)
  <1> DEFINE T == {0} \cup {EndOf(p, s) : p \in Patterns}
  <1>1. Len(s) \in Nat /\ T \subseteq 0 .. Len(s) /\ T # {}
    BY EndOfIs
  <1>2. Max(T) \in T /\ \A y \in T : y <= Max(T)
    BY <1>1, GreatestIs
  <1> QED
    BY <1>1, <1>2 DEF Trim

\* The last symbols of a prefix, one by one.
LEMMA PieceIs ==
    ASSUME NEW S, NEW s \in Seq(S), NEW l \in Nat, NEW e \in l .. Len(s)
    PROVE  LET b == SubSeq(s, e - l + 1, e)
           IN  /\ b \in Seq(S) /\ Len(b) = l
               /\ \A i \in 1 .. l : b[i] = s[e - l + i]
  <1>1. Len(s) \in Nat /\ e \in Nat /\ e - l + 1 \in Int /\ e \in Int
    OBVIOUS
  <1>2. \A i \in e - l + 1 .. e : s[i] \in S
    BY <1>1, ElementOfSeq
  <1> DEFINE b == SubSeq(s, e - l + 1, e)
  <1>3. /\ b \in Seq(S)
        /\ Len(b) = IF e - l + 1 <= e THEN e - (e - l + 1) + 1 ELSE 0
        /\ \A i \in 1 .. e - (e - l + 1) + 1 : b[i] = s[(e - l + 1) + i - 1]
    BY <1>1, <1>2, SubSeqProperties
  <1> HIDE DEF b
  <1>4. /\ e - (e - l + 1) + 1 = l
        /\ (IF e - l + 1 <= e THEN e - (e - l + 1) + 1 ELSE 0) = l
    BY <1>1
  <1>5. ASSUME NEW i \in 1 .. l PROVE b[i] = s[e - l + i]
    <2>1. (e - l + 1) + i - 1 = e - l + i
      BY <1>1
    <2> QED
      BY <1>3, <1>4, <2>1
  <1> QED
    BY <1>3, <1>4, <1>5 DEF b

\* A text whose part before the last symbol is the end of some content without
\* patterns has none but at its very end.
LEMMA EndsLast ==
    ASSUME NEW p \in Patterns, NEW s \in Seq(Codes), NEW t \in Seq(Codes), NEW d \in Nat,
           Len(s) = Len(t) - d + 1, Ends(p, t) = {},
           \A i \in 1 .. Len(s) - 1 : s[i] = t[i + d]
    PROVE  Ends(p, s) \subseteq {Len(s)}
  <1> SUFFICES ASSUME NEW e \in Ends(p, s), e # Len(s) PROVE FALSE
    OBVIOUS
  <1>1. /\ p \in Seq(Codes) /\ Len(p) \in Nat /\ Len(p) > 0 /\ Len(s) \in Nat /\ Len(t) \in Nat
        /\ e \in Len(p) .. Len(s) - 1 /\ SubSeq(s, e - Len(p) + 1, e) = p
    <2>1. p \in Seq(Codes) /\ p # <<>>
      BY PcreAssumption
    <2>2. Len(p) \in Nat /\ Len(p) > 0
      BY <2>1, EmptySeq
    <2> QED
      BY <2>1, <2>2 DEF Ends
  <1>2. e + d \in Len(p) .. Len(t)
    BY <1>1
  <1>3. SubSeq(t, e + d - Len(p) + 1, e + d) = p
    <2> DEFINE a == SubSeq(s, e - Len(p) + 1, e)
               b == SubSeq(t, e + d - Len(p) + 1, e + d)
               k == e - Len(p)
    <2>1. /\ a \in Seq(Codes) /\ Len(a) = Len(p)
          /\ \A i \in 1 .. Len(p) : a[i] = s[e - Len(p) + i]
      BY <1>1, PieceIs
    <2>2. /\ b \in Seq(Codes) /\ Len(b) = Len(p)
          /\ \A i \in 1 .. Len(p) : b[i] = t[e + d - Len(p) + i]
      BY <1>1, <1>2, PieceIs
    <2>3. \A i \in 1 .. Len(p) : a[i] = b[i]
      <3> SUFFICES ASSUME NEW i \in 1 .. Len(p) PROVE s[e - Len(p) + i] = t[e + d - Len(p) + i]
        BY <2>1, <2>2
      <3>1. e - Len(p) + i \in 1 .. Len(s) - 1 /\ (e - Len(p) + i) + d = e + d - Len(p) + i
        BY <1>1
      <3> QED
        BY <3>1
    <2> QED
      BY <1>1, <2>1, <2>2, <2>3, SeqEqual
  <1>4. e + d \in Ends(p, t)
    BY <1>2, <1>3 DEF Ends
  <1> QED
    BY <1>4

\* What FoundOnceAtOnce needs besides: the buffer holds codes only and is empty
\* once something was found; until then it ends with the inputs.
Remembered ==
    /\ \A i \in 1 .. cur_size : Content[i] \in Codes
    /\ found # {} => cur_size = 0
    /\ found = {} => /\ cur_size = IF Len(inputs) <= max_size THEN Len(inputs) ELSE max_size
                     /\ \A i \in 1 .. cur_size : Content[i] = inputs[Len(inputs) - cur_size + i]

PcreInv == PcreTypeOK /\ Remembered /\ FoundOnceAtOnce

\* The smaller of two numbers.
LEMMA LesserIs ==
    ASSUME NEW m \in Nat, NEW n \in Nat
    PROVE  Min({m, n}) = IF m <= n THEN m ELSE n
  <1>1. Min({m, n}) \in {m, n} /\ \A y \in {m, n} : Min({m, n}) <= y
    BY LeastIs
  <1> QED
    BY <1>1

\* No pattern is in an empty text.
LEMMA EmptyText ==
    ASSUME NEW p \in Patterns PROVE Ends(p, <<>>) = {} /\ EndOf(p, <<>>) = 0
  <1>1. Len(p) \in Nat /\ Len(p) > 0
    <2>1. p \in Seq(Codes) /\ p # <<>>
      BY PcreAssumption
    <2> QED
      BY <2>1, EmptySeq
  <1>2. Ends(p, <<>>) = {}
    BY <1>1 DEF Ends
  <1> QED
    BY <1>2 DEF EndOf

\* Nothing is in the buffer at first, whatever its array holds.
LEMMA PcreStart == PcreInit => PcreInv
  <1> SUFFICES ASSUME PcreInit PROVE PcreInv
    OBVIOUS
  <1>1. <<>> \in Seq(Codes) /\ Len(<<>>) = 0 /\ max_size \in Nat /\ MaxInputs \in Nat
    BY PcreAssumption, EmptySeq
  <1>2. PcreTypeOK
    BY <1>1 DEF PcreInit, PcreTypeOK
  <1>3. Remembered
    BY <1>1 DEF PcreInit, Remembered
  <1>4. text = Recent(inputs, Min({Len(inputs), max_size}))
    <2>1. Min({Len(inputs), max_size}) = 0
      BY <1>1, LesserIs DEF PcreInit
    <2>2. Recent(inputs, 0) = <<>>
      BY <1>1, SubSeqEmpty DEF PcreInit, Recent
    <2> QED
      BY <2>1, <2>2 DEF PcreInit
  <1>5. [i \in 1 .. cur_size |-> q[i - 1]] = <<>>
    BY DEF PcreInit
  <1> QED
    BY <1>2, <1>3, <1>4, <1>5, EmptyText DEF PcreInv, FoundOnceAtOnce

\* The text is the content, less the oldest symbol where it is full, and the
\* code of the new input.
LEMMA TextIs ==
    ASSUME CodesShown, PcreTypeOK, Remembered, NEW c \in Codes
    PROVE  LET s == Str(Pushed(c))
           IN  /\ s \in Seq(Codes) /\ Len(s) = Size + 1 /\ s[Size + 1] = c
               /\ \A i \in 1 .. Size : s[i] = Content[i + (cur_size - Size)]
               /\ \A i \in 1 .. Size + 1 : s[i] = Pushed(c)[i - 1]
  <1> DEFINE b == Pushed(c)
             s == Str(b)
  <1>1. /\ b \in [0 .. max_size -> Codes \cup {Zero}]
        /\ Size \in 0 .. max_size - 1 /\ Size <= cur_size
        /\ b[Size] = c /\ b[Size + 1] = Zero
        /\ \A i \in 0 .. Size - 1 : b[i] = q[i + (cur_size - Size)]
    BY PushedIs
  <1>2. cur_size \in Nat /\ max_size \in Nat /\ Size \in Nat /\ Size + 1 \in 0 .. max_size
    BY <1>1, PcreAssumption DEF PcreTypeOK
  <1>3. \A i \in 1 .. cur_size : Content[i] = q[i - 1] /\ Content[i] \in Codes
    BY DEF Content, Remembered
  <1> HIDE DEF b
  <1>4. \A i \in 0 .. Size - 1 : b[i] = Content[i + 1 + (cur_size - Size)]
    <2> SUFFICES ASSUME NEW i \in 0 .. Size - 1 PROVE b[i] = Content[i + 1 + (cur_size - Size)]
      OBVIOUS
    <2>1. i + 1 + (cur_size - Size) \in 1 .. cur_size
      BY <1>1, <1>2
    <2>2. (i + 1 + (cur_size - Size)) - 1 = i + (cur_size - Size)
      BY <1>1, <1>2
    <2> QED
      BY <1>1, <1>3, <2>1, <2>2
  <1>5. \A i \in 0 .. Size : b[i] # Zero
    <2> SUFFICES ASSUME NEW i \in 0 .. Size PROVE b[i] \in Codes
      BY DEF CodesShown
    <2>1. CASE i = Size
      BY <1>1, <2>1
    <2>2. CASE i # Size
      <3>1. i \in 0 .. Size - 1 /\ i + 1 + (cur_size - Size) \in 1 .. cur_size
        BY <1>1, <1>2, <2>2
      <3> QED
        BY <1>3, <1>4, <3>1
    <2> QED
      BY <2>1, <2>2
  <1>6. /\ s \in Seq(Codes) /\ Len(s) = Size + 1
        /\ \A i \in 1 .. Len(s) : s[i] = b[i - 1]
    BY <1>1, <1>2, <1>5, StrIs
  <1> HIDE DEF s
  <1>7. \A i \in 1 .. Size : s[i] = Content[i + (cur_size - Size)]
    <2> SUFFICES ASSUME NEW i \in 1 .. Size PROVE s[i] = Content[i + (cur_size - Size)]
      OBVIOUS
    <2>1. i - 1 \in 0 .. Size - 1 /\ i - 1 + 1 + (cur_size - Size) = i + (cur_size - Size) /\ i \in 1 .. Len(s)
      BY <1>2, <1>6
    <2> QED
      BY <1>4, <1>6, <2>1
  <1>8. s[Size + 1] = c
    BY <1>1, <1>2, <1>6
  <1> QED
    BY <1>6, <1>7, <1>8 DEF s, b

\* The text is what is most recent of the inputs.
LEMMA TextIsRecent ==
    ASSUME CodesShown, PcreInv, NEW c \in Codes, ProcessInput(c)
    PROVE  text' = Recent(inputs', Min({Len(inputs'), max_size}))
  <1> DEFINE s == Str(Pushed(c))
             n == IF Len(inputs') <= max_size THEN Len(inputs') ELSE max_size
             r == Recent(inputs', n)
  <1>1. /\ s \in Seq(Codes) /\ Len(s) = Size + 1 /\ s[Size + 1] = c
        /\ \A i \in 1 .. Size : s[i] = Content[i + (cur_size - Size)]
    BY TextIs DEF PcreInv
  <1>2. /\ inputs \in Seq(Codes) /\ Len(inputs) \in Nat /\ cur_size \in 0 .. max_size
        /\ max_size \in Nat /\ max_size > 0 /\ text' = s
        /\ Size \in 0 .. max_size - 1 /\ Size <= cur_size
    BY PushedIs, PcreAssumption, EmptySeq DEF PcreInv, PcreTypeOK, ProcessInput
  <1> HIDE DEF s
  <1>3. CASE found # {}
    <2>1. cur_size = 0 /\ Size = 0 /\ inputs' = <<c>>
      BY <1>2, <1>3 DEF PcreInv, Remembered, Size, ProcessInput
    <2>2. Len(inputs') = 1 /\ inputs'[1] = c /\ inputs' \in Seq(Codes)
      BY <2>1
    <2>3. Min({Len(inputs'), max_size}) = 1
      BY <1>2, <2>2, LesserIs
    <2>4. Recent(inputs', 1) = inputs'
      BY <2>2, SubSeqFull DEF Recent
    <2>5. s = inputs'
      BY <1>1, <2>1, <2>2, SeqEqual
    <2> QED
      BY <1>2, <2>3, <2>4, <2>5
  <1>4. CASE found = {}
    <2>1. /\ inputs' = Append(inputs, c)
          /\ cur_size = IF Len(inputs) <= max_size THEN Len(inputs) ELSE max_size
          /\ \A i \in 1 .. cur_size : Content[i] = inputs[Len(inputs) - cur_size + i]
      BY <1>4 DEF PcreInv, Remembered, ProcessInput
    <2>2. /\ inputs' \in Seq(Codes) /\ Len(inputs') = Len(inputs) + 1
          /\ \A i \in 1 .. Len(inputs) : inputs'[i] = inputs[i]
          /\ inputs'[Len(inputs) + 1] = c
      BY <1>2, <2>1, AppendProperties
    <2>3. n = Size + 1 /\ n \in 1 .. Len(inputs')
      BY <1>2, <2>1, <2>2 DEF Size
    <2>8. Min({Len(inputs'), max_size}) = n
      BY <1>2, <2>2, LesserIs
    <2> HIDE DEF n
    <2>4. /\ r \in Seq(Codes) /\ Len(r) = n
          /\ \A i \in 1 .. n : r[i] = inputs'[Len(inputs') - n + i]
      <3> DEFINE m == Len(inputs') - n + 1
      <3>4. m \in 1 .. Len(inputs') /\ Len(inputs') \in Nat /\ n \in Nat
        BY <1>2, <2>2, <2>3
      <3>1. /\ m \in Int /\ Len(inputs') \in Int /\ m <= Len(inputs') /\ n \in Nat
            /\ \A i \in m .. Len(inputs') : inputs'[i] \in Codes
        BY <2>2, <3>4, ElementOfSeq
      <3>2. r = SubSeq(inputs', m, Len(inputs'))
        BY DEF Recent
      <3>3. Len(inputs') - m + 1 = n /\ \A i \in 1 .. n : m + i - 1 = Len(inputs') - n + i
        BY <3>4
      <3> HIDE DEF m, r
      <3> QED
        BY <3>1, <3>2, <3>3, SubSeqProperties
    <2>5. ASSUME NEW i \in 1 .. n PROVE s[i] = r[i]
      <3>1. CASE i = Size + 1
        <4>1. Len(inputs') - n + i = Len(inputs) + 1
          BY <1>2, <2>2, <2>3, <3>1
        <4> QED
          BY <1>1, <2>2, <2>4, <3>1, <4>1
      <3>2. CASE i # Size + 1
        <4>3. i \in Nat /\ n \in Nat /\ Len(inputs') \in Nat
          BY <1>2, <2>2, <2>3, <2>5
        <4>1. /\ i \in 1 .. Size /\ i + (cur_size - Size) \in 1 .. cur_size
              /\ Len(inputs) - cur_size + (i + (cur_size - Size)) = Len(inputs') - n + i
              /\ Len(inputs') - n + i \in 1 .. Len(inputs)
          <5>1. cur_size <= Len(inputs) /\ cur_size \in Nat /\ Size \in Nat
            BY <1>2, <2>1
          <5>2. i \in 1 .. Size
            BY <2>3, <2>5, <3>2, <4>3, <5>1
          <5> QED
            BY <1>2, <2>2, <2>3, <4>3, <5>1, <5>2
        <4>2. s[i] = inputs[Len(inputs) - cur_size + (i + (cur_size - Size))]
          BY <1>1, <2>1, <4>1
        <4> QED
          BY <2>2, <2>4, <4>1, <4>2
      <3> QED
        BY <3>1, <3>2
    <2>6. s = r
      BY <1>1, <2>3, <2>4, <2>5, SeqEqual
    <2> QED
      BY <1>2, <2>6, <2>8 DEF n
  <1> QED
    BY <1>3, <1>4

\* A new input keeps the invariant: it trims all or nothing.
LEMMA InputKeeps == ASSUME CodesShown, PcreInv, NEW c \in Codes, ProcessInput(c) PROVE PcreInv'
  <1> DEFINE b == Pushed(c)
             s == Str(b)
             trim == Min({Size + 1, Trim(s)})
  <1>1. /\ s \in Seq(Codes) /\ Len(s) = Size + 1 /\ s[Size + 1] = c
        /\ \A i \in 1 .. Size : s[i] = Content[i + (cur_size - Size)]
        /\ \A i \in 1 .. Size + 1 : s[i] = b[i - 1]
    BY TextIs DEF PcreInv
  <1>2. /\ b \in [0 .. max_size -> Codes \cup {Zero}]
        /\ Size \in 0 .. max_size - 1 /\ Size <= cur_size
        /\ cur_size \in 0 .. max_size /\ max_size \in Nat
    BY PushedIs, PcreAssumption DEF PcreInv, PcreTypeOK
  <1>3. \A p \in Patterns : Ends(p, s) \subseteq {Len(s)}
    <2> SUFFICES ASSUME NEW p \in Patterns PROVE Ends(p, s) \subseteq {Len(s)}
      OBVIOUS
    <2>1. Content \in Seq(Codes) /\ Len(Content) = cur_size
      <3>1. \A i \in 1 .. cur_size : Content[i] \in Codes
        BY DEF PcreInv, Remembered
      <3>2. Content = [i \in 1 .. cur_size |-> Content[i]] /\ cur_size \in Nat
        BY <1>2 DEF Content
      <3> QED
        BY <3>1, <3>2, SeqBy
    <2>2. Ends(p, Content) = {}
      BY <2>1, EndOfIs DEF PcreInv, FoundOnceAtOnce, Content
    <2>3. cur_size - Size \in Nat /\ Len(s) = Len(Content) - (cur_size - Size) + 1 /\ Len(s) - 1 = Size
      BY <1>1, <1>2, <2>1
    <2> HIDE DEF s
    <2> QED
      BY <1>1, <2>1, <2>2, <2>3, EndsLast
  <1>4. \A p \in Patterns : EndOf(p, s) \in {0, Size + 1}
    BY <1>1, <1>3, EndOfIs
  <1>5. Trim(s) \in {0, Size + 1}
    BY <1>1, <1>4, TrimIs
  <1>6. trim = Trim(s)
    BY <1>2, <1>5, LesserIs
  <1>7. found' = {p \in Patterns : EndOf(p, s) > 0} /\ text' = s
    BY DEF ProcessInput
  <1>8. q' = Shifted(b, Size + 1, trim) /\ cur_size' = Size + 1 - trim
    BY DEF ProcessInput
  <1>9. Trim(s) = 0 <=> found' = {}
    <2>1. CASE Trim(s) = 0
      BY <1>1, <1>2, <1>4, <1>7, <2>1, TrimIs
    <2>2. CASE Trim(s) # 0
      <3>1. PICK p \in Patterns : Trim(s) = EndOf(p, s)
        BY <1>1, <2>2, TrimIs
      <3>2. EndOf(p, s) > 0
        BY <1>2, <1>4, <2>2, <3>1
      <3> QED
        BY <1>7, <2>2, <3>2
    <2> QED
      BY <2>1, <2>2
  <1> HIDE DEF b, s, trim
  <1>10. inputs' \in Seq(Codes) /\ taken' \in 0 .. MaxInputs
    <2>1. inputs' = Append(inputs, c) \/ inputs' = <<c>>
      BY DEF ProcessInput
    <2>2. inputs \in Seq(Codes) /\ taken \in 0 .. MaxInputs /\ MaxInputs \in Nat
      BY PcreAssumption DEF PcreInv, PcreTypeOK
    <2>3. taken < MaxInputs /\ taken' = taken + 1
      BY DEF ProcessInput
    <2>4. Append(inputs, c) \in Seq(Codes) /\ <<c>> \in Seq(Codes)
      BY <2>2, AppendProperties
    <2>5. inputs' \in Seq(Codes)
      BY <2>1, <2>4
    <2>6. taken' \in 0 .. MaxInputs
      BY <2>2, <2>3
    <2> QED
      BY <2>5, <2>6
  <1>11. PcreTypeOK'
    <2>1. cur_size' \in 0 .. max_size
      BY <1>2, <1>5, <1>6, <1>8
    <2>2. q' \in [0 .. max_size -> Codes \cup {Zero}]
      BY <1>2, <1>5, <1>6, <1>8 DEF Shifted
    <2> QED
      BY <1>1, <1>7, <1>10, <2>1, <2>2 DEF PcreTypeOK
  <1>12. text' = Recent(inputs', Min({Len(inputs'), max_size}))
    BY TextIsRecent
  <1>13. CASE found' # {}
    <2>1. cur_size' = 0
      BY <1>2, <1>5, <1>6, <1>8, <1>9, <1>13
    <2>2. [i \in 1 .. cur_size' |-> q'[i - 1]] = <<>>
      BY <2>1
    <2>3. Remembered'
      BY <1>13, <2>1 DEF Remembered
    <2> QED
      BY <1>11, <1>12, <2>2, <2>3, EmptyText DEF PcreInv, FoundOnceAtOnce
  <1>14. CASE found' = {}
    <2>1. cur_size' = Size + 1 /\ q' = b
      <3>1. trim = 0
        BY <1>6, <1>9, <1>14
      <3>2. \A i \in 0 .. max_size : i + 0 = i
        BY <1>2
      <3>3. Shifted(b, Size + 1, 0) = [i \in 0 .. max_size |-> b[i]]
        BY <3>2 DEF Shifted
      <3> QED
        BY <1>2, <1>8, <3>1, <3>3
    <2>2. [i \in 1 .. cur_size' |-> q'[i - 1]] = s
      <3> DEFINE t == [i \in 1 .. Size + 1 |-> b[i - 1]]
      <3>1. \A i \in 1 .. Size + 1 : t[i] = s[i] /\ t[i] \in Codes
        <4>1. \A i \in 1 .. Size + 1 : s[i] \in Codes
          BY <1>1, ElementOfSeq
        <4> QED
          BY <1>1, <4>1
      <3>2. Size + 1 \in Nat /\ t = [i \in 1 .. Size + 1 |-> t[i]]
        BY <1>2
      <3> HIDE DEF t
      <3>3. t \in Seq(Codes) /\ Len(t) = Size + 1
        BY <3>1, <3>2, SeqBy
      <3>4. t = s
        BY <1>1, <3>1, <3>3, SeqEqual
      <3> QED
        BY <2>1, <3>4 DEF t
    <2>3. \A p \in Patterns : EndOf(p, s) = 0
      BY <1>4, <1>7, <1>14, <1>2
    <2>4. /\ cur_size' = Len(s) /\ \A i \in 1 .. cur_size' : Content'[i] = s[i] /\ s[i] \in Codes
      BY <1>1, <2>1, <2>2, ElementOfSeq DEF Content
    <2>5. /\ cur_size' = IF Len(inputs') <= max_size THEN Len(inputs') ELSE max_size
          /\ \A i \in 1 .. cur_size' : s[i] = inputs'[Len(inputs') - cur_size' + i]
      <3> DEFINE n == IF Len(inputs') <= max_size THEN Len(inputs') ELSE max_size
      <3>1. /\ Len(inputs') \in Nat /\ Min({Len(inputs'), max_size}) = n
            /\ n \in 0 .. Len(inputs')
        BY <1>2, <1>10, EmptySeq, LesserIs
      <3>2. s = SubSeq(inputs', Len(inputs') - n + 1, Len(inputs'))
        BY <1>7, <1>12, <3>1 DEF Recent
      <3> HIDE DEF n
      <3>3. \A i \in Len(inputs') - n + 1 .. Len(inputs') : inputs'[i] \in Codes
        BY <1>10, <3>1, ElementOfSeq
      <3>4. /\ Len(s) = IF Len(inputs') - n + 1 <= Len(inputs') THEN Len(inputs') - (Len(inputs') - n + 1) + 1 ELSE 0
            /\ \A i \in 1 .. Len(inputs') - (Len(inputs') - n + 1) + 1 :
                 s[i] = inputs'[(Len(inputs') - n + 1) + i - 1]
        <4>1. Len(inputs') - n + 1 \in Int /\ Len(inputs') \in Int
          BY <3>1
        <4> QED
          BY <3>2, <3>3, <4>1, SubSeqProperties
      <3>5. Len(s) = n
        BY <3>1, <3>4
      <3>6. ASSUME NEW i \in 1 .. n PROVE s[i] = inputs'[Len(inputs') - n + i]
        <4>1. /\ i \in 1 .. Len(inputs') - (Len(inputs') - n + 1) + 1
              /\ (Len(inputs') - n + 1) + i - 1 = Len(inputs') - n + i
          BY <3>1, <3>6
        <4> QED
          BY <3>4, <4>1
      <3>7. cur_size' = n
        BY <2>4, <3>5
      <3> QED
        BY <3>6, <3>7 DEF n
    <2>6. Remembered'
      BY <1>14, <2>4, <2>5 DEF Remembered
    <2> QED
      BY <1>11, <1>12, <2>2, <2>3, <2>6 DEF PcreInv, FoundOnceAtOnce
  <1> QED
    BY <1>13, <1>14

\* Nothing that was found is found again, and nothing is found late, for any
\* patterns, any codes of one character and a buffer of any size
\* (CPcreTrigger::ProcessAnchestors, CPcreStringQueue).
THEOREM FoundOnceAtOnceCorrect == CodesShown => (PcreSpec => []FoundOnceAtOnce)
  <1> SUFFICES ASSUME CodesShown PROVE PcreSpec => []FoundOnceAtOnce
    OBVIOUS
  <1>1. PcreInv /\ [PcreNext]_pcreVars => PcreInv'
    <2> SUFFICES ASSUME PcreInv, [PcreNext]_pcreVars PROVE PcreInv'
      OBVIOUS
    <2>1. CASE UNCHANGED pcreVars
      BY <2>1 DEF pcreVars, PcreInv, PcreTypeOK, Remembered, Content, FoundOnceAtOnce
    <2>2. ASSUME NEW c \in Codes, ProcessInput(c) PROVE PcreInv'
      BY <2>2, InputKeeps
    <2> QED
      BY <2>1, <2>2 DEF PcreNext
  <1>2. PcreInv => FoundOnceAtOnce
    BY DEF PcreInv
  <1> QED
    BY PcreStart, <1>1, <1>2, PTL DEF PcreSpec

(***************************************************************************)
(* The types of all four.                                                  *)
(***************************************************************************)

\* A count publishes numbers, as a stopped one does.
LEMMA TimeTypes == TimeTypeOK /\ [TimeNext]_timeVars => TimeTypeOK'
  <1> SUFFICES ASSUME TimeTypeOK, [TimeNext]_timeVars PROVE TimeTypeOK'
    OBVIOUS
  <1> USE CountAssumption
  <1>a. /\ cur_time \in 0 .. MaxNow /\ setup \in Setups
        /\ time_start \in Int /\ time_uptrig \in Int /\ time_downtrig \in Int
        /\ values \in Outputs /\ values.direct \in {0, 1}
    BY DEF TimeTypeOK, times, Outputs
  <1>1. CASE UNCHANGED timeVars
    BY <1>1 DEF TimeTypeOK, timeVars, times
  <1>2. CASE Tick
    BY <1>2 DEF Tick, TimeTypeOK, times
  <1>3. ASSUME NEW c \in Classes, FirstInput(c) PROVE TimeTypeOK'
    BY <1>3 DEF FirstInput, TimeTypeOK, times
  <1>4. ASSUME NEW c \in Classes, Arm(c) PROVE TimeTypeOK'
    <2>1. values' \in Outputs /\ prev_values' \in Outputs
      BY <1>4 DEF Arm, Announce, Outputs
    <2>2. times' \in Int \X Int \X Int
      BY <1>4, <1>a DEF Arm, Input, times
    <2> QED
      BY <1>4, <1>a, <2>1, <2>2 DEF Arm, Input, TimeTypeOK
  <1>5. ASSUME NEW c \in Classes, Release(c) PROVE TimeTypeOK'
    <2>1. values' \in Outputs /\ prev_values' \in Outputs
      BY <1>5, <1>a DEF Release, Announce, Outputs
    <2> QED
      BY <1>5, <2>1 DEF Release, Input, TimeTypeOK, times
  <1>6. \A d \in {0, 1} : UpReading(d) \in Outputs /\ DownReading \in Outputs
    BY <1>a DEF UpReading, DownReading, Elapsed, Outputs
  <1>7. Completed \in 0 .. MaxNow \cup {Never} /\ NextUp \in Int
    BY <1>a DEF Completed, NextUp
  <1>8. ASSUME NEW c \in Classes, CountUp(c) PROVE TimeTypeOK'
    <2>1. values' \in Outputs /\ prev_values' \in Outputs \cup {Unset}
      BY <1>8, <1>a, <1>6 DEF CountUp, Announce, TimeTypeOK
    <2>2. times' \in Int \X Int \X Int /\ since' \in 0 .. MaxNow \cup {Never}
      BY <1>8, <1>a, <1>7 DEF CountUp, times, TimeTypeOK
    <2>3. /\ trigger_stopped' \in BOOLEAN /\ exited' \in BOOLEAN
          /\ direction' \in {"up", "down", "other"}
      BY <1>8 DEF CountUp, TimeTypeOK
    <2> QED
      BY <1>8, <2>1, <2>2, <2>3 DEF CountUp, Counts, Input, TimeTypeOK
  <1>9. ASSUME NEW c \in Classes, CountDown(c) PROVE TimeTypeOK'
    <2>1. values' \in Outputs /\ prev_values' \in Outputs \cup {Unset}
      BY <1>9, <1>a, <1>6 DEF CountDown, Announce, TimeTypeOK
    <2>2. times' \in Int \X Int \X Int /\ since' \in 0 .. MaxNow \cup {Never}
      BY <1>9, <1>a, <1>7 DEF CountDown, times, TimeTypeOK
    <2>3. /\ trigger_stopped' \in BOOLEAN /\ exited' \in BOOLEAN
          /\ direction' \in {"up", "down", "other"}
      BY <1>9 DEF CountDown, TimeTypeOK, Stops
    <2> QED
      BY <1>9, <2>1, <2>2, <2>3 DEF CountDown, Counts, Input, TimeTypeOK
  <1>10. ASSUME NEW c \in Classes, CountNothing(c) PROVE TimeTypeOK'
    BY <1>10, <1>a DEF CountNothing, Counts, Input, Announce, TimeTypeOK, times
  <1> QED
    BY <1>1, <1>2, <1>3, <1>4, <1>5, <1>8, <1>9, <1>10 DEF TimeNext

\* A buffer of any codes keeps its bounds, whatever was found in it.
LEMMA PcreTypes == PcreTypeOK /\ [PcreNext]_pcreVars => PcreTypeOK'
  <1> SUFFICES ASSUME PcreTypeOK, [PcreNext]_pcreVars PROVE PcreTypeOK'
    OBVIOUS
  <1>1. CASE UNCHANGED pcreVars
    BY <1>1 DEF pcreVars, PcreTypeOK
  <1>2. ASSUME NEW c \in Codes, ProcessInput(c) PROVE PcreTypeOK'
    <2> DEFINE b == Pushed(c)
               s == Str(b)
               trim == Min({Size + 1, Trim(s)})
    <2>1. /\ b \in [0 .. max_size -> Codes \cup {Zero}] /\ b[Size + 1] = Zero
          /\ Size \in 0 .. max_size - 1 /\ max_size \in Nat
      BY PushedIs, PcreAssumption
    <2>2. s \in Seq(Codes) /\ Len(s) \in 0 .. Size + 1
      BY <2>1, StrIs
    <2>3. trim \in 0 .. Size + 1
      <3>1. Trim(s) \in Nat /\ Size + 1 \in Nat
        BY <2>1, <2>2, TrimIs
      <3> QED
        BY <3>1, LesserIs
    <2>4. /\ text' = s /\ found' = {p \in Patterns : EndOf(p, s) > 0}
          /\ q' = Shifted(b, Size + 1, trim) /\ cur_size' = Size + 1 - trim
          /\ taken < MaxInputs /\ taken' = taken + 1
          /\ inputs' = Append(inputs, c) \/ inputs' = <<c>>
      BY <1>2 DEF ProcessInput
    <2> HIDE DEF b, s, trim
    <2>5. q' \in [0 .. max_size -> Codes \cup {Zero}]
      BY <2>1, <2>3, <2>4 DEF Shifted
    <2>6. cur_size' \in 0 .. max_size
      BY <2>1, <2>3, <2>4
    <2>7. inputs' \in Seq(Codes)
      <3>1. inputs \in Seq(Codes)
        BY DEF PcreTypeOK
      <3>2. Append(inputs, c) \in Seq(Codes) /\ <<c>> \in Seq(Codes)
        BY <3>1, AppendProperties
      <3> QED
        BY <2>4, <3>2
    <2>8. taken' \in 0 .. MaxInputs
      BY <2>4, PcreAssumption DEF PcreTypeOK
    <2> QED
      BY <2>2, <2>4, <2>5, <2>6, <2>7, <2>8 DEF PcreTypeOK
  <1> QED
    BY <1>1, <1>2 DEF PcreNext

\* All four kinds keep their types, whatever they are set up with; the codes of a
\* pattern trigger may even hold the zero.
THEOREM TriggersTypeCorrect == TriggersSpec => []TriggersTypeOK
  <1>1. TimeInit => TimeTypeOK
    <2> SUFFICES ASSUME TimeInit PROVE TimeTypeOK
      OBVIOUS
    <2>1. times \in Int \X Int \X Int
      BY HeapAssumption DEF TimeInit, times
    <2>2. Zeros \in Outputs
      BY DEF Zeros, Outputs
    <2>3. values \in Outputs /\ prev_values \in Outputs \cup {Unset}
      BY <2>2 DEF TimeInit
    <2>4. cur_time \in 0 .. MaxNow /\ since \in 0 .. MaxNow \cup {Never}
      BY CountAssumption DEF TimeInit
    <2>5. /\ setup \in Setups /\ input_state \in Classes \cup {"unknown"}
          /\ was_trigged \in BOOLEAN /\ trigger_stopped \in BOOLEAN /\ exited \in BOOLEAN
          /\ direction \in {"up", "down", "other"}
      BY DEF TimeInit
    <2> QED
      BY <2>1, <2>3, <2>4, <2>5 DEF TimeTypeOK
  <1>2. PcreInit => PcreTypeOK
    BY PcreAssumption, EmptySeq DEF PcreInit, PcreTypeOK
  <1>3. LogInv => LogTypeOK
    BY DEF LogInv
  <1>4. NeuroInv => NeuroTypeOK
    BY DEF NeuroInv
  <1>5. TimeSpec => []TimeTypeOK
    BY <1>1, TimeTypes, PTL DEF TimeSpec
  <1>6. PcreSpec => []PcreTypeOK
    BY <1>2, PcreTypes, PTL DEF PcreSpec
  <1>7. LogSpec => []LogTypeOK
    BY <1>3, LogStart, LogStep, PTL DEF LogSpec
  <1>8. NeuroSpec => []NeuroTypeOK
    BY <1>4, NeuroStart, NeuroKeeps, PTL DEF NeuroSpec
  <1> QED
    BY <1>5, <1>6, <1>7, <1>8, PTL DEF TriggersSpec, TriggersTypeOK
=============================================================================
