---------------------------- MODULE TimeTrigger ----------------------------
(***************************************************************************)
(* CTimeTrigger: a counter of time.  An input that the trigger is          *)
(* sensitive to starts it; every processing after that publishes how far   *)
(* it got, and the end of a count stops it, restarts it or turns it round. *)
(*                                                                         *)
(* An input value is the class the thresholds put it in.  The constructor  *)
(* declares locals `sense' and `direction' that hide the members, and sets *)
(* neither the members nor the three times, so these start with whatever   *)
(* the heap holds.  Nobody calls SetEnabled: a stopped trigger stays so.   *)
(***************************************************************************)
EXTENDS Integers

CONSTANTS
    UpTime, DownTime, \* up_time and down_time, in samples
    HeapTimes,        \* what an uninitialised time may hold
    MaxNow            \* bound: the last instant of a behaviour

ASSUME CountAssumption == UpTime \in Nat /\ DownTime \in Nat /\ MaxNow \in Nat

ASSUME HeapAssumption == HeapTimes \subseteq Int

VARIABLES
    cur_time,
    setup,           \* mode, circle, latch and sense
    input_state, was_trigged, trigger_stopped, direction,
    time_start, time_uptrig, time_downtrig,
    values, prev_values,
    exited,          \* exit(5) was called
    since            \* history: when the count was started or last completed

times    == <<time_start, time_uptrig, time_downtrig>>
timeVars == <<cur_time, setup, input_state, was_trigged, trigger_stopped,
              direction, times, values, prev_values, exited, since>>

Classes == {"underflow", "inrange", "overflow"}
Setups  == [mode: {"up", "down", "updown"}, circle: {"once", "infinite", "count"},
            latch: {"combinational", "triggered"},
            sense: {"trigup", "trigdown", "trigrange", "other"}]

Never == -1

\* An output that shows nothing is -1.  Progress is the time counted, which
\* the code divides by the length of the count.
Outputs == [direct: {0, 1}, direct_pr: Int, reverse_pr: Int,
            direct_fl: {0, 1, -1}, reverse_fl: {0, 1, -1}]

Zeros == [direct |-> 0, direct_pr |-> 0, reverse_pr |-> 0, direct_fl |-> 0,
          reverse_fl |-> 0]

\* No published value: differs from every set of outputs.
Unset == [Zeros EXCEPT !.direct = -10]

TimeTypeOK ==
    /\ cur_time \in 0 .. MaxNow
    /\ setup \in Setups
    /\ input_state \in Classes \cup {"unknown"}
    /\ was_trigged \in BOOLEAN /\ trigger_stopped \in BOOLEAN /\ exited \in BOOLEAN
    /\ direction \in {"up", "down", "other"}
    /\ times \in Int \X Int \X Int
    /\ values \in Outputs
    /\ prev_values \in Outputs \cup {Unset}
    /\ since \in 0 .. MaxNow \cup {Never}

TimeInit ==
    /\ cur_time = 0
    /\ setup \in Setups
    /\ input_state = "unknown"
    /\ was_trigged = FALSE /\ trigger_stopped = FALSE /\ exited = FALSE
    /\ direction \in {"up", "down", "other"}
    /\ time_start \in HeapTimes /\ time_uptrig \in HeapTimes
    /\ time_downtrig \in HeapTimes
    /\ values = Zeros
    /\ prev_values = Unset
    /\ since = Never

----------------------------------------------------------------------------

Fires(c) == \/ setup.sense = "trigup" /\ c = "overflow"
            \/ setup.sense = "trigdown" /\ c = "underflow"
            \/ setup.sense = "trigrange" /\ c = "inrange"

Processed == ~trigger_stopped /\ ~exited

\* handle_values_differences: what differs is announced.
Announce(new) == values' = new /\ prev_values' = new

FirstInput(c) ==
    /\ Processed
    /\ input_state = "unknown"
    /\ input_state' = c
    /\ UNCHANGED <<cur_time, setup, was_trigged, trigger_stopped, direction,
                   times, values, prev_values, exited, since>>

\* An input of class c that is not the first.
Input(c) ==
    /\ Processed
    /\ input_state # "unknown"
    /\ input_state' = c
    /\ UNCHANGED <<cur_time, setup>>

Arm(c) ==
    /\ Input(c)
    /\ ~was_trigged /\ Fires(c)
    /\ was_trigged' = TRUE
    /\ Announce([direct |-> 0, direct_pr |-> -1, reverse_pr |-> -1,
                 direct_fl |-> -1, reverse_fl |-> -1])
    /\ time_start' = cur_time
    /\ since' = cur_time
    /\ IF setup.mode = "down"
       THEN /\ direction' = "down"
            /\ time_downtrig' = cur_time + DownTime
            /\ UNCHANGED time_uptrig
       ELSE /\ direction' = "up"
            /\ time_uptrig' = cur_time + UpTime
            /\ UNCHANGED time_downtrig
    /\ UNCHANGED <<trigger_stopped, exited>>

Releases(c) == was_trigged /\ ~Fires(c) /\ setup.latch = "combinational"

Release(c) ==
    /\ Input(c)
    /\ Releases(c)
    /\ was_trigged' = FALSE
    /\ Announce(CASE direction = "up" ->
                      [direct |-> 0, direct_pr |-> -1, reverse_pr |-> -1,
                       direct_fl |-> 1, reverse_fl |-> -1]
                  [] direction = "down" ->
                      [direct |-> 0, direct_pr |-> -1, reverse_pr |-> -1,
                       direct_fl |-> -1, reverse_fl |-> 1]
                  [] OTHER -> values)
    /\ UNCHANGED <<trigger_stopped, direction, times, exited, since>>

\* The count goes on, whether or not the trigger has ever fired.
Counts(c) == Input(c) /\ ~(~was_trigged /\ Fires(c)) /\ ~Releases(c)

Elapsed == cur_time - time_start

UpReading(d) == [direct |-> d, direct_pr |-> Elapsed, reverse_pr |-> -1,
                 direct_fl |-> -1, reverse_fl |-> -1]

DownReading == [direct |-> values.direct, direct_pr |-> -1,
                reverse_pr |-> Elapsed, direct_fl |-> -1, reverse_fl |-> -1]

\* When the next count ends, after one up ended.
NextUpInStep == time_uptrig + UpTime
NextUp == cur_time + IF setup.mode = "up" THEN UpTime ELSE DownTime

Completed == IF since = Never THEN Never ELSE cur_time

\* The loop setting decides what the end of a count means.
Stops == setup.circle = "once"
Exits == setup.circle = "count"

CountUp(c) ==
    /\ Counts(c)
    /\ direction = "up"
    /\ \/ /\ cur_time < time_uptrig
          /\ Announce(UpReading(values.direct))
          /\ UNCHANGED <<trigger_stopped, direction, times, exited, since>>
       \/ /\ cur_time >= time_uptrig
          /\ setup.mode = "up" /\ Exits
          /\ exited' = TRUE
          /\ UNCHANGED <<trigger_stopped, direction, times, values, prev_values,
                         since>>
       \/ /\ cur_time >= time_uptrig
          /\ ~(setup.mode = "up" /\ Exits)
          /\ Announce(UpReading(1))
          /\ trigger_stopped' = (setup.mode = "up" /\ Stops)
          /\ direction' = IF setup.mode = "updown" THEN "down" ELSE direction
          /\ IF setup.mode = "down" THEN UNCHANGED <<time_start, time_uptrig, since>>
             ELSE time_start' = cur_time /\ time_uptrig' = NextUp /\ since' = Completed
          /\ UNCHANGED <<time_downtrig, exited>>
    /\ UNCHANGED was_trigged

\* The end of a count down leaves time_downtrig as it is.
CountDown(c) ==
    /\ Counts(c)
    /\ direction = "down"
    /\ \/ /\ cur_time >= time_downtrig
          /\ setup.mode # "up" /\ Exits
          /\ exited' = TRUE
          /\ UNCHANGED <<trigger_stopped, direction, times, values, prev_values,
                         since>>
       \/ /\ ~(cur_time >= time_downtrig /\ setup.mode # "up" /\ Exits)
          /\ Announce(DownReading)
          /\ IF cur_time >= time_downtrig /\ setup.mode # "up"
             THEN /\ trigger_stopped' = Stops
                  /\ direction' = IF setup.mode = "updown" /\ ~Stops
                                  THEN "up" ELSE direction
                  /\ time_start' = cur_time /\ since' = Completed
                  /\ time_uptrig' = cur_time + IF setup.mode = "down"
                                               THEN DownTime ELSE UpTime
                  /\ UNCHANGED time_downtrig
             ELSE UNCHANGED <<trigger_stopped, direction, times, since>>
          /\ UNCHANGED exited
    /\ UNCHANGED was_trigged

\* A direction that is neither leaves the outputs as they are.
CountNothing(c) ==
    /\ Counts(c)
    /\ direction = "other"
    /\ Announce(values)
    /\ UNCHANGED <<was_trigged, trigger_stopped, direction, times, exited, since>>

Tick ==
    /\ cur_time < MaxNow
    /\ ~exited
    /\ cur_time' = cur_time + 1
    /\ UNCHANGED <<setup, input_state, was_trigged, trigger_stopped, direction,
                   times, values, prev_values, exited, since>>

TimeNext ==
    \/ \E c \in Classes : \/ FirstInput(c) \/ Arm(c) \/ Release(c)
                          \/ CountUp(c) \/ CountDown(c) \/ CountNothing(c)
    \/ Tick

TimeSpec == TimeInit /\ [][TimeNext]_timeVars

----------------------------------------------------------------------------

\* A count up completes no sooner than UpTime after the counter was armed, or
\* last completed a count in either direction, whatever its input did meanwhile
\* and however late it was processed (time_trigger.cpp:399, 447).
CompletesUp == since' # since /\ values'.direct = 1 /\ values'.direct_pr # -1

CyclesFull ==
    [][since # Never /\ CompletesUp => cur_time - since >= UpTime]_timeVars
=============================================================================
