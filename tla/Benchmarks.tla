----------------------------- MODULE Benchmarks ---------------------------
(* common/benchmarks: what a server makes of the rounds it has timed.       *)
(*                                                                          *)
(* Times are nanoseconds in an unsigned bench_t, and every sum of them is   *)
(* one too.  now() reads TIME_UTC, which an administrator or NTP may set    *)
(* back, and adds seconds and nanoseconds as doubles: at today's dates a    *)
(* double cannot tell fewer than 256 of them apart.                         *)
EXTENDS Integers

CONSTANTS
    Counts,      \* the values -c may be given
    INT32_MAX,
    Word,        \* the number of values of a bench_t
    Grain,       \* the distance of two doubles at today's dates
    Steps,       \* bound: how far the clock may move at a time
    MaxClock     \* bound: how far it may get

ASSUME CountsAssumption == Counts \subseteq Int
ASSUME WordAssumption == INT32_MAX \in Nat /\ Word \in Nat /\ INT32_MAX < Word
ASSUME GrainAssumption == Grain \in Nat \ {0}
ASSUME StepsAssumption == Steps \subseteq Nat
ASSUME ClockAssumption == MaxClock \in Nat /\ MaxClock + Grain < Word

VARIABLES
    pc,            \* what the server is doing
    clock,         \* TIME_UTC
    total_start, single_start, minimum, maximum, sum, squared_sum,
    total_time,    \* of the report
    message,       \* the server's loop variable
    count,         \* -c
    times,         \* history: the samples,
    exact,         \* the sum of them,
    squares,       \* the sum of their squares,
    isSet          \* and whether the clock was set back

bench == <<total_start, single_start, minimum, maximum, sum, squared_sum, total_time>>
history == <<times, exact, squares>>
vars == <<pc, clock, bench, message, count, history, isSet>>

Init == /\ pc = "off"
        /\ clock \in 0 .. MaxClock
        /\ total_start = 0 /\ single_start = 0 /\ minimum = 0 /\ maximum = 0
        /\ sum = 0 /\ squared_sum = 0 /\ total_time = 0
        /\ message = 0
        /\ count \in Counts
        /\ times = {} /\ exact = 0 /\ squares = 0
        /\ isSet = FALSE
---------------------------------------------------------------------------
(* To the nearest double, and to the even one of two.                       *)
Rounded(t) == LET q == t \div Grain
                  r == t % Grain
              IN  Grain * (IF 2 * r < Grain \/ (2 * r = Grain /\ q % 2 = 0) THEN q ELSE q + 1)
now == Rounded(clock)

setup_benchmarks ==
    /\ pc = "off"
    /\ pc' = "loop"
    /\ minimum' = INT32_MAX
    /\ maximum' = 0 /\ sum' = 0 /\ squared_sum' = 0
    /\ total_start' = now
    /\ UNCHANGED <<clock, single_start, total_time, message, count, history, isSet>>

(* Mutation: every round is timed from the first one's start.               *)
StartRoundOnce ==
    /\ pc = "loop" /\ message < count
    /\ pc' = "round"
    /\ single_start' = IF message = 0 THEN now ELSE single_start
    /\ UNCHANGED <<clock, total_start, minimum, maximum, sum, squared_sum, total_time>>
    /\ UNCHANGED <<message, count, history, isSet>>

StartRound ==
    /\ pc = "loop" /\ message < count
    /\ pc' = "round"
    /\ single_start' = now
    /\ UNCHANGED <<clock, total_start, minimum, maximum, sum, squared_sum, total_time>>
    /\ UNCHANGED <<message, count, history, isSet>>

(* What one sample, time, does to the sums.                                 *)
Records(time) ==
    /\ sum' = (sum + time) % Word
    /\ times' = times \cup {time}
    /\ exact' = exact + time
    /\ squares' = squares + time * time

(* Mutation: a sample is the maximum only when it is not the minimum.       *)
BenchmarkElse ==
    LET time == (now - single_start) % Word
    IN  /\ pc = "round"
        /\ pc' = "loop"
        /\ message' = message + 1
        /\ IF time < minimum THEN minimum' = time /\ UNCHANGED maximum
           ELSE maximum' = (IF time > maximum THEN time ELSE maximum) /\ UNCHANGED minimum
        /\ squared_sum' = (squared_sum + time * time) % Word
        /\ Records(time)
        /\ UNCHANGED <<clock, total_start, single_start, total_time, count, isSet>>

(* Mutation: the square is not taken.                                       *)
BenchmarkUnsquared ==
    LET time == (now - single_start) % Word
    IN  /\ pc = "round"
        /\ pc' = "loop"
        /\ message' = message + 1
        /\ minimum' = IF time < minimum THEN time ELSE minimum
        /\ maximum' = IF time > maximum THEN time ELSE maximum
        /\ squared_sum' = (squared_sum + time) % Word
        /\ Records(time)
        /\ UNCHANGED <<clock, total_start, single_start, total_time, count, isSet>>

benchmark ==
    LET time == (now - single_start) % Word
    IN  /\ pc = "round"
        /\ pc' = "loop"
        /\ message' = message + 1
        /\ minimum' = IF time < minimum THEN time ELSE minimum
        /\ maximum' = IF time > maximum THEN time ELSE maximum
        /\ squared_sum' = (squared_sum + time * time) % Word
        /\ Records(time)
        /\ UNCHANGED <<clock, total_start, single_start, total_time, count, isSet>>

(* After the loop. The assertion comes first.                               *)
evaluate ==
    /\ pc = "loop" /\ message >= count
    /\ IF count > 0
       THEN pc' = "done" /\ total_time' = (now - total_start) % Word
       ELSE pc' = "aborted" /\ UNCHANGED total_time
    /\ UNCHANGED <<clock, total_start, single_start, minimum, maximum, sum, squared_sum>>
    /\ UNCHANGED <<message, count, history, isSet>>

(* Time passes, or is set back.                                             *)
Tick ==
    /\ \E d \in Steps : clock + d <= MaxClock /\ clock' = clock + d
    /\ UNCHANGED <<pc, bench, message, count, history, isSet>>

SetBack ==
    /\ \E d \in Steps : d <= clock /\ clock' = clock - d
    /\ isSet' = TRUE
    /\ UNCHANGED <<pc, bench, message, count, history>>

Next == \/ setup_benchmarks \/ StartRound \/ benchmark \/ evaluate
        \/ (pc \in {"loop", "round"} /\ (Tick \/ SetBack))

Spec == Init /\ [][Next]_vars
---------------------------------------------------------------------------
TypeOK ==
    /\ pc \in {"off", "loop", "round", "done", "aborted"}
    /\ clock \in 0 .. MaxClock
    /\ total_start \in Nat /\ single_start \in Nat
    /\ minimum \in Nat /\ maximum \in Nat /\ sum \in Nat /\ squared_sum \in Nat
    /\ total_time \in Nat
    /\ message \in Nat /\ count \in Counts
    /\ times \subseteq Nat /\ exact \in Nat /\ squares \in Nat
    /\ isSet \in BOOLEAN

(* The minimum and the maximum are samples and bound all of them, also the  *)
(* wrapped ones of a clock that was set back. Only if no round was shorter  *)
(* than INT32_MAX is the minimum no round's.                                *)
MinMax ==
    message > 0 =>
        /\ \A t \in times : minimum <= t /\ t <= maximum
        /\ maximum \in times \cup {0}
        /\ minimum \in times \/ (minimum = INT32_MAX /\ \A t \in times : t >= INT32_MAX)

(* While the squares do not overflow, the variance that evaluate() takes    *)
(* the root of is not negative by more than what its integer division cuts  *)
(* off, which is less than 1.                                               *)
SigmaReal ==
    squares < Word /\ message > 0 =>
        message * message * (squared_sum \div message + 1) > sum * sum

(* With a clock that is not set back the rounds do not add up to more than  *)
(* the total, however coarse its readings, so the average times the count   *)
(* is at most the total duration reported.                                  *)
RoundsWithinTotal == pc = "done" /\ ~isSet => sum <= total_time
===========================================================================
