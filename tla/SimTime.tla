------------------------------ MODULE SimTime ------------------------------
(***************************************************************************)
(* Kiaro::Support::Time (support/Time.cpp): a stack of running timers and  *)
(* the simulation time, a 32-bit count of microseconds that the outermost  *)
(* timer advances when it stops.  gettimeofday is external: what the code  *)
(* uses of it is its value modulo 2^32, the difference of two readings     *)
(* being added to a 32-bit counter.                                        *)
(***************************************************************************)
EXTENDS Naturals, Sequences

CONSTANTS SimMod,    \* 2^32, the range of currentSimTime
          IdMod,     \* 2^8, the range of a timer identifier
          UsPerMs,   \* 1000
          Elapsed,   \* the times that pass between two readings of the clock
          MaxTimers  \* bound on the timers running at once

ASSUME SimTimeAssumption ==
    /\ SimMod \in Nat /\ SimMod > 1
    /\ IdMod \in Nat /\ IdMod > 1
    /\ UsPerMs \in Nat /\ UsPerMs > 0
    /\ Elapsed \subseteq 0..(SimMod - 1)
    /\ MaxTimers \in Nat

VARIABLES timerStack,     \* the clock readings of the running timers
          currentSimTime, \* simulated microseconds
          clock,          \* gettimeofday in microseconds, modulo SimMod
          busy            \* history: time spent with a timer running, modulo SimMod

timeVars == <<timerStack, currentSimTime, clock, busy>>

Wrap(n) == IF n >= SimMod THEN n - SimMod ELSE n
Since(reading) == IF clock >= reading THEN clock - reading ELSE clock + SimMod - reading

getSimTimeMilliseconds == currentSimTime \div UsPerMs

TimeInit ==
    /\ timerStack = <<>> /\ currentSimTime = 0
    /\ clock = 0 /\ busy = 0

\* The identifier startTimer returns is the size of the stack cut to a U8.
TimerId(size) == size % IdMod

StartTimer ==
    /\ Len(timerStack) < MaxTimers
    /\ timerStack' = Append(timerStack, clock)
    /\ UNCHANGED <<currentSimTime, clock, busy>>

\* Mutant of Mismatched: the size is cut to eight bits before it is compared.
BugMismatched(id) == timerStack = <<>> \/ id # Len(timerStack) % IdMod
Mismatched(id) == timerStack = <<>> \/ id # Len(timerStack)
\* Mutants of CountsAsSimTime: every timer counts; identifiers start at 0.
BugCountsAlways(id) == TRUE
BugCountsFromZero(id) == id = 0
CountsAsSimTime(id) == id = 1

StopTimer(id) ==
    /\ ~Mismatched(id)
    /\ currentSimTime' = IF CountsAsSimTime(id)
                         THEN Wrap(currentSimTime + Since(timerStack[Len(timerStack)]))
                         ELSE currentSimTime
    /\ timerStack' = SubSeq(timerStack, 1, Len(timerStack) - 1)
    /\ UNCHANGED <<clock, busy>>

\* stopTimer throws std::logic_error before it changes anything.
StopThrows(id) == Mismatched(id) /\ UNCHANGED timeVars

Elapse(d) ==
    /\ clock' = Wrap(clock + d)
    /\ busy' = IF timerStack = <<>> THEN busy ELSE Wrap(busy + d)
    /\ UNCHANGED <<timerStack, currentSimTime>>

TimeNext ==
    \/ StartTimer
    \/ \E id \in 0..(IdMod - 1) : StopTimer(id) \/ StopThrows(id)
    \/ \E d \in Elapsed : Elapse(d)

TimeSpec == TimeInit /\ [][TimeNext]_timeVars

-----------------------------------------------------------------------------
(* Properties                                                              *)

\* Types and ranges of the clocks and of the stack of readings.
TimeTypeOK ==
    /\ timerStack \in Seq(0..(SimMod - 1))
    /\ currentSimTime \in 0..(SimMod - 1)
    /\ clock \in 0..(SimMod - 1)
    /\ busy \in 0..(SimMod - 1)

\* Nested timers are counted once: whatever timers were started and stopped
\* inside one another, the simulation time is the time during which at least
\* one timer ran, short of the outermost timer still running
\* (Time.cpp:46-50).
SimTimeIsBusyTime ==
    IF timerStack = <<>> THEN busy = currentSimTime
    ELSE busy = Wrap(currentSimTime + Since(timerStack[1]))

\* The simulation time moves only when the last running timer stops, although
\* identifiers are eight bits wide and the stack may hold more timers than
\* eight bits count ("Only add deltas if we're the upper most timer",
\* Time.cpp:48).
OnlyUppermostCounts ==
    [][currentSimTime' # currentSimTime =>
          Len(timerStack) = 1 /\ timerStack' = <<>>]_timeVars

TimeInv == TimeTypeOK /\ SimTimeIsBusyTime
=============================================================================
