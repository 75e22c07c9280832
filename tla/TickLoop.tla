------------------------------ MODULE TickLoop ------------------------------
(***************************************************************************)
(* The loop of CoreSingleton::run (engine/CoreSingleton.cpp:170-226) as it *)
(* drives the scheduler and the simulation time: one timer around each     *)
(* tick, the scheduler first, then the client or the server, a sleep, and  *)
(* a catch that returns to the head of the loop.  A delegate or a packet   *)
(* handler that throws skips everything up to the catch, stopTimer too.    *)
(***************************************************************************)
EXTENDS SimTime

CONSTANTS Event, Wait, MaxSimMS, \* of Scheduler
          Throwing   \* which of "delegate" and "network" may throw

ASSUME TickLoopAssumption ==
    /\ Throwing \subseteq {"delegate", "network"}
    /\ Event \subseteq Nat \ {0} /\ Wait \subseteq Nat

VARIABLES mScheduledEventSet, mIsCancelled, mTriggerTimeMS,
          control, cursor, stale, currentSimTimeMS,
          userCancelled, earliest, returned,
          pc,      \* where the loop is
          timerID  \* what startTimer returned in this tick

Sched == INSTANCE Scheduler WITH simMS <- getSimTimeMilliseconds

schedulerVars == <<mScheduledEventSet, mIsCancelled, mTriggerTimeMS, control, cursor,
                   stale, currentSimTimeMS, userCancelled, earliest, returned>>
loopVars == <<timeVars, schedulerVars, pc, timerID>>

LoopInit ==
    /\ TimeInit /\ Sched!SchedInit
    /\ pc = "head" /\ timerID = 0

\* while (mRunning && mIrrlichtDevice->run())
Quit ==
    /\ pc = "head" /\ pc' = "done"
    /\ UNCHANGED <<timeVars, schedulerVars, timerID>>

BeginTick ==
    /\ pc = "head" /\ pc' = "update"
    /\ StartTimer
    /\ timerID' = TimerId(Len(timerStack'))
    /\ UNCHANGED schedulerVars

BeginUpdate ==
    /\ pc = "update" /\ pc' = "walk"
    /\ UNCHANGED <<timeVars, timerID>>
    /\ Sched!BeginUpdate

WalkStep ==
    /\ pc = "walk"
    /\ UNCHANGED <<timeVars, pc, timerID>>
    /\ \/ Sched!Dispatch \/ Sched!DispatchReturns \/ Sched!RemoveCancelled
       \/ Sched!Keep \/ Sched!IncrementLive \/ Sched!IncrementStale

WalkEnds ==
    /\ pc = "walk" /\ pc' = "network"
    /\ UNCHANGED <<timeVars, timerID>>
    /\ Sched!EndUpdate

Throw(who) == who \in Throwing /\ pc' = "catch"

DelegateThrows ==
    /\ pc = "walk" /\ Throw("delegate")
    /\ UNCHANGED <<timeVars, timerID>>
    /\ Sched!DispatchThrows

\* schedule() and cancel() from a delegate, or from game code that runs in the
\* client's or the server's part of the tick.
GameCalls ==
    /\ \/ pc = "walk" /\ control = "dispatch"
       \/ pc = "network"
    /\ UNCHANGED <<timeVars, pc, timerID>>
    /\ Sched!Call

\* mClient->update() or mServer->update()
Network ==
    /\ pc = "network"
    /\ pc' = "sleep" \/ Throw("network")
    /\ UNCHANGED <<timeVars, schedulerVars, timerID>>

\* All the time a tick takes is spent here.
Sleep ==
    /\ pc = "sleep" /\ pc' = "stop"
    /\ \E d \in Elapsed : Elapse(d)
    /\ UNCHANGED <<schedulerVars, timerID>>

EndTick ==
    /\ pc = "stop" /\ pc' = "head"
    /\ StopTimer(timerID)
    /\ UNCHANGED <<schedulerVars, timerID>>

EndTickThrows ==
    /\ pc = "stop" /\ pc' = "catch"
    /\ StopThrows(timerID)
    /\ UNCHANGED <<schedulerVars, timerID>>

\* What the handler does to the client and the server is in the modules of
\* those; the time the tick took until it threw passes.
Catch ==
    /\ pc = "catch" /\ pc' = "head"
    /\ \E d \in Elapsed : Elapse(d)
    /\ UNCHANGED <<schedulerVars, timerID>>

LoopStep ==
    \/ BeginTick \/ BeginUpdate \/ WalkStep \/ WalkEnds \/ DelegateThrows
    \/ Network \/ Sleep \/ EndTick \/ EndTickThrows \/ Catch

LoopNext == LoopStep \/ GameCalls \/ Quit

LoopSpec == LoopInit /\ [][LoopNext]_loopVars

\* One thread runs the loop, and delegates, packet handlers and the sleep
\* come back: a step of the loop that stays possible is taken.
FairLoopSpec == LoopSpec /\ WF_loopVars(LoopStep)

-----------------------------------------------------------------------------
(* Properties                                                              *)

\* The timer of a tick is the uppermost one, as stopTimer needs for the tick
\* to count ("Only add deltas if we're the upper most timer", Time.cpp:48).
TickTimerIsUppermost == pc \in {"update", "walk", "network", "sleep", "stop"} => Len(timerStack) = 1

\* A tick that ends with an exception leaves its timer on the stack; from then
\* on no tick of the process moves the simulation time, and no event that was
\* not yet due ever becomes so.
Leaked == Len(timerStack) > IF pc \in {"head", "catch", "done"} THEN 0 ELSE 1
FrozenOnceLeaked ==
    [][Leaked => currentSimTime' = currentSimTime /\ Leaked']_loopVars

\* The wait of an event is honoured also when the 32-bit simulation time wraps
\* between two ticks.
NeverEarlyInLoop == Sched!NeverEarly

\* An event that is scheduled, not flagged as cancelled and due before the
\* simulation time wraps is run, unless an exception leaks a timer first or the
\* walks keep losing their place for ever: each tick walks the set from its
\* beginning, and what one walk skips by its broken iterator a later one finds
\* if it removes nothing on the way.  Game code that schedules an event at a
\* lower address in every tick can starve one that is due
\* (SchedulerSingleton.cpp:52-70).
LongestTick == CHOOSE d \in Elapsed : \A c \in Elapsed : c <= d
LastReachable == (SimMod - LongestTick) \div UsPerMs
Pending(e) == e \in mScheduledEventSet /\ ~mIsCancelled[e]
RemovesForEver == []<>stale
DueEventRuns ==
    \A e \in Event :
        (Pending(e) /\ mTriggerTimeMS[e] <= LastReachable)
            ~> (~Pending(e) \/ Leaked \/ control = "crashed" \/ pc = "done" \/ RemovesForEver)

\* The scheduler of the loop as a queue of jobs, whose time is the wrapped one:
\* whatever throws and wherever the time wraps, an event is only scheduled,
\* cancelled, started when due and not flagged, finished, failed or dropped for
\* its flag, one at a time, and the others stay as they are
\* (SchedulerSingleton.cpp:48-72, CoreSingleton.cpp:170-226).
LoopDoomed == {e \in mScheduledEventSet : mIsCancelled[e]}
LoopRunning == IF control = "dispatch" THEN cursor ELSE Sched!End
LoopJobs == INSTANCE JobQueue WITH
    Job <- Event, Delay <- Wait, None <- Sched!End,
    waiting <- mScheduledEventSet, doomed <- LoopDoomed,
    due <- mTriggerTimeMS, running <- LoopRunning,
    now <- getSimTimeMilliseconds
LoopServesJobs ==
    [][LoopJobs!JobNext]_<<mScheduledEventSet, LoopDoomed, mTriggerTimeMS, LoopRunning>>
=============================================================================
