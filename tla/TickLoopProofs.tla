--------------------------- MODULE TickLoopProofs ---------------------------
(* Machine-checked facts about the loop, for any widths of the counters, any *)
(* events and waits, any number of leaked timers and whatever throws.        *)
EXTENDS TickLoop, SimTimeProofs

\* Each step of the loop does one thing to the clock, or nothing.
LEMMA LoopMovesClock == LoopNext /\ timerID \in 0..(IdMod - 1) => [TimeNext]_timeVars
<1> SUFFICES ASSUME LoopNext, timerID \in 0..(IdMod - 1) PROVE [TimeNext]_timeVars
  OBVIOUS
<1>1. CASE BeginTick
  BY <1>1 DEF BeginTick, TimeNext
<1>2. CASE EndTick \/ EndTickThrows
  BY <1>2 DEF EndTick, EndTickThrows, TimeNext
<1>3. CASE Sleep \/ Catch
  BY <1>3 DEF Sleep, Catch, TimeNext
<1>4. CASE BeginUpdate \/ WalkStep \/ WalkEnds \/ DelegateThrows \/ Network \/ GameCalls \/ Quit
  BY <1>4 DEF BeginUpdate, WalkStep, WalkEnds, DelegateThrows, Network, GameCalls, Quit
<1> QED
  BY <1>1, <1>2, <1>3, <1>4 DEF LoopNext, LoopStep

\* What startTimer returns is an identifier, and the loop keeps it.
LEMMA TimerIdKept ==
    ASSUME timerStack \in Seq(0..(SimMod - 1)), timerID \in 0..(IdMod - 1), [LoopNext]_loopVars
    PROVE  timerID' \in 0..(IdMod - 1)
<1>1. CASE BeginTick
  <2>1. Len(timerStack') \in Nat /\ IdMod \in Nat /\ IdMod > 0
    <3>1. timerStack' = Append(timerStack, clock)
      BY <1>1 DEF BeginTick, StartTimer
    <3> QED
      BY <3>1, SimTimeAssumption
  <2>2. timerID' = Len(timerStack') % IdMod
    BY <1>1 DEF BeginTick, TimerId
  <2> QED
    BY <2>1, <2>2
<1>2. CASE EndTick \/ EndTickThrows \/ Sleep \/ Catch
  BY <1>2 DEF EndTick, EndTickThrows, Sleep, Catch
<1>3. CASE BeginUpdate \/ WalkStep \/ WalkEnds \/ DelegateThrows \/ Network \/ GameCalls \/ Quit
  BY <1>3 DEF BeginUpdate, WalkStep, WalkEnds, DelegateThrows, Network, GameCalls, Quit
<1>4. CASE UNCHANGED loopVars
  BY <1>4 DEF loopVars
<1> QED
  BY <1>1, <1>2, <1>3, <1>4 DEF LoopNext, LoopStep

\* The clock is right and the tick knows its timer by an identifier.
ClockInv == TimeInv /\ timerID \in 0..(IdMod - 1)

\* This is so in every behaviour of the loop.
LEMMA ClockInductive == LoopSpec => []ClockInv
<1>1. LoopInit => ClockInv
  BY TimeInitInv, SimTimeAssumption DEF LoopInit, ClockInv
<1>2. ClockInv /\ [LoopNext]_loopVars => ClockInv'
  <2> SUFFICES ASSUME ClockInv, [LoopNext]_loopVars PROVE ClockInv'
    OBVIOUS
  <2>1. [TimeNext]_timeVars
    BY LoopMovesClock DEF ClockInv, loopVars
  <2>2. timerStack \in Seq(0..(SimMod - 1))
    BY DEF ClockInv, TimeInv, TimeTypeOK
  <2> QED
    BY <2>1, <2>2, TimeNextInv, TimerIdKept DEF ClockInv
<1> QED
  BY <1>1, <1>2, PTL DEF LoopSpec

\* The loop uses the clock as SimTime describes, so what holds of every use of
\* the clock holds in the loop: the simulation time is busy time and only the
\* uppermost timer moves it.
THEOREM LoopImplementsTime == LoopSpec => TimeSpec
<1>1. LoopInit => TimeInit
  BY DEF LoopInit
<1>2. ClockInv /\ [LoopNext]_loopVars => [TimeNext]_timeVars
  BY LoopMovesClock DEF ClockInv, loopVars
<1> QED
  BY <1>1, <1>2, ClockInductive, PTL DEF LoopSpec, TimeSpec

\* Once an exception has left a timer on the stack, no tick takes it off again
\* and none moves the simulation time, whatever throws and however often.
THEOREM LeakFreezesTime == LoopSpec => FrozenOnceLeaked
<1>1. ClockInv /\ [LoopNext]_loopVars
        => [Leaked => currentSimTime' = currentSimTime /\ Leaked']_loopVars
  <2> SUFFICES ASSUME ClockInv, LoopNext, Leaked PROVE currentSimTime' = currentSimTime /\ Leaked'
    OBVIOUS
  <2>0. timerStack \in Seq(0..(SimMod - 1)) /\ Len(timerStack) \in Nat
    BY LenProperties DEF ClockInv, TimeInv, TimeTypeOK
  <2>1. CASE BeginTick
    <3>1. timerStack' = Append(timerStack, clock) /\ UNCHANGED currentSimTime
          /\ pc = "head" /\ pc' = "update"
      BY <2>1 DEF BeginTick, StartTimer
    <3> QED
      BY <2>0, <3>1 DEF Leaked
  <2>2. CASE EndTick
    <3>1. /\ pc = "stop" /\ pc' = "head" /\ timerID = Len(timerStack) /\ timerID # 1
          /\ timerStack' = SubSeq(timerStack, 1, Len(timerStack) - 1)
      BY <2>0, <2>2 DEF EndTick, StopTimer, Mismatched, Leaked
    <3>2. timerStack' # <<>> /\ timerStack' \in Seq(0..(SimMod - 1))
      BY <2>0, <3>1, PoppedStack DEF Leaked
    <3>3. Len(timerStack') > 0
      BY <3>2, FirstOfStack
    <3> QED
      BY <2>2, <3>1, <3>3 DEF EndTick, StopTimer, CountsAsSimTime, Leaked
  <2>3. CASE EndTickThrows
    BY <2>0, <2>3 DEF EndTickThrows, StopThrows, timeVars, Leaked
  <2>4. CASE Sleep \/ Catch
    BY <2>0, <2>4 DEF Sleep, Catch, Elapse, Leaked
  <2>5. CASE BeginUpdate \/ WalkStep \/ WalkEnds \/ DelegateThrows \/ Network \/ GameCalls
    BY <2>0, <2>5 DEF BeginUpdate, WalkStep, WalkEnds, DelegateThrows, Network, GameCalls, Throw,
       timeVars, Leaked
  <2>6. CASE Quit
    BY <2>0, <2>6 DEF Quit, timeVars, Leaked
  <2> QED
    BY <2>1, <2>2, <2>3, <2>4, <2>5, <2>6 DEF LoopNext, LoopStep
<1> QED
  BY <1>1, ClockInductive, PTL DEF LoopSpec, FrozenOnceLeaked

-----------------------------------------------------------------------------
(* The scheduler inside the loop                                           *)

\* The scheduler is as it is on its own, and the time stands still from the
\* beginning of a walk to its end, which is all inside one place of the loop;
\* an exception ends both.
LoopSchedInv ==
    /\ Sched!SchedInv
    /\ control \in {"visit", "dispatch", "increment"} =>
          pc = "walk" /\ currentSimTimeMS = getSimTimeMilliseconds

\* The simulation time in milliseconds is a number.
LEMMA MillisecondsType == ClockInv => getSimTimeMilliseconds \in Nat
  BY SimTimeAssumption DEF ClockInv, TimeInv, TimeTypeOK, getSimTimeMilliseconds

\* schedule() and cancel(), called by a delegate or by the game, preserve the
\* invariant: an event is given one trigger time, which is its caller's.
LEMMA CallKeepsSched == ClockInv /\ LoopSchedInv /\ GameCalls => LoopSchedInv'
<1> SUFFICES ASSUME ClockInv, LoopSchedInv, GameCalls PROVE LoopSchedInv'
  OBVIOUS
<1>1. UNCHANGED <<pc, cursor, stale, control, currentSimTimeMS>>
      /\ getSimTimeMilliseconds' = getSimTimeMilliseconds
  BY DEF GameCalls, timeVars, Sched!Call, Sched!Cancel, Sched!Schedule, Sched!walk,
     getSimTimeMilliseconds
<1>2. PICK e \in Event : Sched!Cancel(e) \/ \E wait \in Wait : Sched!Schedule(e, wait)
  BY DEF GameCalls, Sched!Call
<1> USE DEF LoopSchedInv, Sched!SchedInv, Sched!SchedTypeOK, Sched!RunsOnce
<1>3. CASE Sched!Cancel(e)
  <2>1. mIsCancelled' = [mIsCancelled EXCEPT ![e] = TRUE] /\ mIsCancelled' \in [Event -> BOOLEAN]
    BY <1>3 DEF Sched!Cancel
  <2>2. mIsCancelled'[e] = TRUE /\ \A f \in Event \ {e} : mIsCancelled'[f] = mIsCancelled[f]
    BY <2>1
  <2> QED
    BY <1>1, <1>3, <2>1, <2>2 DEF Sched!Cancel
<1>4. ASSUME NEW wait \in Wait, Sched!Schedule(e, wait) PROVE LoopSchedInv'
  <2> DEFINE due == getSimTimeMilliseconds + wait
  <2>1. due \in Nat
    BY MillisecondsType, TickLoopAssumption
  <2>2. /\ mScheduledEventSet' = mScheduledEventSet \cup {e} /\ e \notin mScheduledEventSet
        /\ mTriggerTimeMS' = [mTriggerTimeMS EXCEPT ![e] = due]
        /\ earliest' = [earliest EXCEPT ![e] = due]
        /\ userCancelled' = userCancelled \ {e} /\ returned' = returned \ {e}
        /\ control \in {"idle", "dispatch"}
    BY <1>4 DEF Sched!Schedule, Sched!TriggerTime, Sched!CallersTurn
  <2> HIDE DEF due
  <2>3. PICK garbage \in BOOLEAN : mIsCancelled' = [mIsCancelled EXCEPT ![e] = garbage]
    BY <1>4 DEF Sched!Schedule
  <2>4. mIsCancelled' \in [Event -> BOOLEAN] /\ \A f \in Event \ {e} : mIsCancelled'[f] = mIsCancelled[f]
    BY <2>3
  <2>5. /\ mTriggerTimeMS' \in [Event -> Nat] /\ earliest' \in [Event -> Nat]
        /\ \A f \in Event : mTriggerTimeMS'[f] = earliest'[f]
    BY <2>1, <2>2
  <2> QED
    BY <1>1, <2>2, <2>4, <2>5
<1> QED
  BY <1>2, <1>3, <1>4

\* A step of the walk preserves the invariant, the increment of a stale
\* iterator and the exception of a delegate included.
LEMMA WalkKeepsSched ==
    LoopSchedInv /\ (BeginUpdate \/ WalkStep \/ WalkEnds \/ DelegateThrows) => LoopSchedInv'
<1> SUFFICES ASSUME LoopSchedInv, BeginUpdate \/ WalkStep \/ WalkEnds \/ DelegateThrows
             PROVE  LoopSchedInv'
  OBVIOUS
<1>0. getSimTimeMilliseconds' = getSimTimeMilliseconds
  BY DEF BeginUpdate, WalkStep, WalkEnds, DelegateThrows, timeVars, getSimTimeMilliseconds
<1> USE DEF LoopSchedInv, Sched!SchedInv, Sched!SchedTypeOK, Sched!RunsOnce, Sched!events, Sched!history
<1>1. CASE BeginUpdate
  <2>1. /\ pc' = "walk" /\ control' = "visit" /\ stale' = FALSE /\ stale' \in BOOLEAN
        /\ cursor' \in mScheduledEventSet \cup {Sched!End}
        /\ currentSimTimeMS' = getSimTimeMilliseconds
        /\ UNCHANGED Sched!events /\ UNCHANGED Sched!history
    BY <1>1 DEF BeginUpdate, Sched!BeginUpdate
  <2> QED
    BY <1>0, <2>1
<1>2. CASE WalkEnds
  BY <1>0, <1>2 DEF WalkEnds, Sched!EndUpdate
<1>3. CASE DelegateThrows
  BY <1>0, <1>3 DEF DelegateThrows, Sched!DispatchThrows
<1>4. CASE WalkStep
  <2>1. pc = "walk" /\ pc' = "walk"
    BY <1>4 DEF WalkStep
  <2>2. CASE Sched!Dispatch
    BY <1>0, <2>1, <2>2 DEF Sched!Dispatch
  <2>3. CASE Sched!Keep
    BY <1>0, <2>1, <2>3 DEF Sched!Keep
  <2>4. CASE Sched!DispatchReturns
    BY <1>0, <2>1, <2>4 DEF Sched!DispatchReturns, Sched!RemoveCurrent, Sched!Without
  <2>5. CASE Sched!RemoveCancelled
    BY <1>0, <2>1, <2>5 DEF Sched!RemoveCancelled, Sched!RemoveCurrent, Sched!Without
  <2>6. CASE Sched!IncrementLive
    BY <1>0, <2>1, <2>6 DEF Sched!IncrementLive
  <2>7. CASE Sched!IncrementStale
    BY <1>0, <2>1, <2>7 DEF Sched!IncrementStale
  <2> QED
    BY <1>4, <2>2, <2>3, <2>4, <2>5, <2>6, <2>7 DEF WalkStep
<1> QED
  BY <1>1, <1>2, <1>3, <1>4

\* The other steps are taken outside of the walk, and the time may move.
LEMMA RestKeepsSched ==
    ASSUME LoopSchedInv, ClockInv',
           Quit \/ BeginTick \/ Network \/ Sleep \/ EndTick \/ EndTickThrows \/ Catch
    PROVE  LoopSchedInv'
<1>1. UNCHANGED schedulerVars /\ pc # "walk"
  BY DEF Quit, BeginTick, Network, Sleep, EndTick, EndTickThrows, Catch
<1>2. (getSimTimeMilliseconds \in Nat)'
  BY MillisecondsType, PTL
<1> QED
  BY <1>1, <1>2 DEF LoopSchedInv, schedulerVars, Sched!SchedInv, Sched!SchedTypeOK, Sched!RunsOnce

\* The invariant of the scheduler and the loop is inductive.
LEMMA LoopSchedNextInv ==
    ClockInv /\ ClockInv' /\ LoopSchedInv /\ [LoopNext]_loopVars => LoopSchedInv'
<1> SUFFICES ASSUME ClockInv, ClockInv', LoopSchedInv, [LoopNext]_loopVars PROVE LoopSchedInv'
  OBVIOUS
<1>1. CASE UNCHANGED loopVars
  BY <1>1 DEF LoopSchedInv, Sched!SchedInv, Sched!SchedTypeOK, Sched!RunsOnce,
     loopVars, timeVars, schedulerVars, getSimTimeMilliseconds
<1> QED
  BY <1>1, CallKeepsSched, WalkKeepsSched, RestKeepsSched DEF LoopNext, LoopStep

\* Nothing is scheduled and no walk is begun when the loop begins.
LEMMA LoopSchedInit == LoopInit => LoopSchedInv
<1> SUFFICES ASSUME LoopInit PROVE LoopSchedInv
  OBVIOUS
<1>1. mIsCancelled \in [Event -> BOOLEAN] /\ stale = FALSE /\ stale \in BOOLEAN
  BY DEF LoopInit, Sched!SchedInit
<1>2. mTriggerTimeMS \in [Event -> Nat] /\ earliest \in [Event -> Nat]
      /\ \A e \in Event : mTriggerTimeMS[e] = earliest[e]
  BY DEF LoopInit, Sched!SchedInit
<1>3. getSimTimeMilliseconds \in Nat /\ currentSimTimeMS \in Nat
  BY TickLoopAssumption DEF LoopInit, Sched!SchedInit
<1> QED
  BY <1>1, <1>2, <1>3
     DEF LoopInit, Sched!SchedInit, LoopSchedInv, Sched!SchedInv, Sched!SchedTypeOK, Sched!RunsOnce, Sched!End

\* Clock and scheduler are as in their invariants in every behaviour.
LEMMA LoopSchedInductive == LoopSpec => [](ClockInv /\ LoopSchedInv)
  BY ClockInductive, LoopSchedInit, LoopSchedNextInv, PTL DEF LoopSpec

\* What holds of the scheduler between its own steps holds in the loop, where
\* the 32-bit time may go back to 0 between two walks, and exceptions of
\* delegates and of the network come at any tick.
THEOREM SchedulerIsRightInLoop == LoopSpec => []Sched!SchedInv
<1>1. LoopSchedInv => Sched!SchedInv
  BY DEF LoopSchedInv
<1> QED
  BY <1>1, LoopSchedInductive, PTL

\* Only a step that dispatches goes from visiting an event to its delegate.
LEMMA OnlyDispatchInLoop ==
    ASSUME [LoopNext]_loopVars, control = "visit", control' = "dispatch"
    PROVE  Sched!Dispatch
<1>1. CASE GameCalls
  BY <1>1 DEF GameCalls, Sched!Call, Sched!Cancel, Sched!Schedule, Sched!walk
<1>2. CASE BeginUpdate \/ WalkStep \/ WalkEnds \/ DelegateThrows
  BY <1>2 DEF BeginUpdate, WalkStep, WalkEnds, DelegateThrows, Sched!BeginUpdate, Sched!EndUpdate,
     Sched!DispatchThrows, Sched!DispatchReturns, Sched!RemoveCancelled, Sched!RemoveCurrent,
     Sched!Keep, Sched!IncrementLive, Sched!IncrementStale
<1>3. CASE Quit \/ BeginTick \/ Network \/ Sleep \/ EndTick \/ EndTickThrows \/ Catch
  BY <1>3 DEF Quit, BeginTick, Network, Sleep, EndTick, EndTickThrows, Catch, schedulerVars
<1>4. CASE UNCHANGED loopVars
  BY <1>4 DEF loopVars, schedulerVars
<1> QED
  BY <1>1, <1>2, <1>3, <1>4 DEF LoopNext, LoopStep

\* No delegate is called before its wait is over by the simulation time of the
\* loop, wherever the 32 bits of that time wrap.
THEOREM WaitHonouredInLoop == LoopSpec => NeverEarlyInLoop
<1> DEFINE A == control = "visit" /\ control' = "dispatch" =>
                   getSimTimeMilliseconds >= earliest[cursor]
<1>1. LoopSchedInv /\ [LoopNext]_loopVars => [A]_(Sched!schedVars)
  <2> SUFFICES ASSUME LoopSchedInv, [LoopNext]_loopVars, control = "visit", control' = "dispatch"
               PROVE  getSimTimeMilliseconds >= earliest[cursor]
    OBVIOUS
  <2>1. cursor \in Event /\ getSimTimeMilliseconds >= mTriggerTimeMS[cursor]
    BY OnlyDispatchInLoop DEF Sched!Dispatch, Sched!shouldDispatch, LoopSchedInv,
       Sched!SchedInv, Sched!SchedTypeOK
  <2> QED
    BY <2>1 DEF LoopSchedInv, Sched!SchedInv
<1> QED
  BY <1>1, LoopSchedInductive, PTL DEF LoopSpec, NeverEarlyInLoop, Sched!NeverEarly

\* In the loop, too, no delegate is called after cancel() was called on its
\* event, in a later tick than the one an exception ended included.
THEOREM CancelIsFinalInLoop == LoopSpec => Sched!CancelledNeverRuns
<1> DEFINE A == control = "visit" /\ control' = "dispatch" => cursor \notin userCancelled
<1>1. LoopSchedInv /\ [LoopNext]_loopVars => [A]_(Sched!schedVars)
  <2> SUFFICES ASSUME LoopSchedInv, [LoopNext]_loopVars, control = "visit", control' = "dispatch"
               PROVE  cursor \notin userCancelled
    OBVIOUS
  <2> QED
    BY OnlyDispatchInLoop DEF Sched!Dispatch, Sched!shouldDispatch, LoopSchedInv,
       Sched!SchedInv, Sched!SchedTypeOK
<1> QED
  BY <1>1, LoopSchedInductive, PTL DEF LoopSpec, Sched!CancelledNeverRuns

-----------------------------------------------------------------------------
(* The jobs of the loop                                                    *)

\* The game's calls submit and withdraw jobs.
LEMMA LoopCallsAreJobSteps == LoopSchedInv /\ GameCalls => LoopJobs!JobNext
<1> SUFFICES ASSUME LoopSchedInv, GameCalls PROVE LoopJobs!JobNext
  OBVIOUS
<1>1. UNCHANGED LoopRunning /\ getSimTimeMilliseconds' = getSimTimeMilliseconds
  BY DEF GameCalls, timeVars, Sched!Call, Sched!Cancel, Sched!Schedule, Sched!walk,
     getSimTimeMilliseconds, LoopRunning
<1>2. PICK e \in Event : Sched!Cancel(e) \/ \E wait \in Wait : Sched!Schedule(e, wait)
  BY DEF GameCalls, Sched!Call
<1>3. CASE Sched!Cancel(e)
  <2>1. LoopDoomed' = LoopDoomed \cup {e}
    BY <1>3 DEF Sched!Cancel, LoopDoomed, LoopSchedInv, Sched!SchedInv, Sched!SchedTypeOK
  <2>2. LoopJobs!Withdraw(e)
    BY <1>1, <1>3, <2>1 DEF Sched!Cancel, LoopJobs!Withdraw
  <2> QED
    BY <2>2 DEF LoopJobs!JobNext
<1>4. ASSUME NEW wait \in Wait, Sched!Schedule(e, wait) PROVE LoopJobs!JobNext
  <2>1. PICK garbage \in BOOLEAN : mIsCancelled' = [mIsCancelled EXCEPT ![e] = garbage]
    BY <1>4 DEF Sched!Schedule
  <2>2. \A f \in Event \ {e} : mIsCancelled'[f] = mIsCancelled[f]
    BY <2>1 DEF LoopSchedInv, Sched!SchedInv, Sched!SchedTypeOK
  <2>3. e \notin mScheduledEventSet /\ mScheduledEventSet' = mScheduledEventSet \cup {e}
        /\ mScheduledEventSet \subseteq Event
    BY <1>4 DEF Sched!Schedule, LoopSchedInv, Sched!SchedInv, Sched!SchedTypeOK
  <2>4. LoopDoomed' = IF mIsCancelled'[e] THEN LoopDoomed \cup {e} ELSE LoopDoomed
    BY <2>2, <2>3 DEF LoopDoomed
  <2>5. LoopDoomed' \in {LoopDoomed, LoopDoomed \cup {e}}
    BY <2>4
  <2>6. LoopJobs!Submit(e, wait)
    BY <1>1, <1>4, <2>5 DEF Sched!Schedule, Sched!TriggerTime, LoopJobs!Submit
  <2> QED
    BY <2>6 DEF LoopJobs!JobNext
<1> QED
  BY <1>2, <1>3, <1>4

\* A step of the walk starts, finishes, fails or discards one job, or none.
LEMMA LoopWalkIsJobSteps ==
    LoopSchedInv /\ (BeginUpdate \/ WalkStep \/ WalkEnds \/ DelegateThrows)
        => \/ LoopJobs!JobNext
           \/ UNCHANGED <<mScheduledEventSet, LoopDoomed, mTriggerTimeMS, LoopRunning>>
<1> SUFFICES ASSUME LoopSchedInv, BeginUpdate \/ WalkStep \/ WalkEnds \/ DelegateThrows
             PROVE  \/ LoopJobs!JobNext
                    \/ UNCHANGED <<mScheduledEventSet, LoopDoomed, mTriggerTimeMS, LoopRunning>>
  OBVIOUS
<1>0. getSimTimeMilliseconds' = getSimTimeMilliseconds
  BY DEF BeginUpdate, WalkStep, WalkEnds, DelegateThrows, timeVars, getSimTimeMilliseconds
<1> USE DEF Sched!events, LoopRunning, Sched!End
<1>1. CASE Sched!Dispatch
  <2>1. /\ cursor \in mScheduledEventSet /\ ~mIsCancelled[cursor] /\ cursor \in Event
        /\ mTriggerTimeMS[cursor] <= getSimTimeMilliseconds
    BY <1>1 DEF Sched!Dispatch, Sched!shouldDispatch, LoopSchedInv, Sched!SchedInv, Sched!SchedTypeOK
  <2>2. LoopDoomed' = LoopDoomed /\ cursor \notin LoopDoomed
    BY <1>1, <2>1 DEF Sched!Dispatch, LoopDoomed
  <2>3. LoopJobs!Start(cursor)
    BY <1>0, <1>1, <2>1, <2>2 DEF Sched!Dispatch, LoopJobs!Start
  <2> QED
    BY <2>1, <2>3 DEF LoopJobs!JobNext
<1>2. CASE Sched!DispatchReturns
  <2>1. LoopDoomed' = LoopDoomed \ {cursor} /\ cursor # Sched!End
    BY <1>2 DEF Sched!DispatchReturns, Sched!RemoveCurrent, Sched!Without, LoopDoomed,
       LoopSchedInv, Sched!SchedInv
  <2>2. LoopJobs!Finish
    BY <1>0, <1>2, <2>1 DEF Sched!DispatchReturns, Sched!RemoveCurrent, Sched!Without, LoopJobs!Finish
  <2> QED
    BY <2>2 DEF LoopJobs!JobNext
<1>3. CASE Sched!DispatchThrows
  <2>1. LoopDoomed' = LoopDoomed /\ cursor # Sched!End
    BY <1>3 DEF Sched!DispatchThrows, LoopDoomed, LoopSchedInv, Sched!SchedInv
  <2>2. LoopJobs!Fail
    BY <1>0, <1>3, <2>1 DEF Sched!DispatchThrows, LoopJobs!Fail
  <2> QED
    BY <2>2 DEF LoopJobs!JobNext
<1>4. CASE Sched!RemoveCancelled
  <2>1. cursor \in LoopDoomed /\ cursor \in Event /\ LoopDoomed' = LoopDoomed \ {cursor}
    BY <1>4 DEF Sched!RemoveCancelled, Sched!RemoveCurrent, Sched!Without, LoopDoomed,
       LoopSchedInv, Sched!SchedInv, Sched!SchedTypeOK
  <2>2. LoopJobs!Discard(cursor)
    BY <1>0, <1>4, <2>1 DEF Sched!RemoveCancelled, Sched!RemoveCurrent, Sched!Without, LoopJobs!Discard
  <2> QED
    BY <2>1, <2>2 DEF LoopJobs!JobNext
<1>5. CASE Sched!BeginUpdate \/ Sched!Keep \/ Sched!IncrementLive \/ Sched!IncrementStale \/ Sched!EndUpdate
  BY <1>5 DEF Sched!BeginUpdate, Sched!Keep, Sched!IncrementLive, Sched!IncrementStale,
     Sched!EndUpdate, LoopDoomed
<1> QED
  BY <1>1, <1>2, <1>3, <1>4, <1>5 DEF BeginUpdate, WalkStep, WalkEnds, DelegateThrows

\* In the loop the scheduler keeps the promise of the queue of jobs: whatever
\* throws and wherever the time wraps, jobs are submitted, withdrawn, started
\* when due, finished, failed and discarded, and nothing else happens to them.
THEOREM LoopKeepsJobs == LoopSpec => LoopServesJobs
<1>1. LoopSchedInv /\ [LoopNext]_loopVars
        => [LoopJobs!JobNext]_<<mScheduledEventSet, LoopDoomed, mTriggerTimeMS, LoopRunning>>
  <2> SUFFICES ASSUME LoopSchedInv, [LoopNext]_loopVars
               PROVE  \/ LoopJobs!JobNext
                      \/ UNCHANGED <<mScheduledEventSet, LoopDoomed, mTriggerTimeMS, LoopRunning>>
    OBVIOUS
  <2>1. CASE Quit \/ BeginTick \/ Network \/ Sleep \/ EndTick \/ EndTickThrows \/ Catch
             \/ UNCHANGED loopVars
    <3>1. UNCHANGED schedulerVars
      BY <2>1 DEF Quit, BeginTick, Network, Sleep, EndTick, EndTickThrows, Catch, loopVars
    <3> QED
      BY <3>1 DEF schedulerVars, LoopDoomed, LoopRunning
  <2> QED
    BY <2>1, LoopCallsAreJobSteps, LoopWalkIsJobSteps DEF LoopNext, LoopStep
<1> QED
  BY <1>1, LoopSchedInductive, PTL DEF LoopSpec, LoopServesJobs
=============================================================================
