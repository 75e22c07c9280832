----------------------------- MODULE Scheduler -----------------------------
(***************************************************************************)
(* Kiaro::Support::SchedulerSingleton and ScheduledEvent: a std::set of    *)
(* event pointers, walked in address order by update() once a tick.  The   *)
(* delegates run in the middle of the walk; they may schedule and cancel   *)
(* events and they may throw.                                              *)
(***************************************************************************)
EXTENDS Naturals, FiniteSets

CONSTANTS Event,     \* addresses a ScheduledEvent can have, ordered as such
          Wait,      \* the waits given to schedule(), in milliseconds
          MaxSimMS   \* bound on the simulated milliseconds

ASSUME SchedulerAssumption ==
    /\ Event \subseteq Nat \ {0}
    /\ Wait \subseteq Nat
    /\ MaxSimMS \in Nat

VARIABLES mScheduledEventSet, \* the events of the scheduler
          mIsCancelled,       \* per event, the flag the constructor leaves unset
          mTriggerTimeMS,     \* per event, when it is due
          control,            \* where update() is
          cursor,             \* the event its iterator points to, or End
          stale,              \* the iterator's node has been erased and freed
          currentSimTimeMS,   \* update()'s reading of the simulation time
          userCancelled,      \* history: events cancel() was called on
          earliest,           \* history: per event, schedule time plus wait
          returned,           \* history: events whose delegate has returned
          simMS               \* Time::getSimTimeMilliseconds()

history == <<userCancelled, earliest, returned>>
walk == <<control, cursor, stale, currentSimTimeMS>>
events == <<mScheduledEventSet, mIsCancelled, mTriggerTimeMS>>
schedVars == <<events, walk, history, simMS>>

\* What begin() and ++ of a std::set of pointers find: the lowest address.
End == 0
IsFirst(c, S) == IF S = {} THEN c = End ELSE c \in S /\ \A f \in S : c <= f
Above(e) == {f \in mScheduledEventSet : f > e}

SchedInit ==
    /\ mScheduledEventSet = {}
    /\ mIsCancelled = [e \in Event |-> FALSE]
    /\ mTriggerTimeMS = [e \in Event |-> 0]
    /\ control = "idle" /\ cursor = End /\ stale = FALSE
    /\ simMS = 0 /\ currentSimTimeMS = 0
    /\ userCancelled = {} /\ returned = {}
    /\ earliest = [e \in Event |-> 0]

-----------------------------------------------------------------------------
(* schedule and cancel: between two updates, or from a running delegate    *)

CallersTurn == control \in {"idle", "dispatch"}

\* Mutant of TriggerTime: the wait is taken for a point in time.
BugTriggerTime(wait) == wait
TriggerTime(wait) == simMS + wait

\* The constructor never sets mIsCancelled: it has whatever value the memory
\* of the new event holds.
Schedule(e, wait) ==
    /\ CallersTurn
    /\ e \notin mScheduledEventSet
    /\ mScheduledEventSet' = mScheduledEventSet \cup {e}
    /\ \E garbage \in BOOLEAN : mIsCancelled' = [mIsCancelled EXCEPT ![e] = garbage]
    /\ mTriggerTimeMS' = [mTriggerTimeMS EXCEPT ![e] = TriggerTime(wait)]
    /\ userCancelled' = userCancelled \ {e} /\ returned' = returned \ {e}
    /\ earliest' = [earliest EXCEPT ![e] = simMS + wait]
    /\ UNCHANGED <<walk, simMS>>

Cancel(e) ==
    /\ CallersTurn
    /\ e \in mScheduledEventSet
    /\ mIsCancelled' = [mIsCancelled EXCEPT ![e] = TRUE]
    /\ userCancelled' = userCancelled \cup {e}
    /\ UNCHANGED <<mScheduledEventSet, mTriggerTimeMS, walk, earliest, returned, simMS>>

-----------------------------------------------------------------------------
(* update                                                                  *)

\* Mutant of shouldDispatch: the flag is not looked at.
BugShouldDispatch(e) == currentSimTimeMS >= mTriggerTimeMS[e]
shouldDispatch(e) == currentSimTimeMS >= mTriggerTimeMS[e] /\ ~mIsCancelled[e]

BeginUpdate ==
    /\ control = "idle"
    /\ currentSimTimeMS' = simMS
    /\ cursor' \in mScheduledEventSet \cup {End} /\ IsFirst(cursor', mScheduledEventSet)
    /\ control' = "visit" /\ stale' = FALSE
    /\ UNCHANGED <<events, history, simMS>>

Dispatch ==
    /\ control = "visit" /\ cursor # End
    /\ shouldDispatch(cursor)
    /\ control' = "dispatch"
    /\ UNCHANGED <<events, cursor, stale, currentSimTimeMS, history, simMS>>

\* Mutant of Without: the set is cleared.
BugCleared(S, e) == {}
Without(S, e) == S \ {e}

\* erase(currentEvent) and delete: the iterator still points to that node.
RemoveCurrent ==
    /\ mScheduledEventSet' = Without(mScheduledEventSet, cursor)
    /\ control' = "increment" /\ stale' = TRUE
    /\ UNCHANGED <<mIsCancelled, mTriggerTimeMS, cursor, currentSimTimeMS, simMS>>

DispatchReturns ==
    /\ control = "dispatch"
    /\ RemoveCurrent
    /\ returned' = returned \cup {cursor}
    /\ UNCHANGED <<userCancelled, earliest>>

\* The exception of a delegate leaves update(); the event stays scheduled.
DispatchThrows ==
    /\ control = "dispatch"
    /\ control' = "idle" /\ cursor' = End
    /\ UNCHANGED <<events, stale, currentSimTimeMS, history, simMS>>

RemoveCancelled ==
    /\ control = "visit" /\ cursor # End
    /\ ~shouldDispatch(cursor) /\ mIsCancelled[cursor]
    /\ RemoveCurrent
    /\ UNCHANGED history

Keep ==
    /\ control = "visit" /\ cursor # End
    /\ ~shouldDispatch(cursor) /\ ~mIsCancelled[cursor]
    /\ control' = "increment"
    /\ UNCHANGED <<events, cursor, stale, currentSimTimeMS, history, simMS>>

IncrementLive ==
    /\ control = "increment" /\ ~stale
    /\ cursor' \in mScheduledEventSet \cup {End} /\ IsFirst(cursor', Above(cursor))
    /\ control' = "visit"
    /\ UNCHANGED <<events, stale, currentSimTimeMS, history, simMS>>

\* Incrementing the iterator of a freed node is undefined: the walk goes on
\* at any event that is left, ends, or the process dies.
IncrementStale ==
    /\ control = "increment" /\ stale
    /\ \/ cursor' \in mScheduledEventSet \cup {End} /\ control' = "visit"
       \/ cursor' = End /\ control' = "crashed"
    /\ stale' = FALSE
    /\ UNCHANGED <<events, currentSimTimeMS, history, simMS>>

EndUpdate ==
    /\ control = "visit" /\ cursor = End
    /\ control' = "idle"
    /\ UNCHANGED <<events, cursor, stale, currentSimTimeMS, history, simMS>>

UpdateStep ==
    \/ Dispatch \/ DispatchReturns \/ DispatchThrows
    \/ RemoveCancelled \/ Keep
    \/ IncrementLive \/ IncrementStale \/ EndUpdate

Call ==
    \E e \in Event : Cancel(e) \/ \E wait \in Wait : Schedule(e, wait)

\* Outside an update the simulation time advances.
SimAdvance ==
    /\ control = "idle" /\ simMS < MaxSimMS
    /\ simMS' = simMS + 1
    /\ UNCHANGED <<events, walk, history>>

SchedNext == Call \/ BeginUpdate \/ UpdateStep \/ SimAdvance

SchedSpec == SchedInit /\ [][SchedNext]_schedVars

-----------------------------------------------------------------------------
(* Properties                                                              *)

\* Types of the scheduler's state.
SchedTypeOK ==
    /\ mScheduledEventSet \subseteq Event
    /\ mIsCancelled \in [Event -> BOOLEAN]
    /\ mTriggerTimeMS \in [Event -> Nat] /\ earliest \in [Event -> Nat]
    /\ control \in {"idle", "visit", "dispatch", "increment", "crashed"}
    /\ cursor \in Event \cup {End} /\ stale \in BOOLEAN
    /\ simMS \in Nat /\ currentSimTimeMS \in Nat
    /\ userCancelled \subseteq Event /\ returned \subseteq Event

\* update() dispatches with one reading of the simulation time, and events that
\* a delegate schedules during the walk are measured against a fresh one: no
\* event runs before its wait is over (SchedulerSingleton.cpp:50-57).
NeverEarly ==
    [][control = "visit" /\ control' = "dispatch" => simMS >= earliest[cursor]]_schedVars

\* cancel() is final: whoever calls it, another delegate of the same walk
\* included, the event's delegate is not called afterwards, even if it threw
\* before and would have been retried.
CancelledNeverRuns ==
    [][control = "visit" /\ control' = "dispatch" => cursor \notin userCancelled]_schedVars

\* An event whose delegate returned is gone from the set: no later tick runs
\* it again, although one whose delegate threw stays.
RunsOnce == \A e \in mScheduledEventSet : e \notin returned

\* The inductive invariant: the walk is at an event of the set except between
\* its removal and the increment that follows, and what the flags and times of
\* the events say is what schedule() and cancel() were told.
SchedInv ==
    /\ SchedTypeOK
    /\ control = "dispatch" => cursor # End
    /\ control \in {"visit", "dispatch"} /\ cursor # End => cursor \in mScheduledEventSet
    /\ RunsOnce
    /\ \A e \in Event : mTriggerTimeMS[e] = earliest[e]
    /\ \A e \in mScheduledEventSet \cap userCancelled : mIsCancelled[e]
    /\ control \in {"visit", "dispatch", "increment"} => currentSimTimeMS <= simMS
    /\ stale => control = "increment" /\ cursor \notin mScheduledEventSet

\* The scheduler implements the queue of jobs: although its walk may lose its
\* place, be cut short by an exception and see events come and go, an event is
\* started only when it is due and its flag is not set, and leaves the set only
\* when its delegate has returned or with its flag set.
Jobs == INSTANCE JobQueue WITH
    Job <- Event, Delay <- Wait, None <- End,
    waiting <- mScheduledEventSet,
    doomed <- {e \in mScheduledEventSet : mIsCancelled[e]},
    due <- mTriggerTimeMS,
    running <- IF control = "dispatch" THEN cursor ELSE End,
    now <- simMS
ImplementsJobs == Jobs!JobSpec
=============================================================================
