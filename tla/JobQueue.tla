------------------------------ MODULE JobQueue ------------------------------
(***************************************************************************)
(* What a Kiaro::Support::SchedulerSingleton promises its users: jobs that *)
(* wait for their time, run one at a time and not before it, and stay when *)
(* they fail.  A job that is doomed, because somebody withdrew it or       *)
(* because of what its memory held when it was made, is never started.     *)
(***************************************************************************)
EXTENDS Naturals

CONSTANTS Job,    \* the jobs there can be
          Delay,  \* the delays with which they are submitted
          None    \* no job

VARIABLES waiting, \* jobs submitted and not yet done
          doomed,  \* those of them that will not be started
          due,     \* per job, the time before which it is not started
          running, \* the job that runs, or None
          now

jobVars == <<waiting, doomed, due, running, now>>

JobInit ==
    /\ waiting = {} /\ doomed = {} /\ running = None
    /\ due = [j \in Job |-> 0] /\ now = 0

\* The submitter cannot tell whether the job is doomed from the start.
Submit(j, delay) ==
    /\ j \notin waiting
    /\ waiting' = waiting \cup {j}
    /\ doomed' \in {doomed, doomed \cup {j}}
    /\ due' = [due EXCEPT ![j] = now + delay]
    /\ UNCHANGED <<running, now>>

Withdraw(j) ==
    /\ j \in waiting
    /\ doomed' = doomed \cup {j}
    /\ UNCHANGED <<waiting, due, running, now>>

Start(j) ==
    /\ running = None
    /\ j \in waiting \ doomed /\ due[j] <= now
    /\ running' = j
    /\ UNCHANGED <<waiting, doomed, due, now>>

Finish ==
    /\ running # None /\ running' = None
    /\ waiting' = waiting \ {running} /\ doomed' = doomed \ {running}
    /\ UNCHANGED <<due, now>>

\* A job that fails stays, to be started again.
Fail ==
    /\ running # None /\ running' = None
    /\ UNCHANGED <<waiting, doomed, due, now>>

Discard(j) ==
    /\ running = None /\ j \in doomed
    /\ waiting' = waiting \ {j} /\ doomed' = doomed \ {j}
    /\ UNCHANGED <<due, running, now>>

Pass ==
    /\ now' = now + 1
    /\ UNCHANGED <<waiting, doomed, due, running>>

JobNext ==
    \/ \E j \in Job :
          \/ \E delay \in Delay : Submit(j, delay)
          \/ Withdraw(j) \/ Start(j) \/ Discard(j)
    \/ Finish \/ Fail \/ Pass

JobSpec == JobInit /\ [][JobNext]_jobVars
=============================================================================
