------------------------------- MODULE Logging -------------------------------
(***************************************************************************)
(* Kiaro::Logging (engine/Logging.cpp): the log file, reached through      *)
(* PhysFS, and the fixed table of hooks that Write calls one by one.  A    *)
(* hook runs inside Write and may add hooks.                               *)
(***************************************************************************)
EXTENDS Naturals, Sequences

CONSTANTS Hook, Message,
          Level, LevelError,  \* LEVEL_NAME below LEVEL_COUNT; what others become
          MaxHooks,           \* MAXIMUM_LOGGER_HOOKS, 32
          MaxWrites           \* bound: calls of Write

ASSUME LoggingAssumption ==
    LevelError \in Level /\ MaxHooks \in Nat \ {0} /\ MaxWrites \in Nat

VARIABLES kiaro_logging_hooks,   \* as many as kiaro_logging_hook_count
          logPc, input, log_level, call_result, hookIndex, \* the Write that runs
          writes, reached        \* history: calls, and what the hooks were given

callVars == <<logPc, input, log_level, call_result, hookIndex>>
logVars == <<kiaro_logging_hooks, callVars, writes, reached>>

\* What a caller may pass that is no level, as the parameter is a plain enum.
NoLevel == "LEVEL_COUNT"
Blank == "blank"

LoggingInit ==
    /\ kiaro_logging_hooks = <<>>
    /\ logPc = "idle" /\ input = Blank /\ log_level = LevelError /\ call_result = "none"
    /\ hookIndex = 0 /\ writes = 0 /\ reached = <<>>

\* If PhysFS has no file to give, a null one is written to.
Initialize ==
    /\ logPc = "idle" /\ logPc' \in {"idle", "crashed"}
    /\ UNCHANGED <<kiaro_logging_hooks, input, log_level, call_result, hookIndex, writes, reached>>

\* Mutant of TableFull: the table is taken to have one place more.
BugTableFull == Len(kiaro_logging_hooks) > MaxHooks
TableFull == Len(kiaro_logging_hooks) >= MaxHooks

\* Refused with KIARO_LOGGER_ERROR_MEMALLOC when the table is full.
AddHook(hook) ==
    kiaro_logging_hooks' = IF TableFull THEN kiaro_logging_hooks ELSE Append(kiaro_logging_hooks, hook)

AddHookOutside(hook) ==
    /\ logPc = "idle" /\ AddHook(hook)
    /\ UNCHANGED <<callVars, writes, reached>>

LevelOf(level) == IF level \in Level THEN level ELSE LevelError

\* A log that cannot be opened is reported and does not keep the hooks from
\* being called; whether the text was written is not looked at.
BeginWrite(message, level) ==
    /\ logPc = "idle" /\ writes < MaxWrites
    /\ writes' = writes + 1 /\ logPc' = "hooks" /\ hookIndex' = 0
    /\ input' = message /\ log_level' = LevelOf(level)
    /\ call_result' \in {"none", "write"}
    /\ UNCHANGED <<kiaro_logging_hooks, reached>>

MoreHooks == hookIndex < Len(kiaro_logging_hooks)

CallHook ==
    /\ logPc = "hooks" /\ MoreHooks
    /\ reached' = Append(reached, [hook |-> kiaro_logging_hooks[hookIndex + 1],
                                   text |-> input, level |-> log_level])
    /\ hookIndex' = hookIndex + 1
    /\ \/ UNCHANGED kiaro_logging_hooks
       \/ \E hook \in Hook : AddHook(hook)
    /\ UNCHANGED <<logPc, input, log_level, call_result, writes>>

EndWrite ==
    /\ logPc = "hooks" /\ ~MoreHooks
    /\ logPc' = "idle" /\ input' = Blank /\ log_level' = LevelError
    /\ call_result' = "none" /\ hookIndex' = 0 /\ reached' = <<>>
    /\ UNCHANGED <<kiaro_logging_hooks, writes>>

LoggingNext ==
    \/ Initialize \/ CallHook \/ EndWrite
    \/ \E hook \in Hook : AddHookOutside(hook)
    \/ \E message \in Message, level \in Level \cup {NoLevel} : BeginWrite(message, level)

LoggingSpec == LoggingInit /\ [][LoggingNext]_logVars

-----------------------------------------------------------------------------
(* Properties                                                              *)

\* A Write that returns has given its text, with a level that is one, to every
\* hook in the table once and in order, those that hooks added meanwhile too,
\* whether or not the log could be opened.  The table is never written past its
\* end, which hooks that add hooks reach in the middle of the loop
\* (Logging.cpp:43-95).
WriteReachesEveryHook ==
    [][logPc = "hooks" /\ logPc' = "idle" =>
          /\ Len(reached) = Len(kiaro_logging_hooks) /\ Len(reached) <= MaxHooks
          /\ log_level \in Level
          /\ \A i \in 1..Len(reached) :
                reached[i] = [hook |-> kiaro_logging_hooks[i], text |-> input, level |-> log_level]]_logVars
=============================================================================
