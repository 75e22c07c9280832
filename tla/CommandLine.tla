---------------------------- MODULE CommandLine ----------------------------
(***************************************************************************)
(* Support::CommandLineParser (support/CommandLineParser.cpp) with the     *)
(* responders that main() registers: the arguments are collected by flag   *)
(* and the responders are then invoked in the order of an unordered_map,   *)
(* each told whether another one ran before it.  A flag is the string      *)
(* itself: different strings are taken to hash differently.                *)
(***************************************************************************)
EXTENDS Naturals, Sequences, FiniteSets

CONSTANTS Flag,        \* arguments that match "-.+"
          Word,        \* arguments that do not, the empty one included
          MaxArguments \* bound on the length of the command line

ASSUME CommandLineAssumption ==
    /\ Flag \cap Word = {} /\ "" \notin Flag /\ MaxArguments \in Nat

VARIABLES argv,               \* the command line, without the program's name
          iteration,          \* of the constructor's loop
          currentFlagName,    \* the flag that words go to, or ""
          mFlags,             \* flag -> its words
          unvisited,          \* flags the walk of invokeFlagResponders has ahead
          current,            \* the flag whose responder runs
          executedFlagHandler,
          pc                  \* where the program is

walk == <<unvisited, current, executedFlagHandler>>
cliVars == <<argv, iteration, currentFlagName, mFlags, walk, pc>>

\* What main() passes to setFlagResponder, and "-h" of the constructor.
Registered == {"-h", "-game", "-dedicated", "-v", "-tests"}
HasResponder(f) == f \in Registered \ {"-dedicated"}

CommandLines == UNION {[1..n -> Flag \cup Word] : n \in 0..MaxArguments}

CliInit ==
    /\ argv \in CommandLines
    /\ iteration = 1 /\ currentFlagName = "" /\ mFlags = <<>>
    /\ unvisited = {} /\ current = "" /\ executedFlagHandler = FALSE
    /\ pc = "parse"

-----------------------------------------------------------------------------
(* The constructor                                                         *)

\* Mutant of Inserted: a repeated flag starts over.
BugInserted(f) == [g \in DOMAIN mFlags \cup {f} |-> IF g = f THEN <<>> ELSE mFlags[g]]
Inserted(f) == [g \in DOMAIN mFlags \cup {f} |-> IF g \in DOMAIN mFlags THEN mFlags[g] ELSE <<>>]

ParseFlag ==
    /\ pc = "parse" /\ iteration <= Len(argv) /\ argv[iteration] \in Flag
    /\ currentFlagName' = argv[iteration]
    /\ mFlags' = Inserted(argv[iteration])
    /\ iteration' = iteration + 1
    /\ UNCHANGED <<argv, walk, pc>>

\* Words in front of the first flag are dropped.
ParseWord ==
    /\ pc = "parse" /\ iteration <= Len(argv) /\ argv[iteration] \in Word
    /\ mFlags' = IF currentFlagName = "" THEN mFlags
                 ELSE [mFlags EXCEPT ![currentFlagName] = Append(@, argv[iteration])]
    /\ iteration' = iteration + 1
    /\ UNCHANGED <<argv, currentFlagName, walk, pc>>

-----------------------------------------------------------------------------
(* Queries                                                                 *)

hasFlag(f) == f \in DOMAIN mFlags

\* getFlagArgument(f, 0)
FirstArgument(f) == IF hasFlag(f) /\ mFlags[f] # <<>> THEN mFlags[f][1] ELSE ""

\* Mutant of AfterLookup: the flag is looked up with operator[], which inserts it.
BugAfterLookup(f) == Inserted(f)
\* The map after hasFlag(f), which looks the flag up with at().
AfterLookup(f) == mFlags

-----------------------------------------------------------------------------
(* invokeFlagResponders                                                    *)

BeginWalk ==
    /\ pc = "parse" /\ iteration > Len(argv)
    /\ pc' = "walk" /\ unvisited' = DOMAIN mFlags
    /\ UNCHANGED <<argv, iteration, currentFlagName, mFlags, current, executedFlagHandler>>

\* Mutant of AfterSkip: a flag without a responder counts as one that ran.
BugAfterSkip == TRUE
AfterSkip == executedFlagHandler

\* at() throws for a flag nobody registered, and the loop swallows it; a NULL
\* responder is passed over.
SkipFlag(f) ==
    /\ pc = "walk" /\ f \in unvisited /\ ~HasResponder(f)
    /\ unvisited' = unvisited \ {f}
    /\ executedFlagHandler' = AfterSkip
    /\ UNCHANGED <<argv, iteration, currentFlagName, mFlags, current, pc>>

Invoke(f) ==
    /\ pc = "walk" /\ f \in unvisited /\ HasResponder(f)
    /\ unvisited' = unvisited \ {f} /\ current' = f /\ pc' = "invoke"
    /\ UNCHANGED <<argv, iteration, currentFlagName, mFlags, executedFlagHandler>>

\* The responder came back.
InvokeReturns ==
    /\ executedFlagHandler' = TRUE /\ pc' = "walk"
    /\ UNCHANGED <<argv, iteration, currentFlagName, unvisited, current>>

EndWalk ==
    /\ pc = "walk" /\ unvisited = {}
    /\ pc' = IF executedFlagHandler THEN "done" ELSE "help"
    /\ UNCHANGED <<argv, iteration, currentFlagName, mFlags, walk>>

\* mFlags[helpHash] inserts the help flag, after the walk.
NoneExecuted ==
    /\ pc = "help" /\ pc' = "done"
    /\ mFlags' = Inserted("-h")
    /\ UNCHANGED <<argv, iteration, currentFlagName, walk>>

CliStep ==
    \/ ParseFlag \/ ParseWord \/ BeginWalk
    \/ \E f \in Flag : SkipFlag(f) \/ Invoke(f)
    \/ EndWalk \/ NoneExecuted

-----------------------------------------------------------------------------
(* Properties                                                              *)

\* The flag that an argument follows, and where the words of f are among the
\* first n arguments, over all places f stands at.
Owner(i) == LET before == {j \in 1..i : argv[j] \in Flag}
            IN  IF before = {} THEN ""
                ELSE argv[CHOOSE j \in before : \A k \in before : k <= j]
WordsOf(f, n) == {i \in 1..n : argv[i] \in Word /\ Owner(i) = f}

\* Every word goes to the flag it follows, in order, and a flag that is given
\* twice keeps the words of both places; "any arguments prepended with a dash
\* is considered a flag while the rest is considered arguments to the flags"
\* (CommandLineParser.hpp:36-37).
ParsedRight ==
    pc # "parse" =>
        /\ DOMAIN mFlags \ {"-h"} = (Flag \cap {argv[i] : i \in 1..Len(argv)}) \ {"-h"}
        /\ \A f \in DOMAIN mFlags :
              /\ Len(mFlags[f]) = Cardinality(WordsOf(f, Len(argv)))
              /\ \A i \in WordsOf(f, Len(argv)) : mFlags[f][Cardinality(WordsOf(f, i))] = argv[i]

\* invokeFlagResponders walks the map while responders query it: no query may
\* insert, which could rehash the map under the walk's iterator
\* (CommandLineParser.cpp:105, 116).
WalkSeesSameMap == [][(pc \in {"walk", "invoke"}) => mFlags' = mFlags]_cliVars
=============================================================================
