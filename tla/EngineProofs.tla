---------------------------- MODULE EngineProofs ----------------------------
(* Machine-checked facts about Engine, for every command line.             *)
EXTENDS Engine, FiniteSetTheorems, SequenceTheorems, TLAPS

\* Nothing but PhysFS exists when the parser starts.
LEMMA EngineInitInv == EngineInit => EngineInv
<1> SUFFICES ASSUME EngineInit PROVE EngineInv
  OBVIOUS
<1>1. /\ mRunning \in BOOLEAN /\ mClient \in BOOLEAN /\ mServer \in BOOLEAN
      /\ mIrrlichtDevice \in BOOLEAN /\ executedFlagHandler \in BOOLEAN
  BY Zenon DEF EngineInit, CliInit
<1>2. /\ ~mClient /\ ~mServer /\ ~mIrrlichtDevice /\ pc = "parse" /\ instances = {}
      /\ hosts = {} /\ libraries = {"physfs"} /\ runs = 0 /\ mEngineMode = "client"
  BY Zenon DEF EngineInit, CliInit
<1> QED
  BY <1>1, <1>2 DEF EngineInv, EngineTypeOK, HostsWithinEnet, LoopHasWhatItUses,
     DiesForAReason, PointersTell, PlaceTells, UnwindingTells, BeforeEngine, InEngine, Unwinding, Stopped

\* Every step of the program keeps the invariant.
LEMMA EngineNextInv == EngineInv /\ [EngineNext]_programVars => EngineInv'
<1> SUFFICES ASSUME EngineInv, [EngineNext]_programVars PROVE EngineInv'
  OBVIOUS
<1> USE DEF EngineInv, EngineTypeOK, HostsWithinEnet, LoopHasWhatItUses, DiesForAReason,
            PointersTell, PlaceTells, UnwindingTells, BeforeEngine, InEngine, Unwinding, Stopped, engineVars, pointers
<1>1. CASE ParseFlag /\ UNCHANGED engineVars
  BY <1>1 DEF ParseFlag, walk
<1>2. CASE ParseWord /\ UNCHANGED engineVars
  BY <1>2 DEF ParseWord, walk
<1>3. CASE BeginWalk /\ UNCHANGED engineVars
  BY <1>3 DEF BeginWalk
<1>4. ASSUME NEW f \in Flag, SkipFlag(f), UNCHANGED engineVars PROVE EngineInv'
  BY <1>4 DEF SkipFlag, AfterSkip
<1>5. ASSUME NEW f \in Flag, Invoke(f), UNCHANGED engineVars PROVE EngineInv'
  BY <1>5 DEF Invoke
<1>6. CASE EndWalk /\ UNCHANGED engineVars
  BY <1>6 DEF EndWalk, walk
<1>7. CASE NoneExecuted /\ UNCHANGED engineVars
  BY <1>7 DEF NoneExecuted, walk
<1>8. CASE PrintingResponder
  BY <1>8 DEF PrintingResponder, InvokeReturns
<1>9. CASE GameReturns
  BY <1>9 DEF GameReturns, InvokeReturns
<1>10. CASE GameStarts
  <2>1. mRunning' \in BOOLEAN
    BY <1>10, Zenon DEF GameStarts, RunBegins
  <2>2. mEngineMode' \in {"client", "clientconnect", "dedicated"}
    BY <1>10, Zenon DEF GameStarts, Configured, RequestedMode
  <2>3. ~executedFlagHandler
    BY <1>10, Zenon DEF GameStarts, GameRefused
  <2>4. runs = 0
    BY <1>10, <2>3 DEF GameStarts
  <2>5. /\ pc' = "mode" /\ runs' = 1 /\ libraries' = libraries \cup {"enet"}
        /\ instances' = instances \cup {"CoreSingleton"} /\ UNCHANGED hosts
        /\ pc = "invoke"
    BY <1>10, <2>4 DEF GameStarts, Configured, RunBegins
  <2>9. instances' = {"CoreSingleton"} /\ hosts' = {} /\ ~mIrrlichtDevice
    BY <2>5
  <2>6. UNCHANGED pointers
    BY <1>10 DEF GameStarts
  <2>7. UNCHANGED executedFlagHandler
    BY <1>10 DEF GameStarts, walk
  <2>8. /\ executedFlagHandler' \in BOOLEAN
        /\ mClient' \in BOOLEAN /\ mServer' \in BOOLEAN /\ mIrrlichtDevice' \in BOOLEAN
    BY <2>6, <2>7, Zenon
  <2> QED
    BY <2>1, <2>2, <2>5, <2>6, <2>7, <2>8, <2>9
<1>11. CASE ModeClient
  BY <1>11 DEF ModeClient, GetClient, cliRest, walk
<1>12. CASE ModeClientConnect
  BY <1>12 DEF ModeClientConnect, GetClient, AfterConnect, cliRest, walk
<1>13. CASE ModeDedicated
  BY <1>13 DEF ModeDedicated, GetServer, cliRest, walk
<1>14. CASE ServerThrows
  BY <1>14 DEF ServerThrows, cliRest, walk
<1>15. CASE SetUp
  BY <1>15 DEF SetUp, GetListener, cliRest, walk
<1>16. CASE NoDevice
  BY <1>16 DEF NoDevice, GetListener, cliRest, walk
<1>17. CASE GuiThrows
  BY <1>17 DEF GuiThrows, GetListener, cliRest, walk
<1>18. CASE Tick
  <2>1. CASE mClient /\ "client" \notin hosts
    <3>1. /\ pc = "loop" /\ pc' = "crashed" /\ UNCHANGED <<mEngineMode, hosts, libraries, runs>>
          /\ instances' = instances \cup {"SchedulerSingleton"}
          /\ UNCHANGED pointers /\ mRunning' = mRunning
      BY <1>18, <2>1 DEF Tick, GetScheduler
    <3>2. UNCHANGED executedFlagHandler
      BY <1>18 DEF Tick, GetScheduler, cliRest, walk
    <3>5. (mClient' <=> mClient) /\ (mServer' <=> mServer) /\ (mIrrlichtDevice' <=> mIrrlichtDevice)
      BY <3>1, Zenon
    <3>3. /\ mRunning' \in BOOLEAN /\ executedFlagHandler' \in BOOLEAN
          /\ mClient' \in BOOLEAN /\ mServer' \in BOOLEAN /\ mIrrlichtDevice' \in BOOLEAN
      BY <3>1, <3>2, Zenon
    <3>4. mEngineMode = "client"
      BY <2>1, <3>1
    <3> QED
      BY <3>1, <3>2, <3>3, <3>4, <3>5
  <2>2. CASE ~(mClient /\ "client" \notin hosts)
    BY <1>18, <2>2 DEF Tick, GetScheduler, cliRest, walk
  <2> QED
    BY <2>1, <2>2
<1>19. CASE LoopEnds
  BY <1>19 DEF LoopEnds, cliRest, walk
<1>20. CASE Kill
  BY <1>20 DEF Kill, cliRest, walk
<1>21. CASE DestroyClient
  BY <1>21 DEF DestroyClient, WithoutClient, ClientParts, cliRest, walk
<1>22. CASE DestroyServer
  BY <1>22 DEF DestroyServer, ServerParts, cliRest, walk
<1>23. CASE DestroySupport
  BY <1>23 DEF DestroySupport, WithoutListener, WithoutScheduler, cliRest, walk
<1>24. CASE DropDevice
  BY <1>24 DEF DropDevice, cliRest, walk
<1>25. CASE Deinitialise
  BY <1>25 DEF Deinitialise, InvokeReturns
<1>26. CASE MainReturns
  BY <1>26 DEF MainReturns, cliRest, walk
<1>27. CASE UNCHANGED programVars
  <2>1. UNCHANGED cliVars /\ UNCHANGED engineVars
    BY <1>27 DEF programVars
  <2>2. pc' = pc /\ UNCHANGED walk
    BY <2>1 DEF cliVars
  <2>3. executedFlagHandler' = executedFlagHandler
    BY <2>2 DEF walk
  <2>4. /\ mEngineMode' = mEngineMode /\ mRunning' = mRunning /\ instances' = instances
        /\ hosts' = hosts /\ libraries' = libraries /\ runs' = runs
        /\ mClient' = mClient /\ mServer' = mServer /\ mIrrlichtDevice' = mIrrlichtDevice
    BY <2>1, Zenon
  <2>5. EngineTypeOK'
    BY <2>3, <2>4, Zenon
  <2>6. (mClient' <=> mClient) /\ (mServer' <=> mServer) /\ (mIrrlichtDevice' <=> mIrrlichtDevice)
        /\ (executedFlagHandler' <=> executedFlagHandler)
    BY <2>3, <2>4, Zenon
  <2>7. pc' = pc
    BY <2>2
  <2>8. HostsWithinEnet' /\ LoopHasWhatItUses' /\ DiesForAReason'
    BY <2>4, <2>6, <2>7
  <2>9. PointersTell'
    BY <2>4, <2>6
  <2>10. PlaceTells'
    BY <2>4, <2>6, <2>7
  <2>11. UnwindingTells'
    BY <2>4, <2>6, <2>7
  <2>12. pc' \in BeforeEngine \cup InEngine \cup Stopped
    BY <2>7
  <2> QED
    BY <2>5, <2>8, <2>9, <2>10, <2>11, <2>12, Zenon
<1> QED
  BY <1>1, <1>2, <1>3, <1>4, <1>5, <1>6, <1>7, <1>8, <1>9, <1>10, <1>11, <1>12, <1>13,
     <1>14, <1>15, <1>16, <1>17, <1>18, <1>19, <1>20, <1>21, <1>22, <1>23, <1>24, <1>25,
     <1>26, <1>27
  DEF EngineNext, Parser, CliStep, Responders, Run, Destructor

\* The engine's invariant holds in every run of the program, whatever the
\* command line, the network and the devices do.
THEOREM EngineInvariant == EngineSpec => []EngineInv
BY EngineInitInv, EngineNextInv, PTL DEF EngineSpec

\* No ENet host outlives ENet, and none is made before it is initialised.
THEOREM HostsAreClosed == EngineSpec => []HostsWithinEnet
<1>1. EngineInv => HostsWithinEnet
  BY DEF EngineInv
<1> QED
  BY <1>1, EngineInvariant, PTL

\* The loop runs only with the device and the host its mode needs.
THEOREM LoopIsEquipped == EngineSpec => []LoopHasWhatItUses
<1>1. EngineInv => LoopHasWhatItUses
  BY DEF EngineInv
<1> QED
  BY <1>1, EngineInvariant, PTL

\* A program that ends by main's return has cleaned up after the engine.
THEOREM CleansUp == EngineSpec => []NothingLeftBehind
<1>1. EngineInv => NothingLeftBehind
  <2> SUFFICES ASSUME EngineInv, pc = "exited", runs = 1
               PROVE  instances = {} /\ hosts = {} /\ libraries = {} /\ ~mIrrlichtDevice
    BY DEF NothingLeftBehind
  <2>1. instances = {} /\ ~mIrrlichtDevice /\ libraries = {}
    BY DEF EngineInv, PlaceTells, BeforeEngine
  <2>2. "server" \notin hosts /\ "client" \notin hosts /\ hosts \subseteq {"client", "server"}
    BY <2>1 DEF EngineInv, EngineTypeOK, PointersTell
  <2> QED
    BY <2>1, <2>2
<1> QED
  BY <1>1, EngineInvariant, PTL

\* There are three ways to follow a NULL pointer, and no fourth.
THEOREM KnownDeaths == EngineSpec => []DiesForAReason
<1>1. EngineInv => DiesForAReason
  BY DEF EngineInv
<1> QED
  BY <1>1, EngineInvariant, PTL

\* No responder changes the map that is being walked.
THEOREM WalkIsSafe == EngineSpec => WalkSeesSameMap
<1>1. [EngineNext]_programVars => [(pc \in {"walk", "invoke"}) => mFlags' = mFlags]_cliVars
  <2> SUFFICES ASSUME [EngineNext]_programVars, pc \in {"walk", "invoke"}
               PROVE  mFlags' = mFlags
    BY DEF cliVars
  <2>1. CASE Parser
    BY <2>1 DEF Parser, CliStep, ParseFlag, ParseWord, BeginWalk, SkipFlag, Invoke, EndWalk,
                NoneExecuted
  <2>2. CASE Responders
    BY <2>2 DEF Responders, PrintingResponder, GameReturns, GameStarts, AfterLookup
  <2>3. CASE Run
    BY <2>3 DEF Run, ModeClient, ModeClientConnect, ModeDedicated, ServerThrows, SetUp,
                NoDevice, GuiThrows, Tick, LoopEnds
  <2>4. CASE Destructor
    BY <2>4 DEF Destructor, Kill, DestroyClient, DestroyServer, DestroySupport, DropDevice,
                Deinitialise
  <2>5. CASE MainReturns
    BY <2>5 DEF MainReturns
  <2>6. CASE UNCHANGED programVars
    BY <2>6 DEF programVars, cliVars
  <2> QED
    BY <2>1, <2>2, <2>3, <2>4, <2>5, <2>6 DEF EngineNext
<1> QED
  BY <1>1, PTL DEF EngineSpec, WalkSeesSameMap

\* As long as a game that was asked for properly has not been run, it is among
\* the flags the walk has ahead, or its responder is the one that runs.
GameAhead ==
    /\ pc = "parse" => ~executedFlagHandler
    /\ pc = "walk" => unvisited \subseteq DOMAIN mFlags
    /\ pc = "invoke" => unvisited \subseteq DOMAIN mFlags
    /\ pc = "walk" /\ AskedProperly => runs = 1 \/ (~executedFlagHandler /\ "-game" \in unvisited)
    /\ pc = "invoke" /\ AskedProperly => runs = 1 \/ (~executedFlagHandler /\ current = "-game")
    /\ pc \in InEngine => unvisited \subseteq DOMAIN mFlags
    /\ pc = "help" => ~AskedProperly
    /\ pc \in {"done", "exited"} /\ AskedProperly => runs = 1

\* Whether a game was asked for properly depends on the flags alone.
LEMMA SameQuestion ==
    ASSUME mFlags' = mFlags PROVE AskedProperly' <=> AskedProperly
BY DEF AskedProperly, WantsServer, FirstArgument, hasFlag, HasResponder, Registered

\* Every step keeps the game ahead of the walk until it is run.
LEMMA GameAheadNext ==
    EngineInv /\ GameAhead /\ [EngineNext]_programVars => GameAhead'
<1> SUFFICES ASSUME EngineInv, GameAhead, [EngineNext]_programVars PROVE GameAhead'
  OBVIOUS
<1> USE DEF GameAhead, InEngine, Unwinding
<1>0. "-game" # "-h" /\ HasResponder("-game") /\ HasResponder("-h")
  BY DEF HasResponder, Registered
<1>1. CASE ParseFlag /\ UNCHANGED engineVars
  BY <1>1 DEF ParseFlag, walk
<1>2. CASE ParseWord /\ UNCHANGED engineVars
  BY <1>2 DEF ParseWord, walk
<1>3. CASE BeginWalk /\ UNCHANGED engineVars
  <2>1. mFlags' = mFlags /\ pc = "parse" /\ pc' = "walk" /\ unvisited' = DOMAIN mFlags
        /\ executedFlagHandler' = executedFlagHandler
    BY <1>3 DEF BeginWalk
  <2>2. AskedProperly' => "-game" \in DOMAIN mFlags
    BY <2>1, SameQuestion DEF AskedProperly, hasFlag
  <2> QED
    BY <2>1, <2>2
<1>4. ASSUME NEW f \in Flag, SkipFlag(f), UNCHANGED engineVars PROVE GameAhead'
  BY <1>0, <1>4, SameQuestion DEF SkipFlag, AfterSkip, engineVars
<1>5. ASSUME NEW f \in Flag, Invoke(f), UNCHANGED engineVars PROVE GameAhead'
  <2>1. AskedProperly => f = "-game"
    BY <1>5 DEF Invoke, AskedProperly
  <2> QED
    BY <1>5, <2>1, SameQuestion DEF Invoke, engineVars
<1>6. CASE EndWalk /\ UNCHANGED engineVars
  BY <1>6, SameQuestion DEF EndWalk, walk, engineVars, EngineInv, PlaceTells, BeforeEngine,
     EngineTypeOK
<1>7. CASE NoneExecuted /\ UNCHANGED engineVars
  <2>1. "-h" \in DOMAIN mFlags'
    BY <1>7 DEF NoneExecuted, Inserted
  <2>2. ~AskedProperly'
    BY <1>0, <2>1 DEF AskedProperly, HasResponder, Registered
  <2> QED
    BY <1>7, <2>2 DEF NoneExecuted
<1>8. CASE PrintingResponder
  BY <1>8, SameQuestion DEF PrintingResponder, InvokeReturns, engineVars
<1>9. CASE GameReturns
  <2>1. mFlags' = mFlags
    BY <1>9 DEF GameReturns, AfterLookup
  <2>2. AskedProperly => runs = 1
    <3> SUFFICES ASSUME AskedProperly, runs # 1 PROVE FALSE
      OBVIOUS
    <3>1. pc = "invoke" /\ GameRefused
      BY <1>9 DEF GameReturns
    <3>2. ~executedFlagHandler
      BY <3>1
    <3>3. Len(mFlags["-game"]) = 1 /\ (WantsServer => FirstArgument("-server") # "")
      BY DEF AskedProperly
    <3> QED
      BY <3>1, <3>2, <3>3 DEF GameRefused
  <2> QED
    BY <1>9, <2>1, <2>2, SameQuestion DEF GameReturns, InvokeReturns, engineVars
<1>10. CASE GameStarts
  BY <1>10 DEF GameStarts, AfterLookup, walk
<1>11. CASE Run
  <2>1. UNCHANGED <<mFlags, unvisited, runs>> /\ pc \in InEngine
        /\ pc' \in InEngine \cup {"crashed", "terminated", "undefined"}
    BY <1>11 DEF Run, ModeClient, ModeClientConnect, AfterConnect, ModeDedicated, ServerThrows,
       SetUp, NoDevice, GuiThrows, Tick, LoopEnds, cliRest, walk, engineVars
  <2> QED
    BY <2>1
<1>12. CASE Kill \/ DestroyClient \/ DestroyServer \/ DestroySupport \/ DropDevice
  <2>1. UNCHANGED <<mFlags, unvisited, runs>> /\ pc \in InEngine
        /\ pc' \in InEngine \cup {"crashed"}
    BY <1>12 DEF Kill, DestroyClient, DestroyServer, DestroySupport, DropDevice, cliRest, walk
  <2> QED
    BY <2>1
<1>13. CASE Deinitialise
  <2>1. pc = "deinit" /\ pc' = "walk" /\ mFlags' = mFlags /\ unvisited' = unvisited /\ runs' = runs
    BY <1>13 DEF Deinitialise, InvokeReturns
  <2>2. runs' = 1
    BY <2>1 DEF EngineInv, PlaceTells
  <2>3. unvisited' \subseteq DOMAIN mFlags'
    BY <2>1
  <2> QED
    BY <2>1, <2>2, <2>3
<1>14. CASE MainReturns
  BY <1>14, SameQuestion DEF MainReturns, cliRest, walk, engineVars
<1>15. CASE UNCHANGED programVars
  <2>1. UNCHANGED <<mFlags, pc, walk, runs>>
    BY <1>15 DEF programVars, cliVars, engineVars
  <2>2. UNCHANGED <<unvisited, current, executedFlagHandler>>
    BY <2>1 DEF walk
  <2> QED
    BY <2>1, <2>2, SameQuestion
<1> QED
  BY <1>1, <1>2, <1>3, <1>4, <1>5, <1>6, <1>7, <1>8, <1>9, <1>10, <1>11, <1>12, <1>13,
     <1>14, <1>15
  DEF EngineNext, Parser, CliStep, Responders, Destructor

\* In every order of the map a game that was asked for properly is run.
THEOREM GameIsRun == EngineSpec => []GameIsServed
<1>1. EngineInit => GameAhead
  BY DEF EngineInit, CliInit, GameAhead, InEngine, Unwinding
<1>2. GameAhead => GameIsServed
  BY DEF GameAhead, GameIsServed
<1> QED
  BY <1>1, <1>2, GameAheadNext, EngineInvariant, PTL DEF EngineSpec

-----------------------------------------------------------------------------
(* The command line                                                        *)

\* The flags among the first n arguments.
GivenFlags(n) == Flag \cap {argv[i] : i \in 1..n}

\* What the first arguments follow is one of the flags in front of them.
OwnersGiven(n) == \A i \in 0..n : Owner(i) \in GivenFlags(i) \cup {""}

\* Each flag has collected the words that follow it among the first n arguments.
Collected(n) ==
    \A f \in DOMAIN mFlags :
        /\ mFlags[f] \in Seq(Word) /\ Len(mFlags[f]) = Cardinality(WordsOf(f, n))
        /\ \A i \in WordsOf(f, n) : mFlags[f][Cardinality(WordsOf(f, i))] = argv[i]

\* The parser has right what it has read, and later only "-h" is added.
ReadRight(n) ==
    /\ iteration = n + 1 /\ currentFlagName = Owner(n)
    /\ OwnersGiven(n) /\ DOMAIN mFlags = GivenFlags(n) /\ Collected(n)
AllRead(n) ==
    /\ GivenFlags(n) \subseteq DOMAIN mFlags /\ DOMAIN mFlags \subseteq GivenFlags(n) \cup {"-h"}
    /\ OwnersGiven(n) /\ Collected(n)
\* The command line is read from its beginning to its end.
CliInv ==
    /\ argv \in Seq(Flag \cup Word)
    /\ pc = "parse" => \E n \in 0..Len(argv) : ReadRight(n)
    /\ pc # "parse" => \E n \in {Len(argv)} : AllRead(n)

\* A flag owns itself and what follows it; a word follows what the one before it does.
LEMMA OwnerOfNext ==
    ASSUME NEW n \in Nat
    PROVE  /\ argv[n + 1] \in Flag => Owner(n + 1) = argv[n + 1]
           /\ argv[n + 1] \notin Flag => Owner(n + 1) = Owner(n)
<1> DEFINE flags(i) == {j \in 1..i : argv[j] \in Flag}
           Last(j, S) == \A k \in S : k <= j
           last(S) == CHOOSE j \in S : Last(j, S)
<1>1. \A i : Owner(i) = IF flags(i) = {} THEN "" ELSE argv[last(flags(i))]
  BY DEF Owner
<1>2. 1..(n + 1) = (1..n) \cup {n + 1}
  OBVIOUS
<1>3. ASSUME argv[n + 1] \in Flag PROVE Owner(n + 1) = argv[n + 1]
  <2>1. n + 1 \in flags(n + 1) /\ Last(n + 1, flags(n + 1))
    BY <1>3
  <2>2. \A j \in flags(n + 1) : Last(j, flags(n + 1)) => j = n + 1
    BY <1>2, <2>1
  <2> HIDE DEF Last, flags
  <2>3. last(flags(n + 1)) = n + 1
    BY <2>1, <2>2
  <2>4. flags(n + 1) # {}
    BY <2>1
  <2> HIDE DEF last
  <2> QED
    BY <1>1, <2>3, <2>4
<1>4. ASSUME argv[n + 1] \notin Flag PROVE Owner(n + 1) = Owner(n)
  <2>1. flags(n + 1) = flags(n)
    BY <1>2, <1>4
  <2> HIDE DEF flags, last
  <2> QED
    BY <1>1, <2>1
<1> QED
  BY <1>3, <1>4

\* The owners are given for one more argument.
LEMMA NextOwnerGiven ==
    ASSUME NEW n \in Nat, OwnersGiven(n)
    PROVE  OwnersGiven(n + 1)
<1>1. ASSUME NEW i \in 0..(n + 1) PROVE Owner(i) \in GivenFlags(i) \cup {""}
  <2>1. CASE i \in 0..n
    BY <2>1 DEF OwnersGiven
  <2>2. CASE i = n + 1
    <3>1. argv[n + 1] \in Flag => Owner(n + 1) \in GivenFlags(n + 1)
      BY OwnerOfNext DEF GivenFlags
    <3>2. GivenFlags(n) \subseteq GivenFlags(n + 1) /\ n \in 0..n
      BY DEF GivenFlags
    <3>3. Owner(n) \in GivenFlags(n) \cup {""}
      BY <3>2 DEF OwnersGiven
    <3> QED
      BY <2>2, <3>1, <3>2, <3>3, OwnerOfNext
  <2>3. i \in 0..n \/ i = n + 1
    OBVIOUS
  <2> QED
    BY <2>1, <2>2, <2>3
<1> QED
  BY <1>1 DEF OwnersGiven

\* The words of a flag, one argument later.
LEMMA WordsOfNext ==
    ASSUME NEW n \in Nat, NEW f
    PROVE  /\ argv[n + 1] \in Word /\ Owner(n) = f => WordsOf(f, n + 1) = WordsOf(f, n) \cup {n + 1}
           /\ ~(argv[n + 1] \in Word /\ Owner(n) = f) => WordsOf(f, n + 1) = WordsOf(f, n)
<1>1. 1..(n + 1) = (1..n) \cup {n + 1}
  OBVIOUS
<1>2. argv[n + 1] \in Word => Owner(n + 1) = Owner(n)
  BY OwnerOfNext, CommandLineAssumption
<1> QED
  BY <1>1, <1>2 DEF WordsOf

\* Each word has its place among those of its flag.
LEMMA PlaceOfWord ==
    ASSUME NEW n \in Nat, NEW f
    PROVE  /\ IsFiniteSet(WordsOf(f, n)) /\ Cardinality(WordsOf(f, n)) \in Nat /\ n + 1 \notin WordsOf(f, n)
           /\ \A i \in WordsOf(f, n) : Cardinality(WordsOf(f, i)) \in 1..Cardinality(WordsOf(f, n))
<1>1. WordsOf(f, n) \subseteq 1..n /\ IsFiniteSet(1..n)
  BY FS_Interval DEF WordsOf
<1>2. IsFiniteSet(WordsOf(f, n)) /\ Cardinality(WordsOf(f, n)) \in Nat
  BY <1>1, FS_Subset, FS_CardinalityType
<1>3. ASSUME NEW i \in WordsOf(f, n) PROVE Cardinality(WordsOf(f, i)) \in 1..Cardinality(WordsOf(f, n))
  <2>1. i \in 1..n /\ 1..i \subseteq 1..n /\ i \in 1..i
    BY <1>1
  <2>2. WordsOf(f, i) \subseteq WordsOf(f, n) /\ i \in WordsOf(f, i)
    BY <2>1 DEF WordsOf
  <2>3. IsFiniteSet(WordsOf(f, i)) /\ Cardinality(WordsOf(f, i)) <= Cardinality(WordsOf(f, n))
    BY <1>2, <2>2, FS_Subset
  <2>4. Cardinality(WordsOf(f, i)) \in Nat /\ Cardinality(WordsOf(f, i)) # 0
    BY <2>2, <2>3, FS_CardinalityType, FS_EmptySet
  <2> QED
    BY <1>2, <2>3, <2>4
<1>4. n + 1 \notin WordsOf(f, n)
  BY <1>1
<1> QED
  BY <1>2, <1>3, <1>4

\* Shorter prefixes lie in longer ones.
LEMMA PrefixWithin ==
    ASSUME NEW n \in Nat, NEW i \in 1..n
    PROVE  i \in 0..n /\ 1..i \subseteq 1..n
  OBVIOUS

\* A flag that is not given has no words.
LEMMA NoWordsOf ==
    ASSUME NEW n \in Nat, OwnersGiven(n), NEW f, f # "", f \notin GivenFlags(n)
    PROVE  WordsOf(f, n) = {}
<1>1. ASSUME NEW i \in 1..n PROVE Owner(i) # f
  <2>1. i \in 0..n /\ 1..i \subseteq 1..n
    BY PrefixWithin
  <2>2. GivenFlags(i) \subseteq GivenFlags(n)
    BY <2>1 DEF GivenFlags
  <2> QED
    BY <2>1, <2>2 DEF OwnersGiven
<1> QED
  BY <1>1 DEF WordsOf

\* Owner, of any command line.
OwnerIn(line, i) ==
    LET before == {j \in 1..i : line[j] \in Flag}
    IN  IF before = {} THEN "" ELSE line[CHOOSE j \in before : \A k \in before : k <= j]

\* An unchanged command line keeps the owners,
LEMMA SameOwner ==
    ASSUME NEW i, argv' = argv PROVE Owner(i)' = Owner(i)
<1>1. Owner(i) = OwnerIn(argv, i)
  BY DEF Owner, OwnerIn
<1>2. Owner(i)' = OwnerIn(argv', i)
  BY DEF Owner, OwnerIn
<1> QED
  BY <1>1, <1>2

\* what is given and the words,
LEMMA SameArguments ==
    ASSUME NEW n, argv' = argv
    PROVE  /\ GivenFlags(n)' = GivenFlags(n) /\ OwnersGiven(n)' = OwnersGiven(n)
           /\ \A f : WordsOf(f, n)' = WordsOf(f, n)
<1>1. \A i : Owner(i)' = Owner(i)
  BY SameOwner
<1>2. GivenFlags(n)' = GivenFlags(n)
  BY DEF GivenFlags
<1>3. OwnersGiven(n)' = OwnersGiven(n)
  <2>1. \A i : GivenFlags(i)' = GivenFlags(i)
    BY DEF GivenFlags
  <2>2. OwnersGiven(n)' <=> \A i \in 0..n : Owner(i)' \in GivenFlags(i)' \cup {""}
    BY DEF OwnersGiven
  <2> QED
    BY <1>1, <2>1, <2>2 DEF OwnersGiven
<1>4. ASSUME NEW f PROVE WordsOf(f, n)' = WordsOf(f, n)
  <2>1. WordsOf(f, n)' = {i \in 1..n : argv'[i] \in Word /\ Owner(i)' = f}
    BY DEF WordsOf
  <2> QED
    BY <1>1, <2>1 DEF WordsOf
<1> QED
  BY <1>2, <1>3, <1>4

\* and with the map what is collected.
LEMMA SameCollected ==
    ASSUME NEW n, argv' = argv, mFlags' = mFlags PROVE Collected(n) => Collected(n)'
<1>1. \A f : WordsOf(f, n)' = WordsOf(f, n)
  BY SameArguments
<1>2. \A i, f : WordsOf(f, i)' = WordsOf(f, i)
  BY SameArguments
<1>3. Collected(n)' <=> \A f \in DOMAIN mFlags' :
        /\ mFlags'[f] \in Seq(Word) /\ Len(mFlags'[f]) = Cardinality(WordsOf(f, n)')
        /\ \A i \in WordsOf(f, n)' : mFlags'[f][Cardinality(WordsOf(f, i)')] = argv'[i]
  BY DEF Collected
<1> QED
  BY <1>1, <1>2, <1>3 DEF Collected

\* An argument is read.
LEMMA ParseInv == CliInv /\ (ParseFlag \/ ParseWord) => CliInv'
<1> SUFFICES ASSUME CliInv, ParseFlag \/ ParseWord PROVE CliInv'
  OBVIOUS
<1>1. /\ pc = "parse" /\ pc' = "parse" /\ iteration <= Len(argv) /\ iteration' = iteration + 1 /\ argv' = argv
  BY DEF ParseFlag, ParseWord
<1>2. PICK n \in 0..Len(argv) : ReadRight(n)
  BY <1>1 DEF CliInv
<1>3. argv \in Seq(Flag \cup Word) /\ Len(argv) \in Nat
  BY LenProperties DEF CliInv
<1> DEFINE argument == argv[n + 1]
<1>4. /\ n \in Nat /\ iteration = n + 1 /\ n + 1 \in 0..Len(argv) /\ iteration' = (n + 1) + 1
      /\ currentFlagName = Owner(n) /\ OwnersGiven(n) /\ DOMAIN mFlags = GivenFlags(n) /\ Collected(n)
  BY <1>1, <1>2, <1>3 DEF ReadRight
<1>5. OwnersGiven(n + 1)
  BY <1>4, NextOwnerGiven
<1>6. GivenFlags(n + 1) = GivenFlags(n) \cup (Flag \cap {argument})
  <2>1. 1..(n + 1) = (1..n) \cup {n + 1}
    BY <1>4
  <2> QED
    BY <2>1 DEF GivenFlags
<1>7. \A f \in DOMAIN mFlags : f # "" /\ f \in Flag
  BY <1>4, CommandLineAssumption DEF GivenFlags
<1>8. SUFFICES /\ currentFlagName' = Owner(n + 1) /\ DOMAIN mFlags' = GivenFlags(n + 1)
               /\ \A f \in DOMAIN mFlags' :
                     /\ mFlags'[f] \in Seq(Word) /\ Len(mFlags'[f]) = Cardinality(WordsOf(f, n + 1))
                     /\ \A i \in WordsOf(f, n + 1) : mFlags'[f][Cardinality(WordsOf(f, i))] = argv[i]
  <2>1. /\ Owner(n + 1)' = Owner(n + 1) /\ OwnersGiven(n + 1)' = OwnersGiven(n + 1)
        /\ GivenFlags(n + 1)' = GivenFlags(n + 1)
    BY <1>1, SameOwner, SameArguments
  <2>2. \A f, i : WordsOf(f, i)' = WordsOf(f, i)
    BY <1>1, SameArguments
  <2>3. Collected(n + 1)'
    BY <1>1, <1>8, <2>2 DEF Collected
  <2>4. ReadRight(n + 1)'
    BY <1>4, <1>5, <1>8, <2>1, <2>3 DEF ReadRight
  <2> QED
    BY <1>1, <1>4, <1>3, <2>4 DEF CliInv
<1>9. CASE ParseFlag
  <2>1. argument \in Flag /\ argument \notin Word /\ argument # "" /\ currentFlagName' = argument /\ mFlags' = Inserted(argument)
    BY <1>4, <1>9, CommandLineAssumption DEF ParseFlag
  <2>2. /\ DOMAIN mFlags' = DOMAIN mFlags \cup {argument}
        /\ \A f \in DOMAIN mFlags : mFlags'[f] = mFlags[f]
        /\ argument \notin DOMAIN mFlags => mFlags'[argument] = <<>>
    BY <2>1 DEF Inserted
  <2>3. \A f : WordsOf(f, n + 1) = WordsOf(f, n)
    BY <1>4, <2>1, WordsOfNext
  <2>4. ASSUME argument \notin DOMAIN mFlags
        PROVE  WordsOf(argument, n) = {} /\ Cardinality({}) = 0 /\ mFlags'[argument] \in Seq(Word) /\ Len(mFlags'[argument]) = 0
    <3>1. argument \notin GivenFlags(n)
      BY <1>4, <2>4
    <3>2. WordsOf(argument, n) = {}
      BY <1>4, <2>1, <3>1, NoWordsOf
    <3>3. <<>> \in Seq(Word) /\ Len(<<>>) = 0
      BY EmptySeq
    <3> QED
      BY <2>2, <2>4, <3>2, <3>3, FS_EmptySet
  <2>5. currentFlagName' = Owner(n + 1)
    BY <1>4, <2>1, OwnerOfNext
  <2>6. DOMAIN mFlags' = GivenFlags(n + 1)
    BY <1>4, <1>6, <2>1, <2>2
  <2> HIDE DEF argument
  <2>7. ASSUME NEW f \in DOMAIN mFlags'
        PROVE  /\ mFlags'[f] \in Seq(Word) /\ Len(mFlags'[f]) = Cardinality(WordsOf(f, n))
               /\ \A i \in WordsOf(f, n) : mFlags'[f][Cardinality(WordsOf(f, i))] = argv[i]
    <3>1. CASE f \in DOMAIN mFlags
      BY <1>4, <2>2, <3>1 DEF Collected
    <3>2. CASE f = argument /\ argument \notin DOMAIN mFlags
      BY <2>4, <3>2
    <3> QED
      BY <2>2, <3>1, <3>2
  <2> QED
    BY <2>3, <2>5, <2>6, <2>7
<1>10. CASE ParseWord
  <2>1. /\ argument \in Word /\ argument \notin Flag /\ currentFlagName' = currentFlagName
        /\ mFlags' = IF currentFlagName = "" THEN mFlags
                     ELSE [mFlags EXCEPT ![currentFlagName] = Append(@, argument)]
    BY <1>4, <1>10, CommandLineAssumption DEF ParseWord
  <2>2. Owner(n + 1) = Owner(n)
    BY <1>4, <2>1, OwnerOfNext
  <2>3. DOMAIN mFlags' = DOMAIN mFlags /\ GivenFlags(n + 1) = GivenFlags(n)
    BY <1>6, <2>1
  <2>4. ASSUME NEW f \in DOMAIN mFlags, f # currentFlagName
        PROVE  mFlags'[f] = mFlags[f] /\ WordsOf(f, n + 1) = WordsOf(f, n)
    BY <1>4, <2>1, <2>4, WordsOfNext
  <2>5. ASSUME currentFlagName \in DOMAIN mFlags
        PROVE  LET f == currentFlagName
               IN  /\ mFlags'[f] \in Seq(Word) /\ Len(mFlags'[f]) = Cardinality(WordsOf(f, n + 1))
                   /\ \A i \in WordsOf(f, n + 1) : mFlags'[f][Cardinality(WordsOf(f, i))] = argv[i]
    <3> DEFINE f == currentFlagName  q == mFlags[f]  W == WordsOf(f, n)
    <3>1. mFlags'[f] = Append(q, argument)
      BY <1>7, <2>1, <2>5
    <3>2. /\ q \in Seq(Word) /\ Len(q) = Cardinality(W)
          /\ \A i \in W : q[Cardinality(WordsOf(f, i))] = argv[i]
      BY <1>4, <2>5 DEF Collected
    <3>3. WordsOf(f, n + 1) = W \cup {n + 1}
      BY <1>4, <2>1, WordsOfNext
    <3>4. /\ IsFiniteSet(W) /\ Cardinality(W) \in Nat /\ n + 1 \notin W
          /\ \A i \in W : Cardinality(WordsOf(f, i)) \in 1..Cardinality(W)
      BY <1>4, PlaceOfWord
    <3>5. argument \in Word /\ argv[n + 1] = argument
      BY <2>1
    <3> HIDE DEF q, W, f, argument
    <3>6. Cardinality(W \cup {n + 1}) = Cardinality(W) + 1
      BY <3>4, FS_AddElement
    <3>7. /\ mFlags'[f] \in Seq(Word) /\ Len(mFlags'[f]) = Len(q) + 1 /\ mFlags'[f][Len(q) + 1] = argument
          /\ \A i \in 1..Len(q) : mFlags'[f][i] = q[i]
      BY <3>1, <3>2, <3>5, AppendProperties
    <3>8. mFlags'[f][Cardinality(WordsOf(f, n + 1))] = argv[n + 1]
      BY <3>2, <3>3, <3>5, <3>6, <3>7
    <3>9. \A i \in W : mFlags'[f][Cardinality(WordsOf(f, i))] = argv[i]
      BY <3>2, <3>4, <3>7
    <3> QED
      BY <3>2, <3>3, <3>6, <3>7, <3>8, <3>9 DEF f
  <2> HIDE DEF argument
  <2>6. ASSUME NEW f \in DOMAIN mFlags'
        PROVE  /\ mFlags'[f] \in Seq(Word) /\ Len(mFlags'[f]) = Cardinality(WordsOf(f, n + 1))
               /\ \A i \in WordsOf(f, n + 1) : mFlags'[f][Cardinality(WordsOf(f, i))] = argv[i]
    <3>1. CASE f = currentFlagName
      BY <2>3, <2>5, <3>1
    <3>2. CASE f # currentFlagName
      BY <1>4, <2>3, <2>4, <3>2 DEF Collected
    <3> QED
      BY <3>1, <3>2
  <2> QED
    BY <1>4, <2>1, <2>2, <2>3, <2>6
<1> QED
  BY <1>9, <1>10

\* The help flag is added without words, unless it was given.
LEMMA NoneExecutedInv == CliInv /\ NoneExecuted => CliInv'
<1> SUFFICES ASSUME CliInv, NoneExecuted PROVE CliInv'
  OBVIOUS
<1>1. pc # "parse" /\ pc' # "parse" /\ argv' = argv /\ mFlags' = Inserted("-h")
  BY DEF NoneExecuted
<1>2. PICK n \in {Len(argv)} : AllRead(n)
  BY <1>1 DEF CliInv
<1>3. argv \in Seq(Flag \cup Word) /\ n \in Nat /\ n = Len(argv)
  BY LenProperties DEF CliInv
<1>4. /\ GivenFlags(n) \subseteq DOMAIN mFlags
      /\ DOMAIN mFlags \subseteq GivenFlags(n) \cup {"-h"} /\ OwnersGiven(n) /\ Collected(n)
  BY <1>2 DEF AllRead
<1>5. /\ DOMAIN mFlags' = DOMAIN mFlags \cup {"-h"}
      /\ \A f \in DOMAIN mFlags : mFlags'[f] = mFlags[f]
      /\ "-h" \notin DOMAIN mFlags => mFlags'["-h"] = <<>>
  BY <1>1 DEF Inserted
<1>6. ASSUME "-h" \notin DOMAIN mFlags
      PROVE  WordsOf("-h", n) = {} /\ Cardinality({}) = 0 /\ mFlags'["-h"] \in Seq(Word) /\ Len(mFlags'["-h"]) = 0
  <2>1. "-h" \notin GivenFlags(n) /\ "-h" # ""
    BY <1>4, <1>6
  <2>2. WordsOf("-h", n) = {}
    BY <1>4, <1>3, <2>1, NoWordsOf
  <2>3. <<>> \in Seq(Word) /\ Len(<<>>) = 0
    BY EmptySeq
  <2> QED
    BY <1>5, <1>6, <2>2, <2>3, FS_EmptySet
<1>7. ASSUME NEW f \in DOMAIN mFlags'
      PROVE  /\ mFlags'[f] \in Seq(Word) /\ Len(mFlags'[f]) = Cardinality(WordsOf(f, n))
             /\ \A i \in WordsOf(f, n) : mFlags'[f][Cardinality(WordsOf(f, i))] = argv[i]
  <2>1. CASE f \in DOMAIN mFlags
    BY <1>4, <1>5, <2>1 DEF Collected
  <2>2. CASE f = "-h" /\ "-h" \notin DOMAIN mFlags
    BY <1>6, <2>2
  <2> QED
    BY <1>5, <2>1, <2>2
<1>8. Collected(n)'
  <2>1. \A g, i : WordsOf(g, i)' = WordsOf(g, i)
    BY <1>1, SameArguments
  <2> QED
    BY <1>1, <1>7, <2>1 DEF Collected
<1>9. OwnersGiven(n)' = OwnersGiven(n) /\ GivenFlags(n)' = GivenFlags(n)
  BY <1>1, SameArguments
<1>10. AllRead(n)'
  BY <1>4, <1>5, <1>8, <1>9 DEF AllRead
<1> QED
  BY <1>1, <1>3, <1>10 DEF CliInv

\* Nothing else changes what was parsed.
LEMMA CliNextInv == CliInv /\ [EngineNext]_programVars => CliInv'
<1> SUFFICES ASSUME CliInv, [EngineNext]_programVars PROVE CliInv'
  OBVIOUS
<1>1. ASSUME UNCHANGED <<argv, mFlags>>, pc' # "parse", NEW n, n = Len(argv), AllRead(n) PROVE CliInv'
  <2>1. /\ OwnersGiven(n)' = OwnersGiven(n) /\ GivenFlags(n)' = GivenFlags(n)
        /\ Collected(n) => Collected(n)'
    BY <1>1, SameArguments, SameCollected
  <2>2. AllRead(n)'
    BY <1>1, <2>1 DEF AllRead
  <2> QED
    BY <1>1, <2>2 DEF CliInv
<1>2. ASSUME UNCHANGED <<argv, mFlags>>, pc # "parse", pc' # "parse" PROVE CliInv'
  BY <1>1, <1>2 DEF CliInv
<1>3. CASE BeginWalk
  <2>1. UNCHANGED <<argv, mFlags>> /\ pc = "parse" /\ pc' # "parse" /\ iteration > Len(argv)
    BY <1>3 DEF BeginWalk
  <2>2. Len(argv) \in Nat
    BY LenProperties DEF CliInv
  <2>3. PICK n \in 0..Len(argv) : ReadRight(n)
    BY <2>1 DEF CliInv
  <2>4. iteration = n + 1
    BY <2>3 DEF ReadRight
  <2>5. n = Len(argv)
    BY <2>1, <2>2, <2>4
  <2>6. AllRead(n)
    BY <2>3 DEF ReadRight, AllRead
  <2> QED
    BY <1>1, <2>1, <2>5, <2>6
<1>4. CASE (\E f \in Flag : SkipFlag(f) \/ Invoke(f)) \/ EndWalk
  <2>1. UNCHANGED <<argv, mFlags>> /\ pc # "parse" /\ pc' # "parse"
    BY <1>4 DEF SkipFlag, Invoke, EndWalk
  <2> QED
    BY <1>2, <2>1
<1>5. CASE Responders
  <2>1. UNCHANGED <<argv, mFlags>> /\ pc # "parse" /\ pc' # "parse"
    BY <1>5 DEF Responders, PrintingResponder, GameReturns, GameStarts, InvokeReturns, AfterLookup
  <2> QED
    BY <1>2, <2>1
<1>6. CASE Run
  <2>1. UNCHANGED <<argv, mFlags>> /\ pc # "parse" /\ pc' # "parse"
    BY <1>6 DEF Run, ModeClient, ModeClientConnect, AfterConnect, ModeDedicated, ServerThrows, SetUp,
       NoDevice, GuiThrows, Tick, LoopEnds, cliRest
  <2> QED
    BY <1>2, <2>1
<1>7. CASE Destructor \/ MainReturns
  <2>1. UNCHANGED <<argv, mFlags>> /\ pc # "parse" /\ pc' # "parse"
    BY <1>7 DEF Destructor, Kill, DestroyClient, DestroyServer, DestroySupport, DropDevice,
       Deinitialise, InvokeReturns, MainReturns, cliRest
  <2> QED
    BY <1>2, <2>1
<1>8. CASE UNCHANGED programVars
  <2>1. UNCHANGED <<argv, mFlags, iteration, currentFlagName, pc>>
    BY <1>8 DEF programVars, cliVars
  <2>2. CASE pc # "parse"
    BY <1>2, <2>1, <2>2
  <2>3. CASE pc = "parse"
    <3>1. PICK n \in 0..Len(argv) : ReadRight(n)
      BY <2>3 DEF CliInv
    <3>2. /\ OwnersGiven(n)' = OwnersGiven(n) /\ GivenFlags(n)' = GivenFlags(n)
          /\ Owner(n)' = Owner(n)
          /\ Collected(n) => Collected(n)'
      BY <2>1, SameOwner, SameArguments, SameCollected
    <3>3. iteration' = n + 1 /\ currentFlagName' = Owner(n)' /\ DOMAIN mFlags' = GivenFlags(n)'
      BY <2>1, <3>1, <3>2 DEF ReadRight
    <3>4. OwnersGiven(n)' /\ Collected(n)'
      BY <3>1, <3>2 DEF ReadRight
    <3>5. ReadRight(n)'
      BY <3>3, <3>4 DEF ReadRight
    <3> QED
      BY <2>1, <2>3, <3>5 DEF CliInv
  <2> QED
    BY <2>2, <2>3
<1> QED
  BY <1>3, <1>4, <1>5, <1>6, <1>7, <1>8, ParseInv, NoneExecutedInv DEF EngineNext, Parser, CliStep

\* Every word of any command line goes to its flag (CommandLineParser.cpp:29-48).
THEOREM CommandLineIsParsed == EngineSpec => []ParsedRight
<1>1. EngineInit => CliInv
  <2> SUFFICES ASSUME EngineInit PROVE CliInv
    OBVIOUS
  <2>1. argv \in CommandLines /\ iteration = 1 /\ currentFlagName = "" /\ mFlags = <<>> /\ pc = "parse"
    BY DEF EngineInit, CliInit
  <2>2. PICK n \in 0..MaxArguments : argv \in [1..n -> Flag \cup Word]
    BY <2>1 DEF CommandLines
  <2>3. n \in Nat
    <3>1. MaxArguments \in Nat
      BY CommandLineAssumption, Zenon
    <3> QED
      BY <3>1
  <2>4. argv \in Seq(Flag \cup Word) /\ Len(argv) \in Nat
    BY <2>2, <2>3, IsASeq, LenProperties
  <2>5. DOMAIN mFlags = {}
    <3>1. DOMAIN <<>> = {}
      OBVIOUS
    <3> QED
      BY <2>1, <3>1
  <2>6. 0 + 1 = 1 /\ 1..0 = {}
    OBVIOUS
  <2>7. Owner(0) = "" /\ GivenFlags(0) = {}
    BY <2>6 DEF Owner, GivenFlags
  <2>8. OwnersGiven(0)
    <3>1. \A i \in 0..0 : i = 0
      OBVIOUS
    <3> QED
      BY <2>7, <3>1 DEF OwnersGiven
  <2>9. ReadRight(0)
    BY <2>1, <2>5, <2>7, <2>8, <2>6 DEF ReadRight, Collected
  <2>10. 0 \in 0..Len(argv)
    BY <2>4
  <2> QED
    BY <2>1, <2>4, <2>9, <2>10 DEF CliInv
<1>2. CliInv => ParsedRight
  <2> SUFFICES ASSUME CliInv, pc # "parse" PROVE ParsedRight
    BY DEF ParsedRight
  <2>1. AllRead(Len(argv))
    BY DEF CliInv
  <2> QED
    BY <2>1 DEF ParsedRight, AllRead, GivenFlags, Collected
<1> QED
  BY <1>1, <1>2, CliNextInv, PTL DEF EngineSpec
=============================================================================
