------------------------------- MODULE Engine -------------------------------
(***************************************************************************)
(* The life of the program: main() and gameFlagHandler (EngineMain.cpp),   *)
(* CoreSingleton with its modes and its destructor                         *)
(* (engine/CoreSingleton.cpp), and the singletons these make and destroy.  *)
(* What happens inside the loop is in TickLoop, ServerNet and ClientNet;   *)
(* here it matters what exists while it runs.                              *)
(***************************************************************************)
EXTENDS CommandLine

VARIABLES mEngineMode, mRunning,
          mClient, mServer, mIrrlichtDevice, \* whether the pointers are set
          instances, \* the singletons that exist
          hosts,     \* of "client" and "server": who holds an ENet host
          libraries, \* of "physfs" and "enet": what is initialised
          runs       \* history: calls of CoreSingleton::run

pointers == <<mClient, mServer, mIrrlichtDevice>>
engineVars == <<mEngineMode, mRunning, mClient, mServer, mIrrlichtDevice, instances, hosts,
                libraries, runs>>
cliRest == <<argv, iteration, currentFlagName, mFlags, walk>>
programVars == <<cliVars, engineVars>>

EngineInit ==
    /\ CliInit
    /\ mEngineMode = "client" /\ mRunning = FALSE
    /\ mClient = FALSE /\ mServer = FALSE /\ mIrrlichtDevice = FALSE
    /\ instances = {} /\ hosts = {} /\ libraries = {"physfs"} /\ runs = 0

Parser == CliStep /\ UNCHANGED engineVars

-----------------------------------------------------------------------------
(* The responders                                                          *)

\* displayHelp, versionFlagHandler and testsFlagHandler only print.
PrintingResponder ==
    /\ pc = "invoke" /\ current \in {"-h", "-v", "-tests"}
    /\ InvokeReturns
    /\ UNCHANGED <<mFlags, engineVars>>

WantsServer == hasFlag("-server")
GameRefused ==
    \/ executedFlagHandler
    \/ Len(mFlags["-game"]) # 1
    \/ WantsServer /\ FirstArgument("-server") = ""

\* The early returns of gameFlagHandler.
GameReturns ==
    /\ pc = "invoke" /\ current = "-game" /\ GameRefused
    /\ InvokeReturns
    /\ mFlags' = AfterLookup("-server")
    /\ UNCHANGED engineVars

RequestedMode ==
    IF WantsServer THEN "clientconnect"
    ELSE IF hasFlag("-dedicated") THEN "dedicated" ELSE "client"

\* getPointer, setMode, setTargetServer, setGame
Configured ==
    instances' = instances \cup {"CoreSingleton"} /\ mEngineMode' = RequestedMode

\* run() up to the switch over the mode
RunBegins == mRunning' = TRUE /\ libraries' = libraries \cup {"enet"} /\ runs' = runs + 1

\* The engine is made, configured and run.
GameStarts ==
    /\ pc = "invoke" /\ current = "-game" /\ ~GameRefused
    /\ pc' = "mode"
    /\ mFlags' = AfterLookup("-server")
    /\ Configured /\ RunBegins
    /\ UNCHANGED <<argv, iteration, currentFlagName, walk, pointers, hosts>>

-----------------------------------------------------------------------------
(* CoreSingleton::run                                                      *)

\* OutgoingClientSingleton::getPointer
GetClient == mClient' = TRUE /\ instances' = instances \cup {"OutgoingClientSingleton"}

\* ServerSingleton::getPointer, whose constructor makes the map division
GetServer ==
    /\ mServer' = TRUE /\ hosts' = hosts \cup {"server"}
    /\ instances' = instances \cup {"ServerSingleton", "MapDivision"}

ModeClient ==
    /\ pc = "mode" /\ mEngineMode = "client" /\ pc' = "device"
    /\ GetClient
    /\ UNCHANGED <<cliRest, mEngineMode, mRunning, mServer, mIrrlichtDevice, hosts,
                   libraries, runs>>

AfterConnect(connected) == IF connected THEN "device" ELSE "returned"

\* connect() makes no host for a malformed address; without a connection run()
\* returns 1.
ModeClientConnect ==
    /\ pc = "mode" /\ mEngineMode = "clientconnect"
    /\ GetClient
    /\ \E connected \in BOOLEAN :
          /\ pc' = AfterConnect(connected)
          /\ hosts' \in {hosts \cup {"client"}} \cup IF connected THEN {} ELSE {hosts}
    /\ UNCHANGED <<cliRest, mEngineMode, mRunning, mServer, mIrrlichtDevice, libraries, runs>>

ModeDedicated ==
    /\ pc = "mode" /\ mEngineMode = "dedicated" /\ pc' = "device"
    /\ GetServer
    /\ UNCHANGED <<cliRest, mEngineMode, mRunning, mClient, mIrrlichtDevice, libraries, runs>>

\* ServerBase throws a runtime_error when ENet makes no host; nobody catches it.
ServerThrows ==
    /\ pc = "mode" /\ mEngineMode = "dedicated" /\ pc' = "terminated"
    /\ UNCHANGED <<cliRest, engineVars>>

GetListener == instances' = instances \cup {"InputListenerSingleton"}

\* The input listener, the device and, for a client, the GUI.
SetUp ==
    /\ pc = "device" /\ pc' = "loop"
    /\ GetListener
    /\ mIrrlichtDevice' = TRUE
    /\ UNCHANGED <<cliRest, mEngineMode, mRunning, mClient, mServer, hosts, libraries, runs>>

\* createDevice answers NULL, which run() uses at once.
NoDevice ==
    /\ pc = "device" /\ pc' = "crashed"
    /\ GetListener
    /\ UNCHANGED <<cliRest, mEngineMode, mRunning, pointers, hosts, libraries, runs>>

\* CEGUI throws for a missing scheme or font; nobody catches it.
GuiThrows ==
    /\ pc = "device" /\ mClient /\ pc' = "terminated"
    /\ GetListener
    /\ mIrrlichtDevice' = TRUE
    /\ UNCHANGED <<cliRest, mEngineMode, mRunning, mClient, mServer, hosts, libraries, runs>>

GetScheduler == instances' = instances \cup {"SchedulerSingleton"}

\* A tick; the scheduler is made by the first one, and the update of a client
\* that never connected passes ENet a NULL host.
Tick ==
    /\ pc = "loop"
    /\ pc' = IF mClient /\ "client" \notin hosts THEN "crashed" ELSE "loop"
    /\ GetScheduler
    /\ UNCHANGED <<cliRest, mEngineMode, mRunning, pointers, hosts, libraries, runs>>

\* The device closed.  run() has no return statement at its end: it comes back
\* in a build without optimisation, and anything may happen in others.
LoopEnds ==
    /\ pc = "loop" /\ pc' \in {"returned", "undefined"}
    /\ UNCHANGED <<cliRest, engineVars>>

-----------------------------------------------------------------------------
(* CoreSingleton::destroy and ~CoreSingleton                               *)

Kill ==
    /\ pc = "returned" /\ pc' = "destroy client" /\ mRunning' = FALSE
    /\ UNCHANGED <<cliRest, mEngineMode, pointers, instances, hosts, libraries, runs>>

\* Mutant of ClientParts: the host is left to the operating system.
BugClientParts == {}
ClientParts == {"client"}

WithoutClient(S) == S \ {"OutgoingClientSingleton"}

DestroyClient ==
    /\ pc = "destroy client" /\ pc' = "destroy server"
    /\ mClient' = FALSE
    /\ instances' = WithoutClient(instances)
    /\ hosts' = hosts \ ClientParts
    /\ UNCHANGED <<cliRest, mEngineMode, mRunning, mServer, mIrrlichtDevice, libraries, runs>>

\* Mutant of ServerParts: the map division survives its server.
BugServerParts == {"ServerSingleton"}
ServerParts == {"ServerSingleton", "MapDivision"}

\* ~ServerBase destroys the map division, too.
DestroyServer ==
    /\ pc = "destroy server" /\ pc' = "destroy support"
    /\ mServer' = FALSE
    /\ instances' = IF mServer THEN instances \ ServerParts ELSE instances
    /\ hosts' = hosts \ {"server"}
    /\ UNCHANGED <<cliRest, mEngineMode, mRunning, mClient, mIrrlichtDevice, libraries, runs>>

WithoutListener(S) == S \ {"InputListenerSingleton"}
WithoutScheduler(S) == S \ {"SchedulerSingleton"}

DestroySupport ==
    /\ pc = "destroy support" /\ pc' = "drop"
    /\ instances' = WithoutScheduler(WithoutListener(instances))
    /\ UNCHANGED <<cliRest, mEngineMode, mRunning, pointers, hosts, libraries, runs>>

\* drop() of a device that was never made is a call through NULL.
DropDevice ==
    /\ pc = "drop"
    /\ pc' = IF mIrrlichtDevice THEN "deinit" ELSE "crashed"
    /\ mIrrlichtDevice' = FALSE
    /\ UNCHANGED <<cliRest, mEngineMode, mRunning, mClient, mServer, instances, hosts,
                   libraries, runs>>

\* The last of the destructor, and the return of gameFlagHandler.
Deinitialise ==
    /\ pc = "deinit"
    /\ libraries' = {} /\ instances' = instances \ {"CoreSingleton"}
    /\ InvokeReturns
    /\ UNCHANGED <<mFlags, mEngineMode, mRunning, pointers, hosts, runs>>

MainReturns ==
    /\ pc = "done" /\ pc' = "exited"
    /\ UNCHANGED <<cliRest, engineVars>>

Responders == PrintingResponder \/ GameReturns \/ GameStarts
Run ==
    \/ ModeClient \/ ModeClientConnect \/ ModeDedicated \/ ServerThrows
    \/ SetUp \/ NoDevice \/ GuiThrows \/ Tick \/ LoopEnds
Destructor ==
    Kill \/ DestroyClient \/ DestroyServer \/ DestroySupport \/ DropDevice \/ Deinitialise

EngineNext == Parser \/ Responders \/ Run \/ Destructor \/ MainReturns

EngineSpec == EngineInit /\ [][EngineNext]_programVars

-----------------------------------------------------------------------------
(* Properties                                                              *)

\* Types of the program's state.
EngineTypeOK ==
    /\ mEngineMode \in {"client", "clientconnect", "dedicated"} /\ mRunning \in BOOLEAN
    /\ mClient \in BOOLEAN /\ mServer \in BOOLEAN /\ mIrrlichtDevice \in BOOLEAN
    /\ instances \subseteq {"CoreSingleton", "OutgoingClientSingleton", "ServerSingleton",
                            "MapDivision", "InputListenerSingleton", "SchedulerSingleton"}
    /\ hosts \subseteq {"client", "server"} /\ libraries \subseteq {"physfs", "enet"}
    /\ runs \in 0..1 /\ executedFlagHandler \in BOOLEAN

\* "TODO: Check the destroy order" (CoreSingleton.cpp:252): no ENet host is
\* left when ENet is deinitialised, whichever way the program came to its
\* destructor, and none is made before ENet is initialised.
HostsWithinEnet == hosts # {} => "enet" \in libraries

\* While the loop runs, the device and its event receiver exist, a dedicated
\* server has a host, and a client that was asked to connect has one, too.
LoopHasWhatItUses ==
    pc = "loop" =>
        /\ mIrrlichtDevice /\ "InputListenerSingleton" \in instances
        /\ mEngineMode = "dedicated" => mServer /\ "server" \in hosts
        /\ mEngineMode = "clientconnect" => mClient /\ "client" \in hosts

\* A program that ran the engine and ends by main's return has destroyed every
\* singleton and closed every library, on each path through run().
NothingLeftBehind ==
    pc = "exited" /\ runs = 1 =>
        instances = {} /\ hosts = {} /\ libraries = {} /\ ~mIrrlichtDevice

\* The pointers that the program follows while they are NULL are these: the
\* host of a client that was never asked to connect, a device that could not
\* be created, and the device of a client whose connection failed.
DiesForAReason ==
    pc = "crashed" =>
        \/ mEngineMode = "client"
        \/ "InputListenerSingleton" \in instances /\ ~mIrrlichtDevice
        \/ mEngineMode = "clientconnect" /\ ~mIrrlichtDevice /\ "client" \notin hosts

\* A game that was asked for properly is run exactly once: in every order that
\* the unordered_map may have, flags without a responder and flags nobody
\* knows do not keep it from running.
AskedProperly ==
    /\ hasFlag("-game") /\ Len(mFlags["-game"]) = 1
    /\ WantsServer => FirstArgument("-server") # ""
    /\ \A f \in DOMAIN mFlags : HasResponder(f) => f = "-game"
GameIsServed == pc = "exited" /\ AskedProperly => runs = 1

\* The inductive invariant: each pointer of CoreSingleton tells whether its
\* singleton exists, each host has an owner, and the place the program is at
\* tells what has been made or destroyed.
BeforeEngine == {"parse", "walk", "invoke", "help", "done", "exited"}
Unwinding == {"returned", "destroy client", "destroy server", "destroy support", "drop"}
InEngine == {"mode", "device", "loop", "deinit"} \cup Unwinding
Stopped == {"terminated", "crashed", "undefined"}
PointersTell ==
    /\ mClient <=> "OutgoingClientSingleton" \in instances
    /\ mServer <=> "ServerSingleton" \in instances
    /\ mServer <=> "MapDivision" \in instances
    /\ mServer <=> "server" \in hosts
    /\ "client" \in hosts => mClient
    /\ mClient => mEngineMode # "dedicated"
PlaceTells ==
    /\ pc \in BeforeEngine => instances = {} /\ ~mIrrlichtDevice
    /\ runs = 1 /\ pc \in BeforeEngine => libraries = {} /\ executedFlagHandler
    /\ pc \in {"parse", "help"} => runs = 0
    /\ pc \in InEngine => runs = 1 /\ "enet" \in libraries
    /\ pc \in {"mode", "device"} => ~mIrrlichtDevice
    /\ pc = "mode" => hosts = {} /\ instances = {"CoreSingleton"}
    /\ pc = "device" => \/ mEngineMode = "client"
                        \/ mEngineMode = "dedicated" /\ mServer
                        \/ mEngineMode = "clientconnect" /\ "client" \in hosts
UnwindingTells ==
    /\ pc \in Unwinding => mIrrlichtDevice \/ mEngineMode = "clientconnect"
    /\ pc \in Unwinding \ {"returned", "destroy client"} => ~mClient
    /\ pc \in {"destroy support", "drop", "deinit"} => ~mServer
    /\ pc \in {"drop", "deinit"} => instances \subseteq {"CoreSingleton"}
    /\ pc = "deinit" => ~mClient /\ ~mIrrlichtDevice
EngineInv ==
    /\ EngineTypeOK
    /\ pc \in BeforeEngine \cup InEngine \cup Stopped
    /\ PointersTell /\ PlaceTells /\ UnwindingTells
    /\ HostsWithinEnet /\ LoopHasWhatItUses /\ DiesForAReason
=============================================================================
