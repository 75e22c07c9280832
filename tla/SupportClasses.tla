--------------------------- MODULE SupportClasses ---------------------------
(***************************************************************************)
(* The classes that share nothing with each other or with the engine's     *)
(* other parts: a behaviour uses one of them, and the others stay as they  *)
(* are at the start.                                                       *)
(***************************************************************************)
EXTENDS BitStream, MapDivision, Delegates, EventManager, Strings, Logging, Endian

VARIABLE using  \* the class of this behaviour

allVars == <<using, streamVars, vars, delegateVars, eventVars, stringVars, logVars, endianVars>>

SupportInit ==
    /\ using \in {"BitStream", "MapDivision", "DelegateSet", "EventManager", "String", "Logging", "Endian"}
    /\ StreamInit /\ MapInit /\ DelegatesInit /\ EventsInit /\ StringsInit /\ LoggingInit /\ EndianInit
    /\ using # "Endian" => Len(word) = 2
    /\ using # "BitStream" => OverArray(<<>>, 0)

SupportNext ==
    /\ UNCHANGED using
    /\ using # "BitStream" => UNCHANGED streamVars
    /\ using # "MapDivision" => UNCHANGED vars
    /\ using # "DelegateSet" => UNCHANGED delegateVars
    /\ using # "EventManager" => UNCHANGED eventVars
    /\ using # "String" => UNCHANGED stringVars
    /\ using # "Logging" => UNCHANGED logVars
    /\ using # "Endian" => UNCHANGED endianVars
    /\ \/ using = "BitStream" /\ StreamNext
       \/ using = "MapDivision" /\ MapNext
       \/ using = "DelegateSet" /\ DelegatesNext
       \/ using = "EventManager" /\ EventsNext
       \/ using = "String" /\ StringsNext
       \/ using = "Logging" /\ LoggingNext
       \/ using = "Endian" /\ EndianNext

SupportSpec == SupportInit /\ [][SupportNext]_allVars
=============================================================================
