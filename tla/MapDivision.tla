---------------------------- MODULE MapDivision ----------------------------
(***************************************************************************)
(* Support::MapDivision (support/MapDivision.cpp): the grid that a         *)
(* dedicated server builds before its loop, one square at the coarsest     *)
(* level of detail and four times as many at each level after it.  A row   *)
(* of squares is known by its length.                                      *)
(***************************************************************************)
EXTENDS SimTime

CONSTANTS Power,     \* the arguments Get is called with, whose powers are size_ts
          SizeBits   \* 32, the width of the U32s of the constructor

ASSUME MapDivisionAssumption == Power \subseteq 0..63 /\ SizeBits \in Nat

\* pow(2, n), which a double has exactly.
TwoTo[n \in Nat] == IF n = 0 THEN 1 ELSE 2 * TwoTo[n - 1]

MaxSize == TwoTo[SizeBits]

VARIABLES instance,          \* MapDivisionInstance is set
          power, mResolution, currentResolution,
          mLODs,             \* the levels built so far
          currentLOD, currentYAxis, iterationX, iterationY,
          timerHandle,
          at                 \* where the constructor is

sizes == <<instance, power, mResolution, timerHandle>>
mapVars == <<sizes, currentResolution, mLODs, currentLOD, currentYAxis, iterationX, iterationY, at>>
vars == <<timeVars, mapVars>>

currentLODDivision == mResolution \div currentResolution

MapInit ==
    /\ TimeInit
    /\ instance = FALSE /\ power = 0 /\ mResolution = 0 /\ currentResolution = 0
    /\ mLODs = <<>> /\ currentLOD = <<>> /\ currentYAxis = 0
    /\ iterationX = 0 /\ iterationY = 0 /\ timerHandle = 0 /\ at = "outside"

\* Get makes the one instance; later calls ignore their arguments.
Get(p) ==
    /\ at = "outside"
    /\ IF instance THEN UNCHANGED <<timeVars, mapVars>>
       ELSE /\ StartTimer /\ timerHandle' = TimerId(Len(timerStack'))
            /\ power' = p /\ mResolution' = TwoTo[p]
            /\ currentResolution' = TwoTo[p] % MaxSize
            /\ mLODs' = <<>> /\ at' = "level"
            /\ UNCHANGED <<instance, currentLOD, currentYAxis, iterationX, iterationY>>

\* Mutant of HasLevel: the loop runs down to 1 as well.
BugHasLevel == currentResolution >= 1
HasLevel == currentResolution > 1

BeginLevel ==
    /\ at = "level" /\ HasLevel
    /\ currentLOD' = <<>> /\ iterationX' = 0 /\ at' = "column"
    /\ UNCHANGED <<timeVars, sizes, currentResolution, mLODs, currentYAxis, iterationY>>

\* push_back takes a copy of the row before it has squares.
BeginColumn ==
    /\ at = "column" /\ iterationX < currentLODDivision
    /\ currentYAxis' = 0 /\ iterationY' = 0
    /\ currentLOD' = Append(currentLOD, 0)
    /\ at' = "square"
    /\ UNCHANGED <<timeVars, sizes, currentResolution, mLODs, iterationX>>

AddSquare ==
    /\ at = "square" /\ iterationY < currentLODDivision
    /\ currentYAxis' = currentYAxis + 1 /\ iterationY' = iterationY + 1
    /\ UNCHANGED <<timeVars, sizes, currentResolution, mLODs, currentLOD, iterationX, at>>

EndColumn ==
    /\ at = "square" /\ iterationY >= currentLODDivision
    /\ iterationX' = iterationX + 1 /\ at' = "column"
    /\ UNCHANGED <<timeVars, sizes, currentResolution, mLODs, currentLOD, currentYAxis, iterationY>>

\* The last column is there twice in each level.
EndLevel ==
    /\ at = "column" /\ iterationX >= currentLODDivision
    /\ mLODs' = Append(mLODs, Append(currentLOD, currentLOD[Len(currentLOD)]))
    /\ currentResolution' = currentResolution \div 2
    /\ at' = "level"
    /\ UNCHANGED <<timeVars, sizes, currentLOD, currentYAxis, iterationX, iterationY>>

EndBuild ==
    /\ at = "level" /\ ~HasLevel
    /\ StopTimer(timerHandle)
    /\ instance' = TRUE /\ at' = "outside"
    /\ UNCHANGED <<power, mResolution, timerHandle, currentResolution, mLODs, currentLOD,
                   currentYAxis, iterationX, iterationY>>

Drop ==
    /\ at = "outside" /\ instance
    /\ instance' = FALSE /\ mLODs' = <<>>
    /\ UNCHANGED <<timeVars, power, mResolution, timerHandle, currentResolution, currentLOD,
                   currentYAxis, iterationX, iterationY, at>>

TimePasses == (\E d \in Elapsed : Elapse(d)) /\ UNCHANGED mapVars

MapNext ==
    \/ \E p \in Power : Get(p)
    \/ BeginLevel \/ BeginColumn \/ AddSquare \/ EndColumn \/ EndLevel \/ EndBuild
    \/ Drop \/ TimePasses

MapSpec == MapInit /\ [][MapNext]_vars

-----------------------------------------------------------------------------
(* Properties                                                              *)

\* A map of 2^power has a level of detail for each halving, and the level
\* after i of them has 2^i columns and the last one again.  The resolution is
\* kept in 32 bits: a map of 2^32 or more has no level at all
\* (MapDivision.cpp:56-76).
GridShape ==
    instance =>
        IF mResolution < MaxSize
        THEN /\ Len(mLODs) = power
             /\ \A i \in 1..power : Len(mLODs[i]) = TwoTo[i - 1] + 1
        ELSE mLODs = <<>>

\* Building the map starts and stops one timer, and nobody else's is running:
\* when the loop begins the stack is empty, so that its tick timer is the
\* uppermost one, and the simulation time has advanced by the time of the build
\* (MapDivision.cpp:53, 78; Time.cpp:48-50).
BuildLeavesNoTimer ==
    at = "outside" => timerStack = <<>> /\ currentSimTime = busy

\* "Push the last element to the vector again to prevent out of bounds access"
\* (MapDivision.cpp:71): every column of a level that is built has the squares
\* of that level.
ColumnsHaveSquares ==
    instance => \A i \in 1..Len(mLODs) : \A x \in 1..Len(mLODs[i]) : mLODs[i][x] > 0
=============================================================================
