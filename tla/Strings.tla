------------------------------- MODULE Strings -------------------------------
(***************************************************************************)
(* Support::String (support/String.cpp): objects that point to buffers of  *)
(* characters.  A buffer is the number of its allocation, 0 is NULL; an    *)
(* object's length is what the object counts, not what the buffer holds.   *)
(***************************************************************************)
EXTENDS Naturals, Sequences

CONSTANTS Name,             \* String objects
          Char, Nul,
          Unset,            \* a cell nothing was written to
          MaxArbitrary,     \* MAXIMUM_ARBITRARY_STRING_LENGTH, 256
          FormatSize,       \* 256, the buffer of Format
          Literal,          \* texts that are given
          MaxIndex, MaxBuffers \* bounds: arguments of Sub, allocations

ASSUME StringsAssumption ==
    /\ Nul \notin Char /\ Unset \notin Char \cup {Nul}
    /\ {MaxArbitrary, FormatSize} \subseteq Nat \ {0}
    /\ Literal \subseteq Seq(Char) /\ {MaxIndex, MaxBuffers} \subseteq Nat

VARIABLES strings,  \* the objects there are
          buffers, freed,
          memory    \* "corrupt" once something outside of a buffer is used

stringVars == <<strings, buffers, freed, memory>>

Alive == DOMAIN strings

\* Every constructor and copy leaves is_const TRUE.  Mutant: it is FALSE.
BugIsConst == FALSE
is_const == TRUE

Cells(x) == buffers[strings[x].stored]
IsNull(x) == strings[x].stored = 0
Terminated(cells) == \E k \in DOMAIN cells : cells[k] = Nul
Text(cells) == SubSeq(cells, 1, (CHOOSE k \in DOMAIN cells :
                                    cells[k] = Nul /\ \A i \in 1..(k - 1) : cells[i] # Nul) - 1)

\* NULL can be passed to a constructor, but not read.
Readable(x) == x \in Alive /\ ~IsNull(x) /\ Terminated(Cells(x))

StringsInit == strings = <<>> /\ buffers = <<>> /\ freed = {} /\ memory = "intact"

With(x, stored, length) ==
    [y \in Alive \cup {x} |->
        IF y = x THEN [stored |-> stored, length |-> length] ELSE strings[y]]

\* What an object held is only let go of if it is not const.
Released(x) == IF x \in Alive /\ ~IsNull(x) /\ ~is_const THEN {strings[x].stored} ELSE {}

Stores(x, cells, length) ==
    /\ Len(buffers) < MaxBuffers
    /\ buffers' = Append(buffers, cells) /\ strings' = With(x, Len(buffers'), length)

Corrupts == memory' = "corrupt" /\ UNCHANGED <<strings, buffers, freed>>

-----------------------------------------------------------------------------
(* Construction                                                            *)

Construct(x, text) == Stores(x, Append(text, Nul), Len(text)) /\ UNCHANGED <<freed, memory>>

ConstructNull(x) == strings' = With(x, 0, 0) /\ UNCHANGED <<buffers, freed, memory>>

\* Without a NUL among the first characters the length stays 0, and the one
\* character that is copied ends with nothing.
ConstructUntrusted(x, text) ==
    IF Len(text) < MaxArbitrary THEN Construct(x, text)
    ELSE Stores(x, <<text[1]>>, 0) /\ UNCHANGED <<freed, memory>>

\* The copies the compiler makes: both objects point to the buffer.
CopyString(x, y) ==
    /\ y \in Alive
    /\ strings' = With(x, strings[y].stored, strings[y].length)
    /\ UNCHANGED <<buffers, freed, memory>>

DestroyString(x) ==
    /\ x \in Alive
    /\ strings' = [y \in Alive \ {x} |-> strings[y]]
    /\ freed' = freed \cup Released(x)
    /\ UNCHANGED <<buffers, memory>>

-----------------------------------------------------------------------------
(* Operations                                                              *)

\* Mutant of ConcatSize: no room for the end of the string.
BugConcatSize(x, y) == strings[x].length + strings[y].length
ConcatSize(x, y) == strings[x].length + strings[y].length + 1

\* Also operator +.  The buffer is sized by the lengths and filled by the
\* texts; the String made of it is a new object or assigned to one.
Concat(z, x, y) ==
    /\ {x, y} \subseteq Alive
    /\ IF IsNull(x) /\ IsNull(y) THEN ConstructNull(z)
       ELSE IF IsNull(x) \/ IsNull(y)
            THEN LET one == IF IsNull(x) THEN y ELSE x
                 IN  IF Readable(one) THEN Construct(z, Text(Cells(one))) ELSE Corrupts
       ELSE IF ~Readable(x) \/ ~Readable(y) THEN Corrupts
       ELSE LET result == Text(Cells(x)) \o Text(Cells(y))
            IN  IF Len(result) + 1 > ConcatSize(x, y) THEN Corrupts ELSE Construct(z, result)

\* operator +=: the buffer has one more character, the length is not updated.
AppendString(x, y) ==
    /\ {x, y} \subseteq Alive /\ ~IsNull(x) /\ ~IsNull(y)
    /\ IF ~Readable(x) \/ ~Readable(y) THEN Corrupts
       ELSE LET size == ConcatSize(x, y) + 1
                result == Append(Text(Cells(x)) \o Text(Cells(y)), Nul)
            IN  IF Len(result) > size THEN Corrupts
                ELSE /\ Stores(x, result \o [k \in 1..(size - Len(result)) |-> Unset],
                               strings[x].length)
                     /\ freed' = freed \cup Released(x)
                     /\ UNCHANGED memory

\* The buffer of offset characters is ended at result[offset]: within it only
\* when the offset was cut, to length - offset.
Sub(z, x, start, offset) ==
    /\ x \in Alive
    /\ LET length == strings[x].length
           cut == IF start + offset > length THEN length - offset ELSE offset
           part == [k \in 1..cut |-> Cells(x)[start + k]]
       IN  IF \/ IsNull(x) \/ (start + offset > length /\ offset > length)
              \/ cut >= offset \/ start + cut > Len(Cells(x))
           THEN Corrupts
           ELSE Construct(z, Text(Append(part, Nul)))

\* What vsnprintf makes of the template and the arguments, cut to the buffer.
Format(z, template, text) ==
    /\ template \in Alive
    /\ IF ~Readable(template) THEN Corrupts
       ELSE Construct(z, SubSeq(text, 1, IF Len(text) < FormatSize THEN Len(text) ELSE FormatSize - 1))

\* At i: the cells after a character that is removed move to the front, as far as
\* the length; the one that comes to i is not looked at.
StripAt(done, character, i) ==
    IF i < done.length /\ done.cells[i + 1] = character
    THEN [length |-> done.length - 1,
          cells |-> [k \in DOMAIN done.cells |->
                       IF i < k /\ k <= done.length THEN done.cells[k + 1] ELSE done.cells[k]]]
    ELSE done

Stripped(whole, character) ==
    LET strip[n \in 0..whole.length] ==
            IF n = 0 THEN whole ELSE StripAt(strip[n - 1], character, n - 1)
    IN  strip[whole.length]

\* In place, for every object that shares the buffer.
StripChar(x, character) ==
    /\ x \in Alive
    /\ IF IsNull(x) THEN UNCHANGED <<strings, buffers>>
       ELSE LET stripped == Stripped([length |-> strings[x].length, cells |-> Cells(x)], character)
            IN  /\ buffers' = [buffers EXCEPT ![strings[x].stored] = stripped.cells]
                /\ strings' = [strings EXCEPT ![x].length = stripped.length]
    /\ UNCHANGED <<freed, memory>>

\* Nothing is defined any more after memory that is not a buffer was used.
StringsNext ==
    /\ memory = "intact"
    /\ \E x \in Name :
          \/ x \notin Alive /\ (ConstructNull(x) \/ \E text \in Literal :
                                   Construct(x, text) \/ ConstructUntrusted(x, text))
          \/ \E y \in Name :
                \/ CopyString(x, y) \/ AppendString(x, y)
                \/ \E z \in Name : Concat(z, x, y)
                \/ y \notin Alive /\ \E start, offset \in 0..MaxIndex : Sub(y, x, start, offset)
                \/ y \notin Alive /\ \E text \in Literal : Format(y, x, text)
          \/ DestroyString(x) \/ \E c \in Char : StripChar(x, c)

StringsSpec == StringsInit /\ [][StringsNext]_stringVars

-----------------------------------------------------------------------------
(* Properties                                                              *)

\* Copies share their buffer, += replaces it for one of them and StripChar
\* works in it for all, but no object is left with a buffer that was freed, and
\* the length of each, stale as it may be, stays inside of its own buffer
\* (String.cpp:28-51, 114-132, 157-177).
StoredInBuffer ==
    \A x \in Alive :
        ~IsNull(x) =>
            /\ strings[x].stored \in 1..Len(buffers) \ freed
            /\ strings[x].length < Len(Cells(x))
            /\ Len(Cells(x)) > 1 => Terminated(Cells(x))

Exact(x) == Readable(x) /\ strings[x].length = Len(Text(Cells(x)))

\* While the lengths of two strings are right, putting them together stays
\* within the buffer that is allocated and gives both texts; += gives them to
\* the one object and leaves those that shared its buffer what they were
\* (String.cpp:63-79, 152-177).
ConcatIsExact ==
    [][\A x, y \in Alive :
          Exact(x) /\ Exact(y) =>
              /\ \A z \in Name : Concat(z, x, y) =>
                    memory' = "intact" /\ Exact(z)'
                    /\ Text(Cells(z))' = Text(Cells(x)) \o Text(Cells(y))
              /\ AppendString(x, y) =>
                    /\ memory' = "intact" /\ Text(Cells(x))' = Text(Cells(x)) \o Text(Cells(y))
                    /\ \A z \in Alive \ {x} : strings'[z] = strings[z] /\ (~IsNull(z) => Cells(z)' = Cells(z))]_stringVars
=============================================================================
