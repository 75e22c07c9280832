---------------------------- MODULE EventManager ----------------------------
(***************************************************************************)
(* Support::EventManager (support/EventManager.cpp) and the Support::Array *)
(* its lists are (support/Array.hpp).  An event is the hash of its name.   *)
(* An Array is the sequence of its cells: it always allocates as many as   *)
(* it counts, and a cell nothing was copied to holds Junk.                 *)
(***************************************************************************)
EXTENDS Naturals, Sequences
Sequence == INSTANCE SequencesExt

CONSTANTS Event, Handler, \* events, and the delegates bound to them
          Local,          \* an Array that is not an event's
          Junk,
          MaxChanges      \* bound: changes of the arrays

ASSUME EventManagerAssumption ==
    Local \notin Event /\ Junk \notin Handler /\ MaxChanges \in Nat

VARIABLES Singleton_Instance, \* the manager exists
          EventMapping,       \* the events that have an Array
          arrays,
          heap,               \* "corrupt" once a cell outside of an array is written
          changes, intended, atFront \* history: what each array should be, and
                              \* whether all insertions were at its first two places

eventVars == <<Singleton_Instance, EventMapping, arrays, heap, changes, intended, atFront>>

List == Event \cup {Local}

EventsInit ==
    /\ Singleton_Instance = FALSE /\ EventMapping = {} /\ heap = "intact" /\ changes = 0
    /\ arrays = [l \in List |-> <<>>] /\ intended = arrays
    /\ atFront = [l \in List |-> TRUE]

-----------------------------------------------------------------------------
(* Array                                                                   *)

Fresh(n) == [k \in 1..n |-> Junk]

\* memcpy of n cells, from and to offsets, where both arrays have them.
Copied(new, to, old, from, n) ==
    [k \in DOMAIN new |->
        IF to < k /\ k <= to + n /\ from + k - to \in DOMAIN old THEN old[from + k - to] ELSE new[k]]

\* Mutant of after_index: what follows is not moved up.
BugAfterIndex(a, index) == index
after_index(a, index) == IF index >= Len(a) THEN Len(a) ELSE index + 1

\* What precedes is moved too, one down; nothing precedes index 0.
before_index(index) == IF index = 0 THEN 1 ELSE index - 1

Insert(a, element, index) ==
    LET front == Copied(Fresh(Len(a) + 1), before_index(index), a, 0, index)
        both == Copied(front, after_index(a, index), a, index, Len(a) - index)
    IN  [both EXCEPT ![index + 1] = element]

InsertOverruns(a, index) == index > 0 /\ before_index(index) + index > Len(a) + 1

\* The one destination of Remove is before_index - 1: for index 1 that is
\* 2^32 - 1, and for index 0 nothing is copied.
Remove(a, index) ==
    IF index < 2 THEN Fresh(Len(a) - 1)
    ELSE Copied(Fresh(Len(a) - 1), index - 2, a, index - 1, index)

RemoveOverruns(a, index) == index = 1 \/ 2 * index > Len(a) + 1

Resize(a, size) == Copied(Fresh(size), 0, a, 0, Len(a))

Becomes(l, cells, overruns, wish, front) ==
    /\ changes < MaxChanges
    /\ arrays' = [arrays EXCEPT ![l] = cells]
    /\ heap' = IF overruns THEN "corrupt" ELSE "intact"
    /\ changes' = changes + 1
    /\ intended' = [intended EXCEPT ![l] = wish] /\ atFront' = [atFront EXCEPT ![l] = @ /\ front]

InsertInto(l, element, index) ==
    Becomes(l, Insert(arrays[l], element, index), InsertOverruns(arrays[l], index),
            Sequence!InsertAt(intended[l], index + 1, element), index < 2)

Append_(l, element) == InsertInto(l, element, Len(arrays[l]))
Prepend(l, element) == InsertInto(l, element, 0)

RemoveFrom(l, index) ==
    Becomes(l, Remove(arrays[l], index), RemoveOverruns(arrays[l], index),
            Sequence!RemoveAt(intended[l], index + 1), FALSE)

ResizeTo(l, size) ==
    Becomes(l, Resize(arrays[l], size), size < Len(arrays[l]),
            Resize(intended[l], size), size >= Len(arrays[l]))

Assign(l, index, element) ==
    Becomes(l, [arrays[l] EXCEPT ![index + 1] = element], FALSE,
            [intended[l] EXCEPT ![index + 1] = element], TRUE)

LocalChange ==
    /\ \/ \E h \in Handler :
             \/ Append_(Local, h) \/ Prepend(Local, h)
             \/ \E i \in 0..Len(arrays[Local]) : InsertInto(Local, h, i)
             \/ \E i \in 0..(Len(arrays[Local]) - 1) : Assign(Local, i, h)
       \/ \E i \in 0..(Len(arrays[Local]) - 1) : RemoveFrom(Local, i)
       \/ \E n \in 0..(Len(arrays[Local]) + 1) : ResizeTo(Local, n)
    /\ UNCHANGED <<Singleton_Instance, EventMapping>>

-----------------------------------------------------------------------------
(* EventManager                                                            *)

GetManager ==
    /\ Singleton_Instance' = TRUE
    /\ UNCHANGED <<EventMapping, arrays, heap, changes, intended, atFront>>

\* The arrays' destructor frees nothing, but the manager forgets them.
DestroyManager ==
    /\ Singleton_Instance
    /\ Singleton_Instance' = FALSE /\ EventMapping' = {}
    /\ LET kept(f, none) == [l \in List |-> IF l = Local THEN f[l] ELSE none]
       IN  /\ arrays' = kept(arrays, <<>>) /\ intended' = kept(intended, <<>>)
           /\ atFront' = kept(atFront, TRUE)
    /\ UNCHANGED <<heap, changes>>

\* The first binding finds no list, catches that, makes one and tries again.
BindEvent(e, h) ==
    /\ Singleton_Instance
    /\ EventMapping' = EventMapping \cup {e}
    /\ Append_(e, h)
    /\ UNCHANGED Singleton_Instance

\* The loop over the list calls nobody; an event without a list is ignored.
EmitEvent(e) == Singleton_Instance /\ UNCHANGED eventVars

\* Nothing is defined any more after a write outside of an array.
EventsNext ==
    /\ heap = "intact"
    /\ \/ LocalChange \/ GetManager \/ DestroyManager
       \/ \E e \in Event : EmitEvent(e) \/ \E h \in Handler : BindEvent(e, h)

EventsSpec == EventsInit /\ [][EventsNext]_eventVars

-----------------------------------------------------------------------------
(* Properties                                                              *)

\* An array is what its operations should have made of it, and no write leaves
\* it, as long as it was only enlarged, assigned and inserted into at its first
\* two places; so an event keeps its first two delegates in order, whatever is
\* bound to other events meanwhile.  The third one that is appended already
\* breaks the list (Array.hpp:82-104, EventManager.cpp:40-56).
FirstTwoPlacesExact ==
    /\ \A l \in List : atFront[l] /\ heap = "intact" => arrays[l] = intended[l]
    /\ heap = "corrupt" => \E l \in List : ~atFront[l]
    /\ \A e \in Event : e \notin EventMapping => arrays[e] = <<>>
=============================================================================
