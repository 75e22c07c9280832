----------------------------- MODULE Delegates -----------------------------
(***************************************************************************)
(* EasyDelegate (easydelegate.hpp): a DelegateSet, the delegates it owns   *)
(* and the CachedDelegates that own one each.  A delegate instance is the  *)
(* number of its allocation.  Callers hand each delegate to one owner at a *)
(* time, as the set and the cached delegates delete what they hold.        *)
(***************************************************************************)
EXTENDS Naturals, Sequences, FiniteSets

CONSTANTS Proc, Object, \* functions, and objects whose members they are
          NULL,
          MaxMade       \* bound: delegates allocated

ASSUME DelegatesAssumption == NULL \notin Proc \cup Object /\ MaxMade \in Nat

VARIABLES made,             \* what each delegate calls, by allocation
          mDelegateVector,
          deleted, cached,  \* delegates freed, and owned by a CachedDelegate
          duty,             \* what the set is doing: "lost" once undefined
          iteration, currentDelegateCount, request, out,
          before, called, changed, added \* history of the removal or the invoke

setVars == <<made, mDelegateVector, deleted, cached>>
loopVars == <<iteration, currentDelegateCount, request, out>>
memoryVars == <<before, called, changed, added>>
delegateVars == <<setVars, duty, loopVars, memoryVars>>

Delegate ==
    [isMember : {FALSE}, this : {NULL}, proc : Proc \cup {NULL}]
    \cup [isMember : {TRUE}, this : Object \cup {NULL}, proc : Proc \cup {NULL}]

\* The three remove_delegate_... methods and their arguments.
Request ==
    LET flags(by, what) == [by : by, what : what \cup {NULL}, deleteInstances : BOOLEAN, hasOut : BOOLEAN]
    IN  flags({"static", "member"}, Proc) \cup flags({"this"}, Object)
NoRequest == [by |-> "none", what |-> NULL, deleteInstances |-> FALSE, hasOut |-> FALSE]

\* A static function is never a member delegate's, and the other way round.
has_procaddress(d, proc, isMember) == d.isMember = isMember /\ d.proc = proc
has_thispointer(d, this) == d.isMember /\ d.this = this

Matches(d, r) ==
    \/ r.by = "static" /\ has_procaddress(d, r.what, FALSE)
    \/ r.by = "member" /\ has_procaddress(d, r.what, TRUE)
    \/ r.by = "this" /\ has_thispointer(d, r.what)

\* invoke() throws when there is nothing to call.
Callable(d) == d.proc # NULL /\ (d.isMember => d.this # NULL)

Elements(s) == {s[i] : i \in 1..Len(s)}

\* Mutant of Erased: the element after those asked for goes.
BugErased(s, i, n) == [k \in 1..(Len(s) - n) |-> IF k <= i THEN s[k] ELSE s[k + n]]
Erased(s, i, n) == [k \in 1..(Len(s) - n) |-> IF k < i THEN s[k] ELSE s[k + n]]
Inserted(s, i, e) ==
    [k \in 1..(Len(s) + 1) |-> IF k < i THEN s[k] ELSE IF k = i THEN e ELSE s[k - 1]]

Held == (1..Len(made)) \ (deleted \cup cached \cup Elements(mDelegateVector))

DelegatesInit ==
    /\ made = <<>> /\ mDelegateVector = <<>> /\ deleted = {} /\ cached = {}
    /\ duty = "idle" /\ iteration = 0 /\ currentDelegateCount = 0
    /\ request = NoRequest /\ out = <<>>
    /\ before = <<>> /\ called = <<>> /\ changed = FALSE /\ added = {}

-----------------------------------------------------------------------------
(* Delegates and their owners                                              *)

NewDelegate(d) ==
    /\ duty = "idle" /\ Len(made) < MaxMade
    /\ made' = Append(made, d)
    /\ UNCHANGED <<mDelegateVector, deleted, cached, duty, loopVars, memoryVars>>

CacheDelegate(d) ==
    /\ duty = "idle" /\ d \in Held
    /\ cached' = cached \cup {d}
    /\ UNCHANGED <<made, mDelegateVector, deleted, duty, loopVars, memoryVars>>

\* Through a GenericCachedDelegate, whose destructor is not virtual, the
\* delegate inside is not deleted.
DeleteCached(d, generic) ==
    /\ duty = "idle" /\ d \in cached
    /\ cached' = cached \ {d}
    /\ deleted' = IF generic THEN deleted ELSE deleted \cup {d}
    /\ UNCHANGED <<made, mDelegateVector, duty, loopVars, memoryVars>>

-----------------------------------------------------------------------------
(* DelegateSet: changes                                                    *)

\* operator += is the same.
push_back(d) == mDelegateVector' = Append(mDelegateVector, d) /\ UNCHANGED <<made, deleted, cached>>

AddDelegate(d) ==
    /\ duty = "idle" /\ d \in Held
    /\ \/ push_back(d)
       \/ \E i \in 1..Len(mDelegateVector) :
             /\ mDelegateVector' = Inserted(mDelegateVector, i, d)
             /\ UNCHANGED <<made, deleted, cached>>
    /\ UNCHANGED <<duty, loopVars, memoryVars>>

\* endIndex is a number of elements: erase(i) alone erases nothing.
erase(startIndex, endIndex) ==
    /\ duty = "idle" /\ startIndex + endIndex <= Len(mDelegateVector)
    /\ mDelegateVector' = Erased(mDelegateVector, startIndex + 1, endIndex)
    /\ UNCHANGED <<made, deleted, cached, duty, loopVars, memoryVars>>

\* NULL is returned, and nothing deleted, for a delegate of no set.
remove_delegate(d, deleteInstance) ==
    \E i \in 1..Len(mDelegateVector) :
        /\ mDelegateVector[i] = d
        /\ mDelegateVector' = Erased(mDelegateVector, i, 1)
        /\ deleted' = IF deleteInstance THEN deleted \cup {d} ELSE deleted
        /\ UNCHANGED <<made, cached>>

RemoveDelegate(d, deleteInstance) ==
    /\ duty = "idle" /\ remove_delegate(d, deleteInstance)
    /\ UNCHANGED <<duty, loopVars, memoryVars>>

RemoveDelegates(r) ==
    /\ duty = "idle" /\ duty' = "removing"
    /\ iteration' = 0 /\ currentDelegateCount' = Len(mDelegateVector)
    /\ request' = r /\ before' = mDelegateVector
    /\ UNCHANGED <<setVars, out, called, changed, added>>

\* iteration is decremented before the loop increments it: from 0 it wraps
\* around and back.  Mutant: without the decrement.
BugIterationAfterRemoval(i) == i + 1
IterationAfterRemoval(i) == i

current == mDelegateVector[iteration + 1]

RemoveCurrent ==
    /\ duty = "removing" /\ iteration < currentDelegateCount
    /\ Matches(made[current], request)
    /\ deleted' = IF request.deleteInstances THEN deleted \cup {current} ELSE deleted
    /\ out' = IF ~request.deleteInstances /\ request.hasOut THEN Append(out, current) ELSE out
    /\ mDelegateVector' = Erased(mDelegateVector, iteration + 1, 1)
    /\ currentDelegateCount' = currentDelegateCount - 1
    /\ iteration' = IterationAfterRemoval(iteration)
    /\ UNCHANGED <<made, cached, duty, request, memoryVars>>

KeepCurrent ==
    /\ duty = "removing" /\ iteration < currentDelegateCount
    /\ ~Matches(made[current], request)
    /\ iteration' = iteration + 1
    /\ UNCHANGED <<setVars, duty, currentDelegateCount, request, out, memoryVars>>

\* A finished loop or invoke leaves nothing behind but what it did to the set.
Finished ==
    /\ duty' = "idle" /\ iteration' = 0 /\ currentDelegateCount' = 0
    /\ request' = NoRequest /\ out' = <<>>
    /\ before' = <<>> /\ called' = <<>> /\ changed' = FALSE /\ added' = {}
    /\ UNCHANGED setVars

EndRemoval == duty = "removing" /\ iteration >= currentDelegateCount /\ Finished

-----------------------------------------------------------------------------
(* DelegateSet::invoke.  A function that is called may change the set, as   *)
(* often as it likes: duty is "calling" meanwhile, and "moved" once the     *)
(* vector has moved and left the iterator in freed memory.                  *)

BeginInvoke ==
    /\ duty = "idle" /\ duty' = "invoking"
    /\ before' = mDelegateVector
    /\ UNCHANGED <<setVars, loopVars, called, changed, added>>

BeginCall ==
    /\ duty = "invoking" /\ iteration < Len(mDelegateVector) /\ Callable(made[current])
    /\ duty' = "calling" /\ called' = Append(called, current)
    /\ UNCHANGED <<setVars, loopVars, before, changed, added>>

InFunction == duty \in {"calling", "moved"}

\* What follows the one that is removed moves up, under the iterator.
FunctionRemoves ==
    /\ InFunction
    /\ \E d \in Elements(mDelegateVector), deleteInstance \in BOOLEAN : remove_delegate(d, deleteInstance)
    /\ changed' = TRUE
    /\ UNCHANGED <<duty, loopVars, before, called, added>>

\* A vector that is full moves.
FunctionAdds ==
    /\ InFunction
    /\ \E d \in Held : push_back(d) /\ added' = added \cup {d}
    /\ changed' = TRUE /\ duty' \in {duty, "moved"}
    /\ UNCHANGED <<loopVars, before, called>>

\* Mutant of NextIterator: the iterator stays when the function changed the set.
BugNextIterator(i) == IF changed THEN i ELSE i + 1
NextIterator(i) == i + 1

CallReturns ==
    /\ \/ duty = "calling" /\ duty' = "invoking" /\ iteration' = NextIterator(iteration)
       \/ duty = "moved" /\ duty' = "lost" /\ UNCHANGED iteration
    /\ UNCHANGED <<setVars, currentDelegateCount, request, out, memoryVars>>

\* The exception of the function, or of a delegate with nothing to call.
CallThrows ==
    /\ \/ InFunction
       \/ duty = "invoking" /\ iteration < Len(mDelegateVector) /\ ~Callable(made[current])
    /\ Finished

EndInvoke == duty = "invoking" /\ iteration = Len(mDelegateVector) /\ Finished

\* end() has passed below the iterator, which never meets it.
RunsPastEnd ==
    /\ duty = "invoking" /\ iteration > Len(mDelegateVector) /\ duty' = "lost"
    /\ UNCHANGED <<setVars, loopVars, memoryVars>>

DestroySet ==
    /\ duty = "idle" /\ duty' = "gone"
    /\ deleted' = deleted \cup Elements(mDelegateVector) /\ mDelegateVector' = <<>>
    /\ UNCHANGED <<made, cached, loopVars, memoryVars>>

DelegatesNext ==
    \/ \E d \in Delegate : NewDelegate(d)
    \/ \E d \in Held : CacheDelegate(d) \/ AddDelegate(d)
    \/ \E d \in cached, generic \in BOOLEAN : DeleteCached(d, generic)
    \/ \E i, n \in 0..Len(mDelegateVector) : erase(i, n)
    \/ \E d \in Elements(mDelegateVector), deleteInstance \in BOOLEAN : RemoveDelegate(d, deleteInstance)
    \/ \E r \in Request : RemoveDelegates(r)
    \/ RemoveCurrent \/ KeepCurrent \/ EndRemoval
    \/ BeginInvoke \/ BeginCall \/ FunctionRemoves \/ FunctionAdds \/ CallReturns \/ CallThrows
    \/ EndInvoke \/ RunsPastEnd \/ DestroySet

DelegatesSpec == DelegatesInit /\ [][DelegatesNext]_delegateVars

-----------------------------------------------------------------------------
(* Properties                                                              *)

DelegatesTypeOK ==
    /\ made \in Seq(Delegate) /\ mDelegateVector \in Seq(1..Len(made))
    /\ deleted \subseteq 1..Len(made) /\ cached \subseteq 1..Len(made)
    /\ duty \in {"idle", "removing", "invoking", "calling", "moved", "lost", "gone"}
    /\ iteration \in Nat /\ currentDelegateCount \in Nat

\* However removals by function, object and instance, deletions and calls that
\* change the set follow each other, the set never holds a delegate that was
\* deleted, one that a CachedDelegate will delete, or one twice: none is used
\* after, or deleted again.  The count of a removal stays that of the vector
\* (easydelegate.hpp:269-459).
OneOwner ==
    /\ DelegatesTypeOK
    /\ \A i, j \in 1..Len(mDelegateVector) : mDelegateVector[i] = mDelegateVector[j] => i = j
    /\ \A i \in 1..Len(mDelegateVector) : mDelegateVector[i] \notin deleted \cup cached
    /\ cached \cap deleted = {}
    /\ duty = "removing" => currentDelegateCount = Len(mDelegateVector)

\* The first n elements of s are those of v at these places, in order.
Lists(s, n, v, places) ==
    /\ n = Cardinality(places)
    /\ \A i \in places : s[Cardinality({j \in places : j <= i})] = v[i]

\* A removal takes every match, neighbours included, leaves the rest in order,
\* and either deletes the matches or lists them in order: in out, if there is
\* one and they are not deleted (easydelegate.hpp:318-396; the comments there
\* say the opposite of out, see ListedOnlyIfDeleted).
RemovesAllMatches ==
    [][duty = "removing" /\ duty' = "idle" =>
          LET places == 1..Len(before)
              matching == {i \in places : Matches(made[before[i]], request)}
          IN  /\ Lists(mDelegateVector, Len(mDelegateVector), before, places \ matching)
              /\ IF ~request.deleteInstances /\ request.hasOut
                 THEN Lists(out, Len(out), before, matching) ELSE out = <<>>
              /\ \A i \in matching : before[i] \in deleted <=> request.deleteInstances]_delegateVars

\* An invoke of a set that nothing changes calls all its delegates in order.
\* However the functions remove and add delegates, two calls that none of them
\* added meanwhile are in the order of the set at the beginning, so one is
\* called twice only if a function added it (easydelegate.hpp:437-459).
Precedes(d, e) == \E k, l \in 1..Len(before) : k < l /\ before[k] = d /\ before[l] = e
CalledInOrder ==
    /\ duty = "invoking" /\ ~changed => called = SubSeq(before, 1, iteration)
    /\ \A i, j \in 1..Len(called) :
          i < j /\ called[i] \notin added /\ called[j] \notin added
              => Precedes(called[i], called[j])

\* "This vector will then be populated with a list of removed delegates. If
\* deleteInstances is false, this list will never be populated"
\* (easydelegate.hpp:312-313, 343-345, 373-375).
ListedOnlyIfDeleted == duty = "removing" /\ ~request.deleteInstances => out = <<>>
=============================================================================
