----------------------------- MODULE BitStream -----------------------------
(***************************************************************************)
(* Kiaro::Support::BitStream (support/BitStream.cpp): a growable array of  *)
(* bytes with one offset, mDataPointer, that both writes and reads move.   *)
(* The header calls it "serialized chunks of data"; the code makes it a    *)
(* stack.  Every writeX is write(n bytes) and every readX is read(n).      *)
(***************************************************************************)
EXTENDS Naturals, Sequences

CONSTANTS Byte,        \* the values a byte can have
          NUL,         \* the byte 0x00
          Unwritten,   \* the content of memory new[] returned and nobody wrote
          Chunk,       \* the byte sequences the program writes in one call
          ReadSize,    \* the sizes readF32, readBool, readU8, readU32 ask for
          SizedLength, \* the lengths given to BitStream(size_t)
          MaxBytes,    \* bound on the bytes one stream holds
          SizeMod,     \* 2^(bits of size_t)
          U32Mod       \* 2^(bits of Common::U32), the type of newDataLength

ASSUME BitStreamAssumption ==
    /\ NUL \in Byte /\ Unwritten \notin Byte
    /\ MaxBytes \in Nat
    /\ SizeMod \in Nat /\ SizeMod > 3 * MaxBytes
    /\ \A bs \in Chunk : bs \in Seq(Byte) /\ Len(bs) <= MaxBytes
    /\ ReadSize \subseteq 0..(SizeMod - 1)
    /\ SizedLength \subseteq 0..MaxBytes
    /\ U32Mod \in Nat \ {0}

VARIABLES mData,            \* the allocation mData points to, byte by byte
          mDataPointer,     \* offset of the next write, end of the next read
          mDataLength,      \* the recorded size of the allocation
          mIsManagingMemory,\* whether the stream may delete mData
          owned,            \* allocations made by this stream and not deleted
          destroyed,        \* the destructor has run
          overrun,          \* a write has gone over the end of its array
          inputArray,       \* what became of the array the stream was given
          result            \* what the last call answered or threw

ownership == <<mIsManagingMemory, owned, destroyed, overrun, inputArray>>
streamVars == <<mData, mDataPointer, mDataLength, ownership, result>>

Cell == Byte \cup {Unwritten}
Done == [ok |-> TRUE, bytes |-> <<>>]
OutOfRange == [ok |-> FALSE, bytes |-> <<>>]

-----------------------------------------------------------------------------
(* Constructors: BitStream(), BitStream(data, n, n) over a received packet *)
(* and BitStream(n).                                                       *)

OverArray(data, index) ==
    /\ mData = data /\ mDataLength = Len(data) /\ mDataPointer = index
    /\ mIsManagingMemory = FALSE /\ owned = 0
    /\ inputArray = IF data = <<>> THEN "none" ELSE "used"

Sized(n) ==
    /\ mData = [i \in 1..n |-> Unwritten] /\ mDataLength = n /\ mDataPointer = 0
    /\ mIsManagingMemory = TRUE /\ owned = 1 /\ inputArray = "none"

StreamInit ==
    /\ \/ \E data \in Chunk \cup {<<>>} : OverArray(data, Len(data))
       \/ \E n \in SizedLength : Sized(n)
    /\ destroyed = FALSE /\ overrun = FALSE
    /\ result = Done

Usable == ~destroyed /\ ~overrun

-----------------------------------------------------------------------------
(* write                                                                   *)

\* Mutant of HasRoom: the offset is forgotten.
BugHasRoom(len, ptr, n) == len >= n
HasRoom(len, ptr, n) == len >= ptr + n
\* Mutant of GrownLength: one byte to spare.
BugGrownLength(len, n) == (len + n + 1) % U32Mod
\* The sum of two size_t is kept in a U32.
GrownLength(len, n) == (len + n) % U32Mod
\* Mutant of Widened: the old bytes are not copied.
BugWidened(d, len) == [i \in 1..len |-> Unwritten]
Widened(d, len) == [i \in 1..len |-> IF i <= Len(d) THEN d[i] ELSE Unwritten]
Overwritten(d, ptr, bs) ==
    [i \in 1..Len(d) |-> IF i > ptr /\ i <= ptr + Len(bs) THEN bs[i - ptr] ELSE d[i]]
DeletedOnGrow(managing) == IF managing THEN 1 ELSE 0

\* What becomes of the array the stream was given when the stream deletes, or
\* only forgets, the array it has.
InputAfterDelete == IF inputArray = "used" /\ mIsManagingMemory THEN "deleted" ELSE inputArray
InputAfterGrowth ==
    IF inputArray = "used" /\ ~mIsManagingMemory THEN "replaced" ELSE InputAfterDelete

\* The new array does not hold the bytes that the two memcpy of write() put
\* into it: the old ones, and the chunk at the offset.
Overruns(newDataLength, n) ==
    newDataLength < mDataLength \/ newDataLength < mDataPointer + n

WriteInPlace(bs) ==
    /\ HasRoom(mDataLength, mDataPointer, Len(bs))
    /\ mData' = Overwritten(mData, mDataPointer, bs)
    /\ UNCHANGED <<mDataLength, mIsManagingMemory, owned, inputArray>>

WriteGrowing(bs) ==
    /\ ~HasRoom(mDataLength, mDataPointer, Len(bs))
    /\ mDataLength' = GrownLength(mDataLength, Len(bs))
    /\ ~Overruns(mDataLength', Len(bs))
    /\ mData' = Overwritten(Widened(mData, mDataLength'), mDataPointer, bs)
    /\ mIsManagingMemory' = TRUE
    /\ owned' = (owned + 1) - DeletedOnGrow(mIsManagingMemory)
    /\ inputArray' = InputAfterGrowth

\* Nothing is defined after this: the stream has no further step.
WriteOverruns(bs) ==
    /\ ~HasRoom(mDataLength, mDataPointer, Len(bs))
    /\ Overruns(GrownLength(mDataLength, Len(bs)), Len(bs))
    /\ overrun' = TRUE
    /\ UNCHANGED <<mData, mDataPointer, mDataLength, mIsManagingMemory, owned, destroyed,
                   inputArray, result>>

WriteFits(bs) ==
    /\ WriteInPlace(bs) \/ WriteGrowing(bs)
    /\ mDataPointer' = mDataPointer + Len(bs)
    /\ result' = Done
    /\ UNCHANGED <<destroyed, overrun>>

Write(bs) ==
    /\ Usable
    /\ mDataPointer + Len(bs) <= MaxBytes
    /\ WriteFits(bs) \/ WriteOverruns(bs)

-----------------------------------------------------------------------------
(* read, readString and raw                                                *)

WithinOffset(n, ptr) == n <= ptr

Read(n) ==
    /\ Usable
    /\ \/ /\ WithinOffset(n, mDataPointer)
          /\ mDataPointer' = mDataPointer - n
          /\ result' = [ok |-> TRUE, bytes |-> SubSeq(mData, mDataPointer - n + 1, mDataPointer)]
       \/ /\ ~WithinOffset(n, mDataPointer)
          /\ result' = OutOfRange
          /\ UNCHANGED mDataPointer
    /\ UNCHANGED <<mData, mDataLength, ownership>>

\* iteration - mDataLength of two size_t with iteration < mDataLength
WrappedSize(iteration, len) == SizeMod + iteration - len

\* The scan for the terminator runs from the offset towards the end of the
\* array, over bytes already read or never written, and may take a byte
\* nobody wrote for a NUL.
ReadString(n) ==
    \/ \E i \in (mDataPointer + 1)..mDataLength :
          /\ mData[i] \in {NUL, Unwritten}
          /\ \A j \in (mDataPointer + 1)..(i - 1) : mData[j] # NUL
          /\ Read(WrappedSize(i - 1, mDataLength))
    \/ /\ \A i \in (mDataPointer + 1)..mDataLength : mData[i] # NUL
       /\ Read(n)

Raw == Read(mDataPointer)

DestroyStream ==
    /\ Usable
    /\ destroyed' = TRUE
    /\ owned' = IF mIsManagingMemory THEN owned - 1 ELSE owned
    /\ inputArray' = InputAfterDelete
    /\ UNCHANGED <<mData, mDataPointer, mDataLength, mIsManagingMemory, overrun, result>>

StreamNext ==
    \/ \E bs \in Chunk : Write(bs)
    \/ \E n \in ReadSize : Read(n)
    \/ \E n \in {0} \cup ReadSize : ReadString(n)
    \/ Raw
    \/ DestroyStream

StreamSpec == StreamInit /\ [][StreamNext]_streamVars

-----------------------------------------------------------------------------
(* Properties                                                              *)

\* The variables of the stream have the types their declarations give them,
\* and the array is as long as the code believes.
StreamTypeOK ==
    /\ mDataLength \in 0..(2 * MaxBytes)
    /\ mData \in [1..mDataLength -> Cell]
    /\ mDataPointer \in Nat
    /\ mIsManagingMemory \in BOOLEAN /\ owned \in Nat
    /\ destroyed \in BOOLEAN /\ overrun \in BOOLEAN
    /\ inputArray \in {"none", "used", "replaced", "deleted"}
    /\ result \in [ok : BOOLEAN, bytes : Seq(Cell)]

\* The offset stays inside the allocation although the array grows by the size
\* of the write and not to the end of the write (BitStream.cpp:53-69): what
\* read() points to is in the array.
OffsetInArray == mDataPointer <= mDataLength

\* A write goes over the end of its array only if the new length does not fit
\* into the U32 it is kept in (BitStream.cpp:55).
OverrunsOnlyWhenCut == overrun => \E bs \in Chunk : mDataLength + Len(bs) >= U32Mod

\* Below the offset there are only bytes somebody wrote, so no read hands out
\* the uninitialised memory that BitStream(size_t) and a growing write allocate.
WrittenBelowOffset == \A i \in 1..mDataPointer : mData[i] \in Byte

\* What a read answers is made of written bytes.
AnswersWrittenBytes == result.bytes \in Seq(Byte)

\* Each allocation the stream made is deleted when the array is replaced or
\* the stream is destroyed, and the array it was constructed over never is
\* (BitStream.cpp:28, 44-48, 61-65).
OwnsWhatItManages ==
    /\ owned = IF mIsManagingMemory /\ ~destroyed THEN 1 ELSE 0
    /\ inputArray = "used" => ~mIsManagingMemory
    /\ inputArray # "deleted"

\* The inductive invariant: what the code relies on in every call.
StreamInv ==
    /\ StreamTypeOK
    /\ OffsetInArray
    /\ mDataPointer <= MaxBytes
    /\ WrittenBelowOffset
    /\ AnswersWrittenBytes
    /\ OwnsWhatItManages
    /\ OverrunsOnlyWhenCut

\* Until a write runs over its array the stream implements the byte stack: the
\* stack is the array up to the offset, growth loses no byte and reads take
\* them back last first (BitStream.cpp:50-112).
Abstract == INSTANCE ByteStack WITH stack <- SubSeq(mData, 1, mDataPointer)
ImplementsByteStack == Abstract!StackSpec

=============================================================================
