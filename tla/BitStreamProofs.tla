-------------------------- MODULE BitStreamProofs --------------------------
(* Machine-checked facts about BitStream, for every chunk, size and bound, *)
(* and about the packet that HandShakePacket makes of it, for every        *)
(* version and identifier and all that other programs may send.            *)
EXTENDS HandShakePacket, SequenceTheorems, TLAPS

\* What memcpy of a write leaves: the array keeps its length and its cells
\* (BitStream.cpp:68).
LEMMA CopiedType ==
    ASSUME NEW len \in Nat, NEW d \in [1..len -> Cell], NEW ptr \in Nat,
           NEW bs \in Seq(Byte)
    PROVE  /\ Overwritten(d, ptr, bs) \in [1..len -> Cell]
           /\ \A i \in 1..len : i <= ptr => Overwritten(d, ptr, bs)[i] = d[i]
           /\ \A i \in 1..len : i > ptr /\ i <= ptr + Len(bs)
                 => Overwritten(d, ptr, bs)[i] \in Byte
<1>1. Len(d) = len
  OBVIOUS
<1>2. \A i \in 1..len : i > ptr /\ i <= ptr + Len(bs) => bs[i - ptr] \in Byte
  OBVIOUS
<1> QED
  BY <1>1, <1>2 DEF Overwritten, Cell

\* What a growing write allocates: an array of the new length that starts
\* with the old one (BitStream.cpp:55-58).
LEMMA WidenedType ==
    ASSUME NEW len \in Nat, NEW d \in [1..len -> Cell], NEW new \in Nat, new >= len
    PROVE  /\ Widened(d, new) \in [1..new -> Cell]
           /\ \A i \in 1..len : Widened(d, new)[i] = d[i]
<1>1. Len(d) = len
  OBVIOUS
<1> QED
  BY <1>1 DEF Widened, Cell

-----------------------------------------------------------------------------
(* The inductive invariant                                                 *)

\* The two answers that carry no byte are well typed.
LEMMA AnswerTypes ==
    /\ <<>> \in Seq(Byte) /\ <<>> \in Seq(Cell)
    /\ Done \in [ok : BOOLEAN, bytes : Seq(Cell)] /\ Done.bytes \in Seq(Byte)
    /\ OutOfRange \in [ok : BOOLEAN, bytes : Seq(Cell)]
    /\ OutOfRange.bytes \in Seq(Byte)
<1>1. <<>> \in Seq(Byte) /\ <<>> \in Seq(Cell)
  OBVIOUS
<1> QED
  BY <1>1 DEF Done, OutOfRange

\* What an assumption on the constants says of one chunk.
LEMMA ChunkType ==
    ASSUME NEW bs \in Chunk
    PROVE  bs \in Seq(Byte) /\ Len(bs) \in Nat /\ Len(bs) <= MaxBytes
<1>1. bs \in Seq(Byte) /\ Len(bs) <= MaxBytes
  BY BitStreamAssumption
<1> QED
  BY <1>1

\* Every constructor establishes the invariant.
LEMMA InitInv == StreamInit => StreamInv
<1> SUFFICES ASSUME StreamInit PROVE StreamInv
  OBVIOUS
<1>0. MaxBytes \in Nat /\ destroyed = FALSE /\ overrun = FALSE
      /\ result \in [ok : BOOLEAN, bytes : Seq(Cell)] /\ result.bytes \in Seq(Byte)
  BY AnswerTypes, BitStreamAssumption DEF StreamInit
<1>1. ASSUME NEW data \in Chunk \cup {<<>>}, OverArray(data, Len(data))
      PROVE  StreamInv
  <2>1. data \in Seq(Byte) /\ Len(data) \in Nat /\ Len(data) <= MaxBytes
    <3>1. CASE data \in Chunk
      BY <3>1, ChunkType
    <3>2. CASE data = <<>>
      BY <3>2, BitStreamAssumption
    <3> QED
      BY <3>1, <3>2
  <2>2. /\ mData = data /\ mDataLength = Len(data) /\ mDataPointer = Len(data)
        /\ mIsManagingMemory = FALSE /\ owned = 0
        /\ inputArray \in {"none", "used"}
    BY <1>1 DEF OverArray
  <2>3. mData \in [1..mDataLength -> Cell] /\ WrittenBelowOffset
    BY <2>1, <2>2 DEF Cell, WrittenBelowOffset
  <2>4. mIsManagingMemory \in BOOLEAN /\ destroyed \in BOOLEAN /\ overrun \in BOOLEAN
    BY <1>0, <2>2
  <2>5. StreamTypeOK
    BY <1>0, <2>1, <2>2, <2>3, <2>4 DEF StreamTypeOK
  <2>6. OwnsWhatItManages
    BY <1>0, <2>2 DEF OwnsWhatItManages
  <2> QED
    BY <1>0, <2>1, <2>2, <2>3, <2>5, <2>6
       DEF StreamInv, OffsetInArray, AnswersWrittenBytes, OverrunsOnlyWhenCut
<1>2. ASSUME NEW n \in SizedLength, Sized(n)
      PROVE  StreamInv
  <2>1. n \in Nat /\ n <= MaxBytes
    BY BitStreamAssumption
  <2>2. /\ mData = [i \in 1..n |-> Unwritten] /\ mDataLength = n
        /\ mDataPointer = 0 /\ mIsManagingMemory = TRUE /\ owned = 1
        /\ inputArray = "none"
    BY <1>2 DEF Sized
  <2>3. mData \in [1..mDataLength -> Cell] /\ WrittenBelowOffset
    BY <2>1, <2>2 DEF Cell, WrittenBelowOffset
  <2>4. mIsManagingMemory \in BOOLEAN /\ destroyed \in BOOLEAN /\ overrun \in BOOLEAN
    BY <1>0, <2>2
  <2>5. StreamTypeOK
    BY <1>0, <2>1, <2>2, <2>3, <2>4 DEF StreamTypeOK
  <2>6. OwnsWhatItManages
    BY <1>0, <2>2 DEF OwnsWhatItManages
  <2> QED
    BY <1>0, <2>1, <2>2, <2>3, <2>5, <2>6
       DEF StreamInv, OffsetInArray, AnswersWrittenBytes, OverrunsOnlyWhenCut
<1> QED
  BY <1>1, <1>2 DEF StreamInit

\* What is left of a length when it is kept in so many bits.
LEMMA CutLength ==
    ASSUME NEW x \in Nat, NEW m \in Nat \ {0}
    PROVE  x % m \in Nat /\ x % m <= x /\ (x < m => x % m = x)
<1> DEFINE q == x \div m
           r == x % m
<1>1. q \in Int /\ r \in 0..(m - 1) /\ x = m * q + r
  OBVIOUS
<1> HIDE DEF q, r
<1>2. q >= 0
  <2>1. q <= -1 => m * q <= m * (-1)
    BY <1>1
  <2> QED
    BY <1>1, <2>1
<1>3. m * q >= 0
  BY <1>1, <1>2
<1>4. q >= 1 => m * q >= m
  BY <1>1
<1>5. q = 0 => m * q = 0
  BY <1>1
<1>6. x < m => r = x
  BY <1>1, <1>2, <1>3, <1>4, <1>5
<1> QED
  BY <1>1, <1>3, <1>6 DEF r

\* The new array of a growing write holds what both memcpy put into it: the
\* array before and the chunk, and it is not longer than their sum.
LEMMA GrowthFits ==
    ASSUME StreamInv, NEW bs \in Chunk, WriteGrowing(bs)
    PROVE  /\ mDataLength' \in Nat /\ mDataLength <= mDataLength'
           /\ mDataPointer + Len(bs) <= mDataLength'
           /\ mDataLength' <= mDataLength + Len(bs)
           /\ mDataLength < mDataPointer + Len(bs)
           /\ mData' = Overwritten(Widened(mData, mDataLength'), mDataPointer, bs)
<1>1. Len(bs) \in Nat /\ mDataLength \in Nat /\ mDataPointer \in Nat
  BY ChunkType DEF StreamInv, StreamTypeOK
<1>2. U32Mod \in Nat \ {0} /\ mDataLength + Len(bs) \in Nat
  BY <1>1, BitStreamAssumption
<1>3. mDataLength' = (mDataLength + Len(bs)) % U32Mod
  BY DEF WriteGrowing, GrownLength
<1>4. mDataLength' \in Nat /\ mDataLength' <= mDataLength + Len(bs)
  BY <1>2, <1>3, CutLength
<1>5. /\ ~(mDataLength' < mDataLength) /\ ~(mDataLength' < mDataPointer + Len(bs))
      /\ ~(mDataLength >= mDataPointer + Len(bs))
      /\ mData' = Overwritten(Widened(mData, mDataLength'), mDataPointer, bs)
  BY DEF WriteGrowing, Overruns, HasRoom
<1> QED
  BY <1>1, <1>4, <1>5

\* A write of a chunk that stays inside of its array preserves the invariant,
\* whether the array grows or not: growing by the size of the write is enough
\* because the offset is inside.
LEMMA WriteFitsInv == ASSUME StreamInv, NEW bs \in Chunk, Write(bs), WriteFits(bs)
                      PROVE  StreamInv'
<1>0. bs \in Seq(Byte) /\ Len(bs) \in Nat /\ Len(bs) <= MaxBytes
  BY ChunkType
<1>1. /\ MaxBytes \in Nat
      /\ mDataLength \in Nat /\ mDataPointer \in Nat /\ owned \in Nat
      /\ mDataPointer + Len(bs) <= MaxBytes
      /\ mDataPointer <= mDataLength
      /\ mData \in [1..mDataLength -> Cell]
      /\ \A i \in 1..mDataPointer : mData[i] \in Byte
  BY BitStreamAssumption
     DEF StreamInv, StreamTypeOK, Write, OffsetInArray, WrittenBelowOffset
<1>2. /\ mDataPointer' = mDataPointer + Len(bs)
      /\ destroyed' = destroyed /\ ~destroyed /\ overrun' = overrun /\ ~overrun
      /\ result' \in [ok : BOOLEAN, bytes : Seq(Cell)] /\ result'.bytes \in Seq(Byte)
  BY AnswerTypes DEF Write, WriteFits, Usable
<1>3. destroyed' \in BOOLEAN /\ overrun' \in BOOLEAN /\ OverrunsOnlyWhenCut'
  BY <1>2 DEF StreamInv, StreamTypeOK, OverrunsOnlyWhenCut
<1>4. CASE WriteInPlace(bs)
  <2>1. /\ mDataLength' = mDataLength /\ mDataLength >= mDataPointer + Len(bs)
        /\ mData' = Overwritten(mData, mDataPointer, bs)
        /\ UNCHANGED <<mIsManagingMemory, owned, inputArray>>
    BY <1>4 DEF WriteInPlace, HasRoom
  <2>2. /\ Overwritten(mData, mDataPointer, bs) \in [1..mDataLength -> Cell]
        /\ \A i \in 1..mDataLength :
              i <= mDataPointer => Overwritten(mData, mDataPointer, bs)[i] = mData[i]
        /\ \A i \in 1..mDataLength : i > mDataPointer /\ i <= mDataPointer + Len(bs)
              => Overwritten(mData, mDataPointer, bs)[i] \in Byte
    BY <1>0, <1>1, CopiedType
  <2>3. mData' \in [1..mDataLength' -> Cell]
    BY <2>1, <2>2
  <2>4. WrittenBelowOffset'
    BY <1>0, <1>1, <1>2, <2>1, <2>2 DEF WrittenBelowOffset
  <2>b. mIsManagingMemory' \in BOOLEAN
        /\ inputArray' \in {"none", "used", "replaced", "deleted"}
    BY <2>1 DEF StreamInv, StreamTypeOK
  <2>5. StreamTypeOK'
    BY <1>1, <1>2, <1>3, <2>1, <2>3, <2>b DEF StreamInv, StreamTypeOK
  <2>6. OwnsWhatItManages'
    BY <1>2, <2>1 DEF StreamInv, OwnsWhatItManages
  <2> QED
    BY <1>0, <1>1, <1>2, <1>3, <2>1, <2>4, <2>5, <2>6
       DEF StreamInv, OffsetInArray, AnswersWrittenBytes
<1>5. CASE WriteGrowing(bs)
  <2> DEFINE W == Widened(mData, mDataLength')
  <2>0. /\ mDataLength' \in Nat /\ mDataLength <= mDataLength'
        /\ mDataPointer + Len(bs) <= mDataLength'
        /\ mDataLength' <= mDataLength + Len(bs)
        /\ mDataLength < mDataPointer + Len(bs)
        /\ mData' = Overwritten(W, mDataPointer, bs)
    BY <1>5, GrowthFits
  <2>1. /\ mIsManagingMemory' = TRUE
        /\ owned' = (owned + 1) - DeletedOnGrow(mIsManagingMemory)
        /\ inputArray' = InputAfterGrowth
    BY <1>5 DEF WriteGrowing
  <2>2. /\ mDataLength' \in 0..(2 * MaxBytes)
        /\ mDataPointer' <= mDataLength' /\ mDataPointer' \in Nat
    BY <1>0, <1>1, <1>2, <2>0
  <2>3. /\ W \in [1..mDataLength' -> Cell]
        /\ \A i \in 1..mDataLength : W[i] = mData[i]
    BY <1>1, <2>0, WidenedType
  <2> HIDE DEF W
  <2>4. /\ Overwritten(W, mDataPointer, bs) \in [1..mDataLength' -> Cell]
        /\ \A i \in 1..mDataLength' :
              i <= mDataPointer => Overwritten(W, mDataPointer, bs)[i] = W[i]
        /\ \A i \in 1..mDataLength' : i > mDataPointer /\ i <= mDataPointer + Len(bs)
              => Overwritten(W, mDataPointer, bs)[i] \in Byte
    BY <1>0, <1>1, <2>0, <2>3, CopiedType
  <2>5. WrittenBelowOffset'
    <3> SUFFICES ASSUME NEW i \in 1..mDataPointer' PROVE mData'[i] \in Byte
      BY DEF WrittenBelowOffset
    <3>1. i \in 1..mDataLength'
      BY <2>0, <2>2
    <3>2. CASE i <= mDataPointer
      BY <1>1, <2>0, <2>3, <2>4, <3>1, <3>2
    <3>3. CASE i > mDataPointer
      BY <1>0, <1>1, <1>2, <2>0, <2>4, <3>1, <3>3
    <3> QED
      BY <1>1, <2>2, <3>2, <3>3
  <2>6. owned' = 1 /\ inputArray' \in {"none", "used", "replaced"} /\ inputArray' # "used"
    <3>1. CASE mIsManagingMemory
      BY <1>2, <2>1, <3>1 DEF StreamInv, StreamTypeOK, OwnsWhatItManages, DeletedOnGrow,
         InputAfterGrowth, InputAfterDelete
    <3>2. CASE ~mIsManagingMemory
      BY <1>2, <2>1, <3>2 DEF StreamInv, StreamTypeOK, OwnsWhatItManages, DeletedOnGrow,
         InputAfterGrowth, InputAfterDelete
    <3> QED
      BY <3>1, <3>2
  <2>b. mIsManagingMemory' \in BOOLEAN
    BY <2>1
  <2>7. StreamTypeOK'
    BY <1>2, <1>3, <2>0, <2>1, <2>2, <2>4, <2>6, <2>b DEF StreamTypeOK
  <2>8. OwnsWhatItManages'
    BY <1>2, <2>1, <2>6 DEF OwnsWhatItManages
  <2> QED
    BY <1>0, <1>1, <1>2, <1>3, <2>1, <2>2, <2>5, <2>7, <2>8
       DEF StreamInv, OffsetInArray, AnswersWrittenBytes
<1> QED
  BY <1>4, <1>5 DEF WriteFits

\* A write that runs over its array is one whose new length was cut.
LEMMA WriteOverrunsInv == ASSUME StreamInv, NEW bs \in Chunk, Write(bs), WriteOverruns(bs)
                          PROVE  StreamInv'
<1>1. /\ UNCHANGED <<mData, mDataPointer, mDataLength, mIsManagingMemory, owned, destroyed,
                     inputArray, result>>
      /\ overrun' = TRUE
  BY DEF WriteOverruns
<1>2. overrun' \in BOOLEAN /\ destroyed' \in BOOLEAN /\ mIsManagingMemory' \in BOOLEAN
  BY <1>1 DEF StreamInv, StreamTypeOK
<1>3. StreamTypeOK'
  BY <1>1, <1>2 DEF StreamInv, StreamTypeOK, Cell
<1>4. mDataLength + Len(bs) >= U32Mod
  <2>1. /\ Len(bs) \in Nat /\ mDataLength \in Nat /\ mDataPointer \in Nat
        /\ mDataPointer <= mDataLength /\ U32Mod \in Nat \ {0}
    BY ChunkType, BitStreamAssumption DEF StreamInv, StreamTypeOK, OffsetInArray
  <2>2. mDataLength + Len(bs) < U32Mod
        => (mDataLength + Len(bs)) % U32Mod = mDataLength + Len(bs)
    BY <2>1, CutLength
  <2>3. \/ (mDataLength + Len(bs)) % U32Mod < mDataLength
        \/ (mDataLength + Len(bs)) % U32Mod < mDataPointer + Len(bs)
    BY DEF WriteOverruns, Overruns, GrownLength
  <2> QED
    BY <2>1, <2>2, <2>3
<1>5. OverrunsOnlyWhenCut'
  BY <1>1, <1>4 DEF OverrunsOnlyWhenCut
<1>6. OwnsWhatItManages'
  BY <1>1 DEF StreamInv, OwnsWhatItManages
<1> QED
  BY <1>1, <1>3, <1>5, <1>6
     DEF StreamInv, OffsetInArray, WrittenBelowOffset, AnswersWrittenBytes

\* A write of a chunk preserves the invariant.
LEMMA WriteInv == ASSUME StreamInv, NEW bs \in Chunk, Write(bs)
                  PROVE  StreamInv'
  BY WriteFitsInv, WriteOverrunsInv DEF Write

\* A read of any size preserves the invariant, answered or refused.
LEMMA ReadInv == ASSUME StreamInv, NEW n \in Nat, Read(n)
                 PROVE  StreamInv'
<1>1. /\ UNCHANGED <<mData, mDataLength, mIsManagingMemory, owned, destroyed>>
      /\ UNCHANGED <<overrun, inputArray>>
  BY DEF Read, ownership
<1>2. CASE WithinOffset(n, mDataPointer)
  <2>1. /\ n <= mDataPointer /\ mDataPointer' = mDataPointer - n
        /\ result' = [ok |-> TRUE,
             bytes |-> SubSeq(mData, mDataPointer - n + 1, mDataPointer)]
    BY <1>2 DEF Read, WithinOffset
  <2>2. SubSeq(mData, mDataPointer - n + 1, mDataPointer) \in Seq(Byte)
    BY <2>1 DEF StreamInv, StreamTypeOK, OffsetInArray, WrittenBelowOffset
  <2>3. result' \in [ok : BOOLEAN, bytes : Seq(Cell)] /\ result'.bytes \in Seq(Byte)
    BY <2>1, <2>2 DEF Cell
  <2>4. mDataPointer' \in Nat /\ mDataPointer' <= mDataPointer
    BY <2>1 DEF StreamInv, StreamTypeOK
  <2>5. StreamTypeOK'
    BY <1>1, <2>3, <2>4 DEF StreamInv, StreamTypeOK, Cell
  <2>6. (OffsetInArray /\ mDataPointer <= MaxBytes /\ WrittenBelowOffset)'
    BY <1>1, <2>4, BitStreamAssumption
       DEF StreamInv, StreamTypeOK, OffsetInArray, WrittenBelowOffset
  <2>7. (AnswersWrittenBytes /\ OwnsWhatItManages /\ OverrunsOnlyWhenCut)'
    BY <1>1, <2>3 DEF StreamInv, AnswersWrittenBytes, OwnsWhatItManages, OverrunsOnlyWhenCut
  <2> QED
    BY <2>5, <2>6, <2>7 DEF StreamInv
<1>3. CASE ~WithinOffset(n, mDataPointer)
  <2>1. result' = OutOfRange /\ mDataPointer' = mDataPointer
    BY <1>3 DEF Read
  <2> QED
    BY <1>1, <2>1
       DEF StreamInv, StreamTypeOK, OffsetInArray, WrittenBelowOffset,
           AnswersWrittenBytes, OwnsWhatItManages, OverrunsOnlyWhenCut, OutOfRange
<1> QED
  BY <1>2, <1>3

\* A length subtraction that wraps gives a size no stream can satisfy
\* (BitStream.cpp:140).
LEMMA WrappedSizeType ==
    ASSUME StreamInv, NEW i \in (mDataPointer + 1)..mDataLength
    PROVE  /\ WrappedSize(i - 1, mDataLength) \in 0..(SizeMod - 1)
           /\ WrappedSize(i - 1, mDataLength) > mDataPointer
  BY BitStreamAssumption DEF StreamInv, StreamTypeOK, WrappedSize

\* Each read of the program, whatever its length argument, is a read of some
\* size_t: the scan of readString only chooses the size.
LEMMA ReadCases ==
    ASSUME StreamInv,
           \/ \E n \in ReadSize : Read(n)
           \/ \E n \in {0} \cup ReadSize : ReadString(n)
           \/ Raw
    PROVE  \E n \in 0..(SizeMod - 1) : Read(n)
<1>1. ReadSize \subseteq 0..(SizeMod - 1) /\ 0 \in 0..(SizeMod - 1)
  BY BitStreamAssumption
<1>2. mDataPointer \in 0..(SizeMod - 1)
  BY BitStreamAssumption DEF StreamInv, StreamTypeOK
<1>3. ASSUME NEW n \in {0} \cup ReadSize, ReadString(n)
      PROVE  \E m \in 0..(SizeMod - 1) : Read(m)
  <2>1. CASE Read(n)
    BY <1>1, <2>1
  <2>2. CASE \E i \in (mDataPointer + 1)..mDataLength :
                Read(WrappedSize(i - 1, mDataLength))
    BY <2>2, WrappedSizeType
  <2> QED
    BY <1>3, <2>1, <2>2 DEF ReadString
<1> QED
  BY <1>1, <1>2, <1>3 DEF Raw

\* The invariant is inductive.
LEMMA NextInv == StreamInv /\ [StreamNext]_streamVars => StreamInv'
<1> SUFFICES ASSUME StreamInv, [StreamNext]_streamVars PROVE StreamInv'
  OBVIOUS
<1>1. CASE \E bs \in Chunk : Write(bs)
  BY <1>1, WriteInv
<1>2. CASE \/ \E n \in ReadSize : Read(n)
           \/ \E n \in {0} \cup ReadSize : ReadString(n)
           \/ Raw
  <2>1. PICK n \in 0..(SizeMod - 1) : Read(n)
    BY <1>2, ReadCases
  <2> QED
    BY <2>1, ReadInv, BitStreamAssumption
<1>3. CASE DestroyStream
  <2>1. /\ UNCHANGED <<mData, mDataPointer, mDataLength, mIsManagingMemory, overrun, result>>
        /\ ~destroyed /\ destroyed' = TRUE
    BY <1>3 DEF DestroyStream, Usable
  <2>2. owned' = 0 /\ inputArray' = inputArray
    <3>1. CASE mIsManagingMemory
      BY <1>3, <2>1, <3>1
         DEF DestroyStream, InputAfterDelete, StreamInv, StreamTypeOK, OwnsWhatItManages
    <3>2. CASE ~mIsManagingMemory
      BY <1>3, <2>1, <3>2
         DEF DestroyStream, InputAfterDelete, StreamInv, StreamTypeOK, OwnsWhatItManages
    <3> QED
      BY <3>1, <3>2
  <2>3. StreamTypeOK'
    BY <2>1, <2>2 DEF StreamInv, StreamTypeOK, Cell
  <2>4. OwnsWhatItManages'
    BY <2>1, <2>2 DEF StreamInv, OwnsWhatItManages
  <2> QED
    BY <2>1, <2>3, <2>4 DEF StreamInv, OffsetInArray, WrittenBelowOffset,
       AnswersWrittenBytes, OverrunsOnlyWhenCut
<1>4. CASE UNCHANGED streamVars
  BY <1>4 DEF streamVars, ownership, StreamInv, StreamTypeOK, OffsetInArray, WrittenBelowOffset,
     AnswersWrittenBytes, OwnsWhatItManages, OverrunsOnlyWhenCut
<1> QED
  BY <1>1, <1>2, <1>3, <1>4 DEF StreamNext

\* In every behaviour of the stream, for every chunk and bound and every width
\* of the length, the offset stays inside the array, all below it is written,
\* what the stream manages is what it allocated, and a write runs over its array
\* only when the width of the length cuts the new length.
THEOREM StreamInvariant == StreamSpec => []StreamInv
  BY InitInv, NextInv, PTL DEF StreamSpec

\* Every pointer read() returns is in bounds, and so is every memcpy of write()
\* as long as no new length reaches what its U32 can hold.
THEOREM OffsetAlwaysInArray == StreamSpec => [](OffsetInArray /\ OverrunsOnlyWhenCut)
<1>1. StreamInv => OffsetInArray /\ OverrunsOnlyWhenCut
  BY DEF StreamInv
<1> QED
  BY <1>1, StreamInvariant, PTL

\* No allocation of the stream is leaked, none is deleted twice.
THEOREM OwnershipIsExact == StreamSpec => []OwnsWhatItManages
<1>1. StreamInv => OwnsWhatItManages
  BY DEF StreamInv
<1> QED
  BY <1>1, StreamInvariant, PTL

-----------------------------------------------------------------------------
(* Refinement: the stream implements the byte stack                        *)

Contents == SubSeq(mData, 1, mDataPointer)

\* The first cells of an array, when they are all written.
LEMMA PrefixType ==
    ASSUME NEW len \in Nat, NEW d \in [1..len -> Cell], NEW p \in Nat, p <= len,
           \A i \in 1..p : d[i] \in Byte
    PROVE  /\ SubSeq(d, 1, p) \in Seq(Byte)
           /\ Len(SubSeq(d, 1, p)) = p
           /\ \A i \in 1..p : SubSeq(d, 1, p)[i] = d[i]
  OBVIOUS

\* The contents of the stream, cell by cell.
LEMMA ContentsType ==
    ASSUME StreamInv
    PROVE  /\ Contents \in Seq(Byte)
           /\ Len(Contents) = mDataPointer
           /\ \A i \in 1..mDataPointer : Contents[i] = mData[i]
  BY PrefixType DEF StreamInv, StreamTypeOK, OffsetInArray, WrittenBelowOffset, Contents

\* A write leaves the bytes below the old offset alone and puts the chunk on
\* top of them, also when the array is replaced by a longer one.
LEMMA WriteCells ==
    ASSUME StreamInv, NEW bs \in Chunk, Write(bs), WriteFits(bs)
    PROVE  /\ \A i \in 1..mDataPointer : mData'[i] = mData[i]
           /\ \A i \in 1..Len(bs) : mData'[mDataPointer + i] = bs[i]
<1>0. bs \in Seq(Byte) /\ Len(bs) \in Nat
  BY ChunkType
<1>1. /\ mDataLength \in Nat /\ mDataPointer \in Nat
      /\ mDataPointer <= mDataLength
      /\ mData \in [1..mDataLength -> Cell] /\ Len(mData) = mDataLength
  BY DEF StreamInv, StreamTypeOK, OffsetInArray
<1>2. ASSUME NEW len \in Nat, NEW d \in [1..len -> Cell],
             mDataPointer + Len(bs) <= len,
             \A i \in 1..mDataPointer : d[i] = mData[i],
             mData' = Overwritten(d, mDataPointer, bs)
      PROVE  /\ \A i \in 1..mDataPointer : mData'[i] = mData[i]
             /\ \A i \in 1..Len(bs) : mData'[mDataPointer + i] = bs[i]
  <2>1. mData' = [i \in 1..len |->
           IF i > mDataPointer /\ i <= mDataPointer + Len(bs)
           THEN bs[i - mDataPointer] ELSE d[i]]
    BY <1>2 DEF Overwritten
  <2>2. ASSUME NEW i \in 1..mDataPointer PROVE mData'[i] = mData[i]
    BY <1>0, <1>1, <1>2, <2>1
  <2>3. ASSUME NEW i \in 1..Len(bs) PROVE mData'[mDataPointer + i] = bs[i]
    <3>1. /\ mDataPointer + i \in 1..len /\ mDataPointer + i > mDataPointer
          /\ mDataPointer + i <= mDataPointer + Len(bs)
          /\ (mDataPointer + i) - mDataPointer = i
      BY <1>0, <1>1, <1>2
    <3> QED
      BY <2>1, <3>1
  <2> QED
    BY <2>2, <2>3
<1>3. CASE WriteInPlace(bs)
  BY <1>0, <1>1, <1>2, <1>3 DEF WriteInPlace, HasRoom
<1>4. CASE WriteGrowing(bs)
  <2> DEFINE W == Widened(mData, mDataLength')
  <2>1. /\ mDataLength' \in Nat /\ mDataLength <= mDataLength'
        /\ mDataPointer + Len(bs) <= mDataLength'
        /\ mData' = Overwritten(W, mDataPointer, bs)
    BY <1>4, GrowthFits
  <2>2. /\ W \in [1..mDataLength' -> Cell]
        /\ \A i \in 1..mDataLength : W[i] = mData[i]
    BY <1>1, <2>1, WidenedType
  <2>3. \A i \in 1..mDataPointer : W[i] = mData[i]
    BY <1>1, <2>2
  <2> HIDE DEF W
  <2> QED
    BY <1>2, <2>1, <2>2, <2>3
<1> QED
  BY <1>3, <1>4 DEF WriteFits

\* A write that stays inside of its array is a push of its chunk.
LEMMA WritePushes ==
    ASSUME StreamInv, NEW bs \in Chunk, Write(bs), WriteFits(bs)
    PROVE  Abstract!Push(bs)
<1>1. StreamInv'
  BY WriteInv
<1>2. /\ Contents \in Seq(Byte) /\ Len(Contents) = mDataPointer
      /\ \A i \in 1..mDataPointer : Contents[i] = mData[i]
  BY ContentsType
<1>3. /\ Contents' \in Seq(Byte) /\ Len(Contents') = mDataPointer'
      /\ \A i \in 1..mDataPointer' : Contents'[i] = mData'[i]
  <2>1. /\ mDataLength' \in Nat /\ mData' \in [1..mDataLength' -> Cell]
        /\ mDataPointer' \in Nat /\ mDataPointer' <= mDataLength'
        /\ \A i \in 1..mDataPointer' : mData'[i] \in Byte
    BY <1>1 DEF StreamInv, StreamTypeOK, OffsetInArray, WrittenBelowOffset
  <2> QED
    BY <2>1, PrefixType DEF Contents
<1>4. /\ bs \in Seq(Byte) /\ Len(bs) \in Nat /\ mDataPointer \in Nat
      /\ mDataPointer' = mDataPointer + Len(bs) /\ result' = Done
  BY ChunkType DEF WriteFits, StreamInv, StreamTypeOK
<1>5. /\ \A i \in 1..mDataPointer : mData'[i] = mData[i]
      /\ \A i \in 1..Len(bs) : mData'[mDataPointer + i] = bs[i]
  BY WriteCells
<1>6. Contents' = Contents \o bs
  <2>1. /\ Contents \o bs \in Seq(Byte)
        /\ Len(Contents \o bs) = mDataPointer + Len(bs)
        /\ \A i \in 1..(mDataPointer + Len(bs)) :
              (Contents \o bs)[i] = IF i <= mDataPointer THEN Contents[i]
                                    ELSE bs[i - mDataPointer]
    BY <1>2, <1>4, ConcatProperties
  <2>2. ASSUME NEW i \in 1..(mDataPointer + Len(bs))
        PROVE  Contents'[i] = (Contents \o bs)[i]
    <3>0. Contents'[i] = mData'[i]
      BY <1>3, <1>4
    <3>1. CASE i <= mDataPointer
      <4>1. i \in 1..mDataPointer
        BY <1>4, <3>1
      <4>2. mData'[i] = Contents[i]
        BY <1>2, <1>5, <4>1
      <4>3. (Contents \o bs)[i] = Contents[i]
        BY <2>1, <3>1
      <4> QED
        BY <3>0, <4>2, <4>3
    <3>2. CASE i > mDataPointer
      <4>1. i - mDataPointer \in 1..Len(bs) /\ mDataPointer + (i - mDataPointer) = i
        BY <1>4, <3>2
      <4>2. mData'[i] = bs[i - mDataPointer]
        BY <1>5, <4>1
      <4>3. (Contents \o bs)[i] = bs[i - mDataPointer]
        BY <1>4, <2>1, <3>2
      <4> QED
        BY <3>0, <4>2, <4>3
    <3>3. i <= mDataPointer \/ i > mDataPointer
      BY <1>4
    <3> QED
      BY <3>1, <3>2, <3>3
  <2> QED
    BY <1>3, <1>4, <2>1, <2>2, SeqEqual
<1> QED
  BY <1>4, <1>6 DEF Abstract!Push, Abstract!Done, Done, Contents

\* A read is a pop of its size, or a refusal that loses nothing.
LEMMA ReadPops ==
    ASSUME StreamInv, NEW n \in Nat, Read(n)
    PROVE  Abstract!Pop(n) \/ Abstract!Refuse(n)
<1>1. /\ mDataPointer \in Nat /\ mDataLength \in Nat
      /\ mDataPointer <= mDataLength /\ mData \in [1..mDataLength -> Cell]
      /\ mData' = mData /\ mData \in Seq(Cell) /\ Len(mData) = mDataLength
  BY DEF StreamInv, StreamTypeOK, OffsetInArray, Read
<1>2. Len(Contents) = mDataPointer
  BY ContentsType
<1>3. CASE n <= mDataPointer
  <2>1. /\ mDataPointer' = mDataPointer - n
        /\ result' = [ok |-> TRUE, bytes |-> SubSeq(mData, mDataPointer - n + 1, mDataPointer)]
    BY <1>1, <1>3 DEF Read, WithinOffset
  <2>2. SubSeq(Contents, 1, mDataPointer - n) = SubSeq(mData, 1, mDataPointer - n)
    BY <1>1, <1>3 DEF Contents
  <2>3. SubSeq(Contents, mDataPointer - n + 1, mDataPointer)
        = SubSeq(mData, mDataPointer - n + 1, mDataPointer)
    BY <1>1, <1>3 DEF Contents
  <2> QED
    BY <1>1, <1>2, <1>3, <2>1, <2>2, <2>3 DEF Abstract!Pop, Contents
<1>4. CASE ~(n <= mDataPointer)
  BY <1>1, <1>2, <1>4
     DEF Abstract!Refuse, Read, WithinOffset, OutOfRange, Abstract!OutOfRange, Contents
<1> QED
  BY <1>3, <1>4

\* Every behaviour of the stream is a behaviour of the byte stack: writes push,
\* reads pop what was pushed last, refusals change nothing, and a write whose
\* new length is cut and that runs over its array, which is the last step of a
\* behaviour, is the only one that does not push.
THEOREM Refinement == StreamSpec => ImplementsByteStack
<1>1. StreamInit => Abstract!StackInit
  <2> SUFFICES ASSUME StreamInit PROVE Abstract!StackInit
    OBVIOUS
  <2>1. StreamInv
    BY InitInv
  <2>2. Contents \in Seq(Byte)
    BY <2>1, ContentsType
  <2> QED
    BY <2>2 DEF StreamInit, Abstract!StackInit, Done, Abstract!Done, Contents
<1>2. StreamInv /\ [StreamNext]_streamVars => [Abstract!StackNext]_(Abstract!stackVars)
  <2> SUFFICES ASSUME StreamInv, [StreamNext]_streamVars
               PROVE  Abstract!StackNext \/ UNCHANGED Abstract!stackVars
    OBVIOUS
  <2>1. CASE \E bs \in Chunk : Write(bs)
    <3>1. PICK bs \in Chunk : Write(bs)
      BY <2>1
    <3>2. CASE WriteFits(bs)
      BY <3>1, <3>2, WritePushes DEF Abstract!StackNext
    <3>3. CASE WriteOverruns(bs)
      BY <3>3 DEF WriteOverruns, Abstract!stackVars
    <3> QED
      BY <3>1, <3>2, <3>3 DEF Write
  <2>2. CASE \/ \E n \in ReadSize : Read(n)
             \/ \E n \in {0} \cup ReadSize : ReadString(n)
             \/ Raw
    <3>1. PICK n \in 0..(SizeMod - 1) : Read(n)
      BY <2>2, ReadCases
    <3>2. Abstract!Pop(n) \/ Abstract!Refuse(n)
      BY <3>1, ReadPops, BitStreamAssumption
    <3> QED
      BY <3>2 DEF Abstract!StackNext
  <2>3. CASE DestroyStream
    BY <2>3 DEF DestroyStream, Abstract!stackVars
  <2>4. CASE UNCHANGED streamVars
    BY <2>4 DEF streamVars, Abstract!stackVars
  <2> QED
    BY <2>1, <2>2, <2>3, <2>4 DEF StreamNext
<1> QED
  BY <1>1, <1>2, StreamInvariant, PTL DEF StreamSpec, ImplementsByteStack, Abstract!StackSpec

-----------------------------------------------------------------------------
(* The packet                                                              *)

\* Where each packed field begins, and where the last one ends.
SizeOf == <<1, 1, 1, 4, 4, 4>>
Begin == <<0, 1, 2, 3, 7, 11, 15>>

\* The fields follow each other without a gap or an overlap.
LEMMA Layout ==
    /\ \A f \in 1..6 : /\ SizeOf[f] \in Nat \ {0} /\ Begin[f] \in Nat
                       /\ Begin[f + 1] = Begin[f] + SizeOf[f]
                       /\ Begin[f] + SizeOf[f] <= 15
    /\ \A f, g \in 1..6 : f < g => Begin[f] + SizeOf[f] <= Begin[g]
    /\ Begin[1] = 0 /\ Begin[7] = 15
<1>1. \A f \in 1..6 : f = 1 \/ f = 2 \/ f = 3 \/ f = 4 \/ f = 5 \/ f = 6
  OBVIOUS
<1> QED
  BY <1>1 DEF SizeOf, Begin

\* A U32 is four bytes.
LEMMA U32Bytes ==
    ASSUME NEW n \in Nat
    PROVE  U32(n) \in Seq(Byte) /\ Len(U32(n)) = 4
<1> DEFINE weight(k) == 256^k
<1>1. weight(0) = 1 /\ weight(1) = 256 /\ weight(2) = 65536 /\ weight(3) = 16777216
  OBVIOUS
<1> HIDE DEF weight
<1>2. \A i \in 1..4 : weight(i - 1) \in Nat \ {0}
  <2>1. \A i \in 1..4 : i - 1 = 0 \/ i - 1 = 1 \/ i - 1 = 2 \/ i - 1 = 3
    OBVIOUS
  <2> QED
    BY <1>1, <2>1
<1>3. ASSUME NEW i \in 1..4 PROVE (n \div weight(i - 1)) % 256 \in Byte
  <2>1. n \div weight(i - 1) \in Int
    BY <1>2
  <2>2. (n \div weight(i - 1)) % 256 \in 0..255
    BY <2>1
  <2> QED
    BY <2>2, HandShakePacketAssumption
<1> DEFINE cell(i) == (n \div weight(i - 1)) % 256
           bytes == [i \in 1..4 |-> cell(i)]
<1> HIDE DEF cell
<1>4. \A i \in 1..4 : cell(i) \in Byte
  BY <1>3 DEF cell
<1>5. bytes \in Seq(Byte) /\ Len(bytes) = 4
  BY <1>4
<1> QED
  BY <1>5 DEF U32, cell, weight

\* What packData writes in each call: bytes, as many as the field has.
LEMMA PackedTypes ==
    ASSUME NEW h \in HandShake, NEW id \in Nat
    PROVE  /\ Len(PackedFields(h, id)) = 6
           /\ \A f \in 1..6 : /\ PackedFields(h, id)[f] \in Seq(Byte)
                              /\ Len(PackedFields(h, id)[f]) = SizeOf[f]
<1>1. h.major \in Byte /\ h.minor \in Byte /\ h.revision \in Byte /\ h.build \in Nat
  BY HandShakePacketAssumption
<1>2. \A b \in Byte : U8(b) \in Seq(Byte) /\ Len(U8(b)) = 1
  BY DEF U8
<1>3. PACKET_HANDSHAKE \in Nat
  BY DEF PACKET_HANDSHAKE
<1> DEFINE a1 == U8(h.major)
           a2 == U8(h.minor)
           a3 == U8(h.revision)
           a4 == U32(h.build)
           a5 == U32(PACKET_HANDSHAKE)
           a6 == U32(id)
<1>4. /\ a1 \in Seq(Byte) /\ Len(a1) = 1 /\ a2 \in Seq(Byte) /\ Len(a2) = 1
      /\ a3 \in Seq(Byte) /\ Len(a3) = 1
      /\ a4 \in Seq(Byte) /\ Len(a4) = 4 /\ a5 \in Seq(Byte) /\ Len(a5) = 4
      /\ a6 \in Seq(Byte) /\ Len(a6) = 4
  BY <1>1, <1>2, <1>3, U32Bytes
<1>5. PackedFields(h, id) = <<a1, a2, a3, a4, a5, a6>>
  BY DEF PackedFields
<1> HIDE DEF a1, a2, a3, a4, a5, a6
<1>6. \A f \in 1..6 : f = 1 \/ f = 2 \/ f = 3 \/ f = 4 \/ f = 5 \/ f = 6
  OBVIOUS
<1> QED
  BY <1>4, <1>5, <1>6 DEF SizeOf

\* The first n packed fields of a handshake are in the array, each in its place.
HoldsPacked(d, h, id, n) ==
    \A f \in 1..n : \A b \in 1..SizeOf[f] : d[Begin[f] + b] = PackedFields(h, id)[f][b]

\* Every phase has an array as long as it is recorded to be, all written.
ArrayOK ==
    /\ mDataLength \in Nat /\ mData \in [1..mDataLength -> Cell]
    /\ \A i \in 1..mDataLength : mData[i] \in Byte
    /\ mDataPointer \in Nat /\ sLastPacketID \in Nat
    /\ phase \in {"idle", "pack", "unpack"} \cup Outcome

\* While packing, the array ends where the last packed field does.
Packing ==
    phase = "pack" =>
        /\ step \in 1..7 /\ sent \in HandShake /\ received = <<>>
        /\ mDataPointer = Begin[step] /\ mDataLength = Begin[step]
        /\ HoldsPacked(mData, sent, sLastPacketID, step - 1)

\* While unpacking and after it, what was not taken is in front of the offset.
Unpacking ==
    phase \in {"unpack"} \cup Outcome =>
        /\ step \in 1..7 /\ mDataPointer + 15 = mDataLength + Begin[8 - step]
        /\ phase = "accepted" => step = 7

\* The fields of a handshake packed here come out in the opposite order.
OwnPacket ==
    phase \in {"unpack"} \cup Outcome /\ sent # NoPacket =>
        /\ sent \in HandShake /\ sLastPacketID - 1 \in Nat /\ mDataLength = 15
        /\ HoldsPacked(mData, sent, sLastPacketID - 1, 6)
        /\ received \in Seq(Seq(Byte)) /\ Len(received) = step - 1
        /\ \A i \in 1..(step - 1) : received[i] = PackedFields(sent, sLastPacketID - 1)[7 - i]
        /\ phase \in {"unpack", "accepted"}

PacketInv == ArrayOK /\ Packing /\ Unpacking /\ OwnPacket

\* A write at the end of the array makes it longer by what is written, when the
\* length keeps that, and loses nothing.
LEMMA WriteAtEnd ==
    ASSUME ArrayOK, mDataPointer = mDataLength, NEW bs \in Seq(Byte), Len(bs) # 0, Write(bs),
           mDataLength + Len(bs) < U32Mod
    PROVE  /\ mDataLength' = mDataLength + Len(bs) /\ mDataPointer' = mDataLength'
           /\ mData' \in [1..mDataLength' -> Cell]
           /\ \A i \in 1..mDataLength : mData'[i] = mData[i]
           /\ \A i \in 1..Len(bs) : mData'[mDataLength + i] = bs[i]
<1>1. /\ Len(bs) \in Nat \ {0} /\ mDataLength \in Nat /\ mData \in [1..mDataLength -> Cell]
      /\ mDataPointer = mDataLength
  BY DEF ArrayOK
<1>2. GrownLength(mDataLength, Len(bs)) = mDataLength + Len(bs)
  BY <1>1, CutLength, BitStreamAssumption DEF GrownLength
<1>3. /\ mDataLength' = mDataLength + Len(bs) /\ mDataPointer' = mDataPointer + Len(bs)
      /\ mData' = Overwritten(Widened(mData, mDataLength'), mDataPointer, bs)
  <2>1. ~HasRoom(mDataLength, mDataPointer, Len(bs))
    BY <1>1 DEF HasRoom
  <2>2. ~Overruns(GrownLength(mDataLength, Len(bs)), Len(bs))
    BY <1>1, <1>2 DEF Overruns
  <2>3. WriteFits(bs)
    BY <2>2 DEF Write, WriteOverruns
  <2>4. WriteGrowing(bs) /\ mDataPointer' = mDataPointer + Len(bs)
    BY <2>1, <2>3 DEF WriteFits, WriteInPlace
  <2> QED
    BY <1>2, <2>4 DEF WriteGrowing
<1> DEFINE len == mDataLength + Len(bs)
           wide == Widened(mData, len)
           copied == Overwritten(wide, mDataLength, bs)
<1>4. len \in Nat /\ len >= mDataLength
  BY <1>1
<1> HIDE DEF len
<1>5. /\ wide \in [1..len -> Cell] /\ \A i \in 1..mDataLength : wide[i] = mData[i]
  BY <1>1, <1>4, WidenedType
<1> HIDE DEF wide
<1>6. /\ copied \in [1..len -> Cell]
      /\ \A i \in 1..len : i <= mDataLength => copied[i] = wide[i]
  BY <1>1, <1>4, <1>5, CopiedType
<1>7. Len(wide) = len
  BY <1>4, <1>5
<1>8. \A i \in 1..len : i > mDataLength /\ i <= mDataLength + Len(bs) => copied[i] = bs[i - mDataLength]
  BY <1>7 DEF Overwritten
<1>9. mData' = copied /\ mDataLength' = len
  BY <1>1, <1>3 DEF len, wide
<1> HIDE DEF copied
<1>10. ASSUME NEW i \in 1..mDataLength PROVE mData'[i] = mData[i]
  <2>1. i \in 1..len /\ i <= mDataLength
    BY <1>1, <1>4
  <2> QED
    BY <1>5, <1>6, <1>9, <2>1
<1>11. ASSUME NEW i \in 1..Len(bs) PROVE mData'[mDataLength + i] = bs[i]
  <2>1. /\ mDataLength + i \in 1..len /\ mDataLength + i > mDataLength
        /\ mDataLength + i <= mDataLength + Len(bs) /\ (mDataLength + i) - mDataLength = i
    BY <1>1 DEF len
  <2> QED
    BY <1>8, <1>9, <2>1
<1> QED
  BY <1>1, <1>3, <1>6, <1>9, <1>10, <1>11

\* What unpackData reads in each call is what packData wrote, last field first.
LEMMA UnpackSizes ==
    /\ Len(UnpackOrder) = 6
    /\ \A i \in 1..6 : /\ 7 - i \in 1..6 /\ FieldSize[UnpackOrder[i]] = SizeOf[7 - i]
                       /\ Begin[8 - i] = Begin[7 - i] + SizeOf[7 - i]
<1>1. \A i \in 1..6 : i = 1 \/ i = 2 \/ i = 3 \/ i = 4 \/ i = 5 \/ i = 6
  OBVIOUS
<1>2. \A i \in 1..6 : FieldSize[UnpackOrder[i]] = SizeOf[7 - i]
  BY <1>1 DEF FieldSize, UnpackOrder, SizeOf
<1>3. \A i \in 1..6 : 7 - i \in 1..6 /\ (7 - i) + 1 = 8 - i
  OBVIOUS
<1>4. Len(UnpackOrder) = 6
  BY DEF UnpackOrder
<1> QED
  BY <1>2, <1>3, <1>4, Layout

\* Nothing is packed or unpacked when the process starts.
LEMMA InitPacketInv == PacketInit => PacketInv
<1> SUFFICES ASSUME PacketInit PROVE PacketInv
  OBVIOUS
<1>1. mData = <<>> /\ mDataLength = 0 /\ mDataPointer = 0
  BY DEF PacketInit, OverArray
<1>2. mDataLength \in Nat /\ mData \in [1..mDataLength -> Cell] /\ mDataPointer \in Nat
  BY <1>1
<1>3. \A i \in 1..mDataLength : mData[i] \in Byte
  BY <1>1
<1> QED
  BY <1>2, <1>3 DEF PacketInit, PacketInv, ArrayOK, Packing, Unpacking, OwnPacket, Outcome

\* An array whose cells are all written is a sequence of bytes.
LEMMA ArrayIsSeq ==
    ASSUME NEW len \in Nat, NEW d \in [1..len -> Cell], \A i \in 1..len : d[i] \in Byte
    PROVE  d \in Seq(Byte) /\ Len(d) = len
<1>1. d \in [1..len -> Byte]
  OBVIOUS
<1> QED
  BY <1>1

\* A stream over an array of bytes.
LEMMA FreshArray ==
    ASSUME NEW data \in Seq(Byte), NEW index \in Nat, Fresh(data, index)
    PROVE  /\ mData' = data /\ mDataLength' = Len(data) /\ mDataPointer' = index
           /\ mDataLength' \in Nat /\ mData' \in [1..mDataLength' -> Cell]
           /\ \A i \in 1..mDataLength' : mData'[i] \in Byte
<1>1. mData' = data /\ mDataLength' = Len(data) /\ mDataPointer' = index
  BY DEF Fresh
<1>2. Len(data) \in Nat /\ data \in [1..Len(data) -> Byte]
  BY LenProperties
<1>3. data \in [1..Len(data) -> Cell] /\ \A i \in 1..Len(data) : data[i] \in Byte
  BY <1>2 DEF Cell
<1> QED
  BY <1>1, <1>2, <1>3

\* A handshake begins with an empty array.
LEMMA BeginSendInv ==
    ASSUME PacketInv, NEW h \in HandShake, BeginSend(h)
    PROVE  PacketInv'
<1>1. /\ Fresh(<<>>, 0) /\ phase' = "pack" /\ step' = 1 /\ sent' = h
      /\ sLastPacketID' = sLastPacketID /\ received' = <<>>
  BY DEF BeginSend
<1>2. <<>> \in Seq(Byte) /\ Len(<<>>) = 0
  BY EmptySeq
<1>3. ArrayOK' /\ mDataLength' = 0 /\ mDataPointer' = 0
  BY <1>1, <1>2, FreshArray DEF PacketInv, ArrayOK
<1>4. HoldsPacked(mData', sent', sLastPacketID', step' - 1)
  BY <1>1 DEF HoldsPacked
<1>5. Packing'
  BY <1>1, <1>3, <1>4, Layout DEF Packing
<1>6. Unpacking' /\ OwnPacket'
  BY <1>1 DEF Unpacking, OwnPacket, Outcome
<1> QED
  BY <1>3, <1>5, <1>6 DEF PacketInv

\* A packed field is behind the ones before it.
LEMMA PackFieldInv ==
    ASSUME PacketInv, PackField
    PROVE  PacketInv'
<1> DEFINE bs == PackedFields(sent, sLastPacketID)[step]
<1>1. /\ phase = "pack" /\ phase' = "pack" /\ step' = step + 1 /\ sent' = sent /\ received' = received
      /\ sLastPacketID' = sLastPacketID /\ Write(bs)
      /\ step <= Len(PackedFields(sent, sLastPacketID))
  BY DEF PackField
<1>2. /\ ArrayOK /\ step \in 1..7 /\ sent \in HandShake /\ sLastPacketID \in Nat /\ received = <<>>
      /\ mDataPointer = Begin[step] /\ mDataLength = Begin[step]
      /\ HoldsPacked(mData, sent, sLastPacketID, step - 1)
  BY <1>1 DEF PacketInv, ArrayOK, Packing
<1>3. step \in 1..6 /\ bs \in Seq(Byte) /\ Len(bs) = SizeOf[step]
  BY <1>1, <1>2, PackedTypes
<1>4. SizeOf[step] \in Nat \ {0} /\ Begin[step] \in Nat /\ Begin[step + 1] = Begin[step] + SizeOf[step]
  BY <1>3, Layout
<1>4a. Begin[step] + SizeOf[step] < U32Mod
  <2>1. Begin[step] + SizeOf[step] <= 15 /\ U32Mod \in Nat /\ U32Mod > 15
    BY <1>3, Layout, HandShakePacketAssumption, BitStreamAssumption
  <2> QED
    BY <1>4, <2>1
<1> HIDE DEF bs
<1>5. /\ mDataLength' = mDataLength + Len(bs) /\ mDataPointer' = mDataLength'
      /\ mData' \in [1..mDataLength' -> Cell]
      /\ \A i \in 1..mDataLength : mData'[i] = mData[i]
      /\ \A i \in 1..Len(bs) : mData'[mDataLength + i] = bs[i]
  BY <1>1, <1>2, <1>3, <1>4, <1>4a, WriteAtEnd
<1>6. HoldsPacked(mData', sent, sLastPacketID, step)
  <2>1. SUFFICES ASSUME NEW f \in 1..step, NEW b \in 1..SizeOf[f]
                 PROVE  mData'[Begin[f] + b] = PackedFields(sent, sLastPacketID)[f][b]
    BY DEF HoldsPacked
  <2>2. CASE f = step
    <3>1. b \in 1..Len(bs) /\ Begin[f] + b = mDataLength + b
      BY <1>2, <1>3, <2>2
    <3> QED
      BY <1>5, <2>2, <3>1 DEF bs
  <2>3. CASE f # step
    <3>1. f \in 1..6 /\ f < step /\ f \in 1..(step - 1)
      BY <1>3, <2>3
    <3>2. Begin[f] + SizeOf[f] <= Begin[step] /\ SizeOf[f] \in Nat /\ Begin[f] \in Nat
      BY <1>3, <3>1, Layout
    <3>3. Begin[f] + b \in 1..mDataLength
      BY <1>2, <1>4, <3>2
    <3>4. mData[Begin[f] + b] = PackedFields(sent, sLastPacketID)[f][b]
      BY <1>2, <3>1 DEF HoldsPacked
    <3> QED
      BY <1>5, <3>3, <3>4
  <2> QED
    BY <2>2, <2>3
<1>7. ASSUME NEW i \in 1..mDataLength' PROVE mData'[i] \in Byte
  <2>1. mDataLength \in Nat /\ Len(bs) \in Nat /\ \A k \in 1..mDataLength : mData[k] \in Byte
    BY <1>2, <1>3, LenProperties DEF ArrayOK
  <2>2. CASE i <= mDataLength
    BY <1>5, <2>1, <2>2
  <2>3. CASE ~(i <= mDataLength)
    <3>1. i - mDataLength \in 1..Len(bs) /\ mDataLength + (i - mDataLength) = i
      BY <1>5, <2>1, <2>3
    <3>2. bs[i - mDataLength] \in Byte
      BY <1>3, <3>1, ElementOfSeq
    <3> QED
      BY <1>5, <3>1, <3>2
  <2> QED
    BY <2>2, <2>3
<1>8. ArrayOK'
  <2>1. mDataLength' \in Nat
    BY <1>2, <1>3, <1>4, <1>5
  <2> QED
    BY <1>1, <1>2, <1>5, <1>7, <2>1 DEF ArrayOK
<1>9. Packing'
  <2>1. step' \in 1..7 /\ mDataLength' = Begin[step'] /\ mDataPointer' = Begin[step'] /\ step' - 1 = step
    BY <1>1, <1>2, <1>3, <1>4, <1>5
  <2> QED
    BY <1>1, <1>2, <1>6, <2>1 DEF Packing
<1>10. Unpacking' /\ OwnPacket'
  BY <1>1 DEF Unpacking, OwnPacket, Outcome
<1> QED
  BY <1>8, <1>9, <1>10 DEF PacketInv

\* What is delivered is all the fields, and nothing else.
LEMMA DeliverInv ==
    ASSUME PacketInv, Deliver
    PROVE  PacketInv'
<1>1. /\ phase = "pack" /\ step > Len(PackedFields(sent, sLastPacketID))
      /\ Fresh(mData, Len(mData)) /\ sLastPacketID' = sLastPacketID + 1
      /\ phase' = "unpack" /\ step' = 1 /\ sent' = sent /\ received' = received
  BY DEF Deliver
<1>2. /\ ArrayOK /\ step \in 1..7 /\ sent \in HandShake /\ sLastPacketID \in Nat /\ received = <<>>
      /\ mDataPointer = Begin[step] /\ mDataLength = Begin[step]
      /\ HoldsPacked(mData, sent, sLastPacketID, step - 1)
  BY <1>1 DEF PacketInv, ArrayOK, Packing
<1>3. step = 7
  <2>1. Len(PackedFields(sent, sLastPacketID)) = 6
    BY <1>2, PackedTypes
  <2> QED
    BY <1>1, <1>2, <2>1
<1>4. mDataLength = 15
  BY <1>2, <1>3, Layout
<1>5. mData \in Seq(Byte) /\ Len(mData) = mDataLength /\ mDataLength \in Nat
  BY <1>2, ArrayIsSeq DEF ArrayOK
<1>6. /\ mData' = mData /\ mDataLength' = 15 /\ mDataPointer' = 15
      /\ mData' \in [1..mDataLength' -> Cell] /\ \A i \in 1..mDataLength' : mData'[i] \in Byte
  <2>1. Fresh(mData, mDataLength)
    BY <1>1, <1>5
  <2>2. /\ mData' = mData /\ mDataLength' = mDataLength /\ mDataPointer' = mDataLength
        /\ mData' \in [1..mDataLength' -> Cell] /\ \A i \in 1..mDataLength' : mData'[i] \in Byte
    BY <1>5, <2>1, FreshArray
  <2> QED
    BY <1>4, <2>2
<1>7. ArrayOK' /\ Packing'
  <2>1. mDataLength' \in Nat /\ mDataPointer' \in Nat /\ sLastPacketID' \in Nat
    BY <1>1, <1>2, <1>6
  <2> QED
    BY <1>1, <1>6, <2>1 DEF ArrayOK, Packing
<1>8. Unpacking'
  BY <1>1, <1>6, Layout DEF Unpacking, Outcome
<1>9. OwnPacket'
  <2>1. sLastPacketID' - 1 = sLastPacketID /\ step - 1 = 6
    BY <1>1, <1>2, <1>3
  <2>2. HoldsPacked(mData', sent', sLastPacketID' - 1, 6)
    BY <1>1, <1>2, <1>6, <2>1
  <2>3. received' = <<>> /\ <<>> \in Seq(Seq(Byte)) /\ Len(<<>>) = 0 /\ step' - 1 = 0
    BY <1>1, <1>2, EmptySeq
  <2> QED
    BY <1>1, <1>2, <1>6, <2>1, <2>2, <2>3 DEF OwnPacket, Outcome
<1> QED
  BY <1>7, <1>8, <1>9 DEF PacketInv

\* A payload of another program is an array of bytes.
LEMMA ReceiveForeignInv ==
    ASSUME PacketInv, NEW payload \in ForeignPayload, ReceiveForeign(payload)
    PROVE  PacketInv'
<1>1. /\ Fresh(payload, Len(payload)) /\ phase' = "unpack" /\ step' = 1 /\ sent' = NoPacket
      /\ sLastPacketID' = sLastPacketID
  BY DEF ReceiveForeign
<1>2. payload \in Seq(Byte) /\ Len(payload) \in Nat
  BY HandShakePacketAssumption, LenProperties
<1>3. /\ mDataLength' = Len(payload) /\ mDataPointer' = Len(payload)
      /\ mDataLength' \in Nat
      /\ mData' \in [1..mDataLength' -> Cell] /\ \A i \in 1..mDataLength' : mData'[i] \in Byte
  BY <1>1, <1>2, FreshArray
<1>4. ArrayOK' /\ Packing' /\ OwnPacket'
  BY <1>1, <1>2, <1>3 DEF PacketInv, ArrayOK, Packing, OwnPacket
<1>5. Unpacking'
  BY <1>1, <1>2, <1>3, Layout DEF Unpacking, Outcome
<1> QED
  BY <1>4, <1>5 DEF PacketInv

\* What a read takes from the end of an array that is all written.
LEMMA ReadTakes ==
    ASSUME ArrayOK, mDataPointer <= mDataLength, NEW n \in Nat, n <= mDataPointer, Read(n)
    PROVE  /\ mDataPointer' = mDataPointer - n /\ mDataPointer' \in Nat /\ result'.ok
           /\ result'.bytes \in Seq(Byte) /\ Len(result'.bytes) = n
           /\ \A b \in 1..n : result'.bytes[b] = mData[mDataPointer - n + b]
           /\ mData' = mData /\ mDataLength' = mDataLength
<1>1. /\ mDataPointer' = mDataPointer - n /\ mData' = mData /\ mDataLength' = mDataLength
      /\ result' = [ok |-> TRUE, bytes |-> SubSeq(mData, mDataPointer - n + 1, mDataPointer)]
      /\ mDataPointer \in Nat /\ mDataLength \in Nat
      /\ \A i \in 1..mDataLength : mData[i] \in Byte
  BY DEF Read, WithinOffset, ArrayOK
<1>2. \A i \in (mDataPointer - n + 1)..mDataPointer : mData[i] \in Byte
  BY <1>1
<1> DEFINE from == mDataPointer - n + 1
<1>3. from \in Int /\ mDataPointer - from + 1 = n
      /\ (IF from <= mDataPointer THEN mDataPointer - from + 1 ELSE 0) = n
      /\ \A b \in 1..n : from + b - 1 = mDataPointer - n + b
  BY <1>1
<1>4. mDataPointer \in Int /\ \A i \in from..mDataPointer : mData[i] \in Byte
  BY <1>1, <1>2
<1> HIDE DEF from
<1>5. /\ SubSeq(mData, from, mDataPointer) \in Seq(Byte)
      /\ Len(SubSeq(mData, from, mDataPointer)) = n
      /\ \A b \in 1..n : SubSeq(mData, from, mDataPointer)[b] = mData[from + b - 1]
  BY <1>3, <1>4, SubSeqProperties
<1>6. mDataPointer - n \in Nat
  BY <1>1
<1> QED
  BY <1>1, <1>3, <1>5, <1>6 DEF from

\* A field is taken, the type is looked at, or the read is refused.
LEMMA UnpackFieldInv ==
    ASSUME PacketInv, UnpackField
    PROVE  PacketInv'
<1> DEFINE n == FieldSize[UnpackOrder[step]]
<1>1. /\ phase = "unpack" /\ step <= Len(UnpackOrder) /\ ~Ignored /\ ~Refused /\ Read(n)
      /\ sent' = sent /\ sLastPacketID' = sLastPacketID
      /\ IF result'.ok
         THEN received' = Append(received, result'.bytes) /\ step' = step + 1 /\ phase' = phase
         ELSE phase' = "out_of_range" /\ received' = received /\ step' = step
  BY DEF UnpackField
<1>2. /\ ArrayOK /\ step \in 1..6 /\ mDataPointer + 15 = mDataLength + Begin[8 - step]
      /\ 7 - step \in 1..6 /\ n = SizeOf[7 - step] /\ Begin[8 - step] = Begin[7 - step] + n
  BY <1>1, UnpackSizes DEF PacketInv, Unpacking
<1> DEFINE from == Begin[7 - step]
<1> HIDE DEF n, from
<1>3. /\ mDataPointer \in Nat /\ mDataLength \in Nat /\ n \in Nat \ {0} /\ from \in Nat
      /\ from + n <= 15 /\ mDataPointer + 15 = mDataLength + (from + n)
  <2>1. \A f \in 1..6 : Begin[f] + SizeOf[f] <= 15
    <3>1. \A f \in 1..6 : f = 6 \/ (f < 6 /\ 6 \in 1..6)
      OBVIOUS
    <3>2. 6 \in 1..6 /\ 6 + 1 = 7
      OBVIOUS
    <3>3. Begin[6] + SizeOf[6] = 15
      BY <3>2, Layout
    <3>4. SizeOf[6] \in Nat /\ Begin[6] \in Nat
      BY <3>2, Layout
    <3>5. ASSUME NEW f \in 1..6, f < 6 PROVE Begin[f] + SizeOf[f] <= 15
      <4>1. Begin[f] + SizeOf[f] <= Begin[6] /\ Begin[f] \in Nat /\ SizeOf[f] \in Nat
        BY <3>2, <3>5, Layout
      <4> QED
        BY <3>3, <3>4, <4>1
    <3> QED
      BY <3>1, <3>3, <3>5
  <2>2. n \in Nat \ {0} /\ from \in Nat
    BY <1>2, Layout DEF from
  <2>3. from + n <= 15 /\ mDataPointer + 15 = mDataLength + (from + n)
    BY <1>2, <2>1 DEF from
  <2>4. mDataPointer \in Nat /\ mDataLength \in Nat
    BY <1>2 DEF ArrayOK
  <2> QED
    BY <2>2, <2>3, <2>4
<1>4. CASE n <= mDataPointer
  <2>1. /\ mDataPointer' = mDataPointer - n /\ mDataPointer' \in Nat /\ result'.ok
        /\ result'.bytes \in Seq(Byte) /\ Len(result'.bytes) = n
        /\ \A b \in 1..n : result'.bytes[b] = mData[mDataPointer - n + b]
        /\ mData' = mData /\ mDataLength' = mDataLength
    <3>1. mDataPointer <= mDataLength
      BY <1>2, <1>3
    <3> QED
      BY <1>1, <1>2, <1>3, <1>4, <3>1, ReadTakes
  <2>2. /\ received' = Append(received, result'.bytes) /\ step' = step + 1 /\ phase' = "unpack"
    BY <1>1, <2>1
  <2>3. ArrayOK' /\ Packing'
    BY <1>1, <1>2, <2>1, <2>2 DEF ArrayOK, Packing
  <2>4. Unpacking'
    <3>1. step' \in 1..7 /\ 8 - step' = 7 - step
      BY <1>2, <2>2
    <3>2. mDataPointer' + 15 = mDataLength' + from
      BY <1>3, <2>1
    <3> QED
      BY <2>2, <3>1, <3>2 DEF Unpacking, from
  <2>5. OwnPacket'
    <3> SUFFICES ASSUME sent' # NoPacket PROVE OwnPacket'
      BY DEF OwnPacket
    <3> DEFINE id == sLastPacketID - 1
               packed == PackedFields(sent, id)
    <3>1. /\ sent \in HandShake /\ id \in Nat /\ mDataLength = 15
          /\ HoldsPacked(mData, sent, id, 6)
          /\ received \in Seq(Seq(Byte)) /\ Len(received) = step - 1
          /\ \A i \in 1..(step - 1) : received[i] = packed[7 - i]
      BY <1>1 DEF PacketInv, OwnPacket
    <3>2. packed[7 - step] \in Seq(Byte) /\ Len(packed[7 - step]) = n
      BY <1>2, <3>1, PackedTypes
    <3>3. mDataPointer - n = from
      BY <1>3, <3>1
    <3>4. \A b \in 1..n : mData[from + b] = packed[7 - step][b]
      BY <1>2, <3>1 DEF HoldsPacked, from
    <3> HIDE DEF packed, id
    <3>5. result'.bytes = packed[7 - step]
      <4>1. \A b \in 1..n : result'.bytes[b] = packed[7 - step][b]
        BY <2>1, <3>3, <3>4
      <4> QED
        BY <2>1, <3>2, <4>1, SeqEqual
    <3>6. /\ received' \in Seq(Seq(Byte)) /\ Len(received') = (step - 1) + 1
          /\ \A i \in 1..(step - 1) : received'[i] = received[i]
          /\ received'[(step - 1) + 1] = result'.bytes
      BY <2>1, <2>2, <3>1, AppendProperties
    <3>7. ASSUME NEW i \in 1..step PROVE received'[i] = packed[7 - i]
      <4>1. CASE i = step
        BY <1>2, <3>5, <3>6, <4>1
      <4>2. CASE i # step
        <5>1. i \in 1..(step - 1)
          BY <1>2, <4>2
        <5> QED
          BY <3>1, <3>6, <5>1
      <4> QED
        BY <4>1, <4>2
    <3>8. step' - 1 = step /\ (step - 1) + 1 = step
      BY <1>2, <2>2
    <3> QED
      BY <1>1, <2>1, <2>2, <3>1, <3>6, <3>7, <3>8 DEF OwnPacket, packed, id
  <2> QED
    BY <2>3, <2>4, <2>5 DEF PacketInv
<1>5. CASE ~(n <= mDataPointer)
  <2>1. /\ result' = OutOfRange /\ mDataPointer' = mDataPointer
        /\ mData' = mData /\ mDataLength' = mDataLength
    BY <1>1, <1>5 DEF Read, WithinOffset
  <2>2. phase' = "out_of_range" /\ received' = received /\ step' = step
    BY <1>1, <2>1 DEF OutOfRange
  <2>3. sent = NoPacket
    BY <1>1, <1>2, <1>3, <1>5 DEF PacketInv, OwnPacket
  <2>4. ArrayOK' /\ Packing' /\ OwnPacket'
    BY <1>1, <1>2, <2>1, <2>2, <2>3 DEF ArrayOK, Packing, OwnPacket, Outcome
  <2>5. Unpacking'
    BY <1>1, <1>2, <2>1, <2>2 DEF Unpacking
  <2> QED
    BY <2>4, <2>5 DEF PacketInv
<1> QED
  BY <1>4, <1>5

\* The values a handshake of this program is compared by are those it packed.
LEMMA OwnIsHandShake ==
    ASSUME PacketInv, phase = "unpack", sent # NoPacket
    PROVE  ~Ignored /\ ~Refused
<1>1. mDataLength = 15
  BY DEF PacketInv, OwnPacket
<1>2. ~Refused
  BY <1>1 DEF Refused, TooSmall, getMinimumPacketPayloadLength
<1>3. step = 3 => received[2] = PackedFields(sent, sLastPacketID - 1)[5]
  <2>1. \A i \in 1..(step - 1) : received[i] = PackedFields(sent, sLastPacketID - 1)[7 - i]
    BY DEF PacketInv, OwnPacket
  <2>2. step = 3 => 2 \in 1..(step - 1) /\ 7 - 2 = 5
    OBVIOUS
  <2> QED
    BY <2>1, <2>2
<1>4. PackedFields(sent, sLastPacketID - 1)[5] = U32(PACKET_HANDSHAKE)
  BY DEF PackedFields
<1> QED
  BY <1>2, <1>3, <1>4 DEF Ignored, IsHandShake

\* The outcome of an own packet is that it is accepted.
LEMMA FinishInv ==
    ASSUME PacketInv, Finish
    PROVE  PacketInv'
<1>1. /\ phase = "unpack" /\ phase' \in Outcome
      /\ (phase' = "accepted") => step > Len(UnpackOrder)
      /\ phase' # "accepted" => Ignored \/ Refused
      /\ UNCHANGED <<mData, mDataLength, mDataPointer, step, sent, received, sLastPacketID>>
  BY DEF Finish, Outcome, streamVars
<1>2. step \in 1..7 /\ (phase' = "accepted" => step = 7)
  BY <1>1, UnpackSizes DEF PacketInv, Unpacking
<1>3. ArrayOK' /\ Packing'
  BY <1>1 DEF PacketInv, ArrayOK, Packing, Outcome
<1>4. Unpacking'
  BY <1>1, <1>2 DEF PacketInv, Unpacking, Outcome
<1>5. OwnPacket'
  BY <1>1, OwnIsHandShake DEF PacketInv, OwnPacket, Outcome
<1> QED
  BY <1>3, <1>4, <1>5 DEF PacketInv

\* Every step keeps the invariant.
LEMMA PacketNextInv == PacketInv /\ [PacketNext]_packetVars => PacketInv'
<1> SUFFICES ASSUME PacketInv, [PacketNext]_packetVars PROVE PacketInv'
  OBVIOUS
<1>1. CASE NextPacket
  BY <1>1 DEF NextPacket, PacketInv, ArrayOK, Packing, Unpacking, OwnPacket, Outcome, streamVars
<1>2. CASE UNCHANGED packetVars
  BY <1>2 DEF packetVars, streamVars, PacketInv, ArrayOK, Packing, Unpacking, OwnPacket, Outcome
<1> QED
  BY <1>1, <1>2, BeginSendInv, PackFieldInv, DeliverInv, ReceiveForeignInv, UnpackFieldInv,
     FinishInv DEF PacketNext

\* In every state of every process the invariant holds, whatever arrives and
\* however many packets are sent.
LEMMA PacketInductive == PacketSpec => []PacketInv
BY InitPacketInv, PacketNextInv, PTL DEF PacketSpec

\* For all payloads other programs may send: no handshake is accepted from fewer
\* than its fifteen bytes, although the length check lets shorter ones through
\* (HandShake.hpp:52-61).
THEOREM AcceptedHasAllFields == PacketSpec => []AcceptedIsComplete
<1>1. PacketInv => AcceptedIsComplete
  <2> SUFFICES ASSUME PacketInv, phase = "accepted" PROVE mDataLength >= 15
    BY DEF AcceptedIsComplete
  <2>1. mDataPointer + 15 = mDataLength + Begin[8 - 7] /\ mDataPointer \in Nat /\ mDataLength \in Nat
    BY DEF PacketInv, ArrayOK, Unpacking, Outcome
  <2>2. 8 - 7 = 1
    OBVIOUS
  <2> QED
    BY <2>1, <2>2, Layout
<1> QED
  BY <1>1, PacketInductive, PTL

\* Each write makes the array grow by its own size, from its end: no byte handed
\* to ENet is memory that nobody wrote (BitStream.cpp:53-68).
THEOREM SentBytesAreWritten == PacketSpec => []NoJunkOnTheWire
<1>1. PacketInv => NoJunkOnTheWire
  BY DEF PacketInv, ArrayOK, NoJunkOnTheWire
<1> QED
  BY <1>1, PacketInductive, PTL

\* Every handshake, of whatever version and with whatever identifier, that this
\* program packs is accepted by its receive handler with the values packed
\* (HandShake.hpp:42-61, PacketBase.hpp:44-59).
THEOREM HandShakeRoundTrip == PacketSpec => []RoundTrip
<1>1. PacketInv => RoundTrip
  <2> SUFFICES ASSUME PacketInv, phase \in Outcome, sent # NoPacket
               PROVE  /\ phase = "accepted" /\ mDataPointer = 0
                      /\ Field("major") = U8(sent.major) /\ Field("minor") = U8(sent.minor)
                      /\ Field("revision") = U8(sent.revision) /\ Field("build") = U32(sent.build)
                      /\ Field("type") = U32(PACKET_HANDSHAKE)
                      /\ Field("id") = U32(sLastPacketID - 1)
    BY DEF RoundTrip
  <2>1. phase = "accepted" /\ step = 7
    BY DEF PacketInv, OwnPacket, Unpacking, Outcome
  <2>2. mDataPointer = 0
    <3>1. mDataPointer + 15 = 15 + Begin[8 - 7] /\ mDataPointer \in Nat
      BY <2>1 DEF PacketInv, ArrayOK, Unpacking, OwnPacket, Outcome
    <3>2. 8 - 7 = 1
      OBVIOUS
    <3> QED
      BY <3>1, <3>2, Layout
  <2>3. \A i \in 1..6 : received[i] = PackedFields(sent, sLastPacketID - 1)[7 - i]
    BY <2>1 DEF PacketInv, OwnPacket, Outcome
  <2>4. /\ received[1] = U32(sLastPacketID - 1) /\ received[2] = U32(PACKET_HANDSHAKE)
        /\ received[3] = U32(sent.build) /\ received[4] = U8(sent.revision)
        /\ received[5] = U8(sent.minor) /\ received[6] = U8(sent.major)
    BY <2>3 DEF PackedFields
  <2>5. \A i \in 1..Len(UnpackOrder) : i = 1 \/ i = 2 \/ i = 3 \/ i = 4 \/ i = 5 \/ i = 6
    BY UnpackSizes
  <2>6. /\ Field("id") = received[1] /\ Field("type") = received[2]
        /\ Field("build") = received[3] /\ Field("revision") = received[4]
        /\ Field("minor") = received[5] /\ Field("major") = received[6]
    BY <2>5, UnpackSizes DEF Field, UnpackOrder
  <2> QED
    BY <2>1, <2>2, <2>4, <2>6
<1> QED
  BY <1>1, PacketInductive, PTL
=============================================================================
