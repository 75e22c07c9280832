-------------------------- MODULE MCBitStreamTests --------------------------
(* What the comments say of readString and of the array that a stream is   *)
(* given, against what the code does.                                      *)
EXTENDS BitStream

CONSTANT a

MCByte == {a, NUL}
MCChunk == {<<a>>, <<a, NUL>>}

-----------------------------------------------------------------------------
\* With a length of zero readString() is said to find where the string ends
\* (BitStream.cpp:136): reading right after writeString() answers the string.
StringReadBack ==
    [][ (/\ ReadString(0)
         /\ mDataPointer >= 2
         /\ SubSeq(mData, mDataPointer - 1, mDataPointer) = <<a, NUL>>)
        => result'.ok /\ result'.bytes # <<>> ]_streamVars

\* "The Kiaro::Support::BitStream code will delete the input array upon deletion
\* of itself or if it needs to readjust its array length"
\* (BitStream.hpp:36-37).
InputArrayIsDeleted ==
    [][inputArray = "used" /\ (destroyed' # destroyed \/ mDataLength' # mDataLength)
        => inputArray' = "deleted"]_streamVars
=============================================================================
