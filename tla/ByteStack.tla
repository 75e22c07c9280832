----------------------------- MODULE ByteStack -----------------------------
(***************************************************************************)
(* What a Kiaro::Support::BitStream promises its users (the packet classes *)
(* and the entity classes): a stack of bytes.  What is written last is     *)
(* read first, a read that asks for more than the stream holds is refused  *)
(* without losing anything, and a read returns exactly what was written.   *)
(***************************************************************************)
EXTENDS Naturals, Sequences

CONSTANTS Byte,      \* the values a byte can have
          Chunk,     \* the byte sequences the program writes in one call
          SizeMod    \* one more than the largest size_t

VARIABLES stack,     \* the bytes written and not yet read
          result     \* what the last call answered

stackVars == <<stack, result>>

Answer == [ok : BOOLEAN, bytes : Seq(Byte)]
Done == [ok |-> TRUE, bytes |-> <<>>]
OutOfRange == [ok |-> FALSE, bytes |-> <<>>]

Push(bs) ==
    /\ stack' = stack \o bs
    /\ result' = Done

Pop(n) ==
    /\ n <= Len(stack)
    /\ stack' = SubSeq(stack, 1, Len(stack) - n)
    /\ result' = [ok |-> TRUE, bytes |-> SubSeq(stack, Len(stack) - n + 1, Len(stack))]

Refuse(n) ==
    /\ n > Len(stack)
    /\ result' = OutOfRange
    /\ UNCHANGED stack

StackInit ==
    /\ stack \in Seq(Byte)
    /\ result = Done

StackNext ==
    \/ \E bs \in Chunk : Push(bs)
    \/ \E n \in 0..(SizeMod - 1) : Pop(n) \/ Refuse(n)

StackSpec == StackInit /\ [][StackNext]_stackVars
=============================================================================
