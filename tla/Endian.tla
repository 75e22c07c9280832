------------------------------- MODULE Endian -------------------------------
(***************************************************************************)
(* The byte swaps of support/EndianUtilities.hpp, in the C form of the     *)
(* default build, without BUILD_ASM.  A word is the sequence of its bytes, *)
(* least significant first; a mask and a shift move one byte by a number   *)
(* of places.                                                              *)
(***************************************************************************)
EXTENDS Integers, Sequences

CONSTANT Beyond     \* what malloc has after the copy of SwapEndianArbitrary

VARIABLES word,     \* bytes, named by the place they had at first
          swaps     \* history: an even or odd number of swaps so far
endianVars == <<word, swaps>>

\* The shifts of the masks for the first byte, the second and so on, in bytes.
\* Mutant: the bytes in the middle keep their place.
BugShifts(n) == CASE n = 2 -> <<1, -1>> [] n = 4 -> <<3, 0, 0, -3>> [] n = 8 -> <<7, 5, 3, 0, 0, -3, -5, -7>>
Shifts(n) == CASE n = 2 -> <<1, -1>> [] n = 4 -> <<3, 1, -1, -3>> [] n = 8 -> <<7, 5, 3, 1, -1, -3, -5, -7>>

Swapped(w) ==
    [k \in 1..Len(w) |-> w[CHOOSE i \in 1..Len(w) : i + Shifts(Len(w))[i] = k]]

Reversed(w) == [k \in 1..Len(w) |-> w[Len(w) + 1 - k]]

EndianInit == word \in {[k \in 1..n |-> k] : n \in {2, 4, 8}} /\ swaps = 0

\* By reference or of a copy; a float is swapped as the integer it overlays.
SwapEndian == word' = Swapped(word) /\ swaps' = 1 - swaps

\* Place i is given byte size - i of the copy: the first one is past its end.
SwapEndianArbitrary ==
    /\ word' = [k \in 1..Len(word) |-> IF k = 1 THEN Beyond ELSE word[Len(word) + 2 - k]]
    /\ swaps' = 1 - swaps

EndianNext == SwapEndian \/ SwapEndianArbitrary

EndianSpec == EndianInit /\ [][EndianNext]_endianVars

-----------------------------------------------------------------------------
(* Properties                                                              *)

\* Masks and shifts together reverse a word of each width, no byte doubled or
\* dropped, and twice give it back, until SwapEndianArbitrary has brought in a
\* byte from outside of its copy (EndianUtilities.hpp:20-148).
SwapsReverse ==
    LET original == [k \in 1..Len(word) |-> k]
    IN  (\A k \in 1..Len(word) : word[k] # Beyond) =>
            word = IF swaps = 0 THEN original ELSE Reversed(original)
=============================================================================
