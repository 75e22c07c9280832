-------------------------- MODULE MCSupportClasses --------------------------
(* SupportClasses for model checking: the texts that strings are made of,  *)
(* and for streams writes of one, two and three bytes, one of them a       *)
(* string.                                                                 *)
EXTENDS SupportClasses

CONSTANTS a, b

SomeBytes == {a, b, NUL}
SomeChunks == {<<a>>, <<b>>, <<b, NUL>>, <<a, a, b>>}
SomeTexts == {<<>>, <<a>>, <<b, b>>}
=============================================================================
