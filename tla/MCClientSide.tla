---------------------------- MODULE MCClientSide ----------------------------
(* ClientSide for model checking: payloads of every length from nothing to *)
(* one byte more than a handshake, with and without the type of a          *)
(* handshake in its place.                                                 *)
EXTENDS ClientSide

AllBytes == 0..255
SomeHandShakes == {[major |-> 1, minor |-> 2, revision |-> 3, build |-> 4],
                   [major |-> 3, minor |-> 0, revision |-> 255, build |-> 16909060]}

\* n bytes whose last eight are the type and the identifier, when they fit
Payload(n, type) ==
    [i \in 1..n |-> IF i \in (n - 7)..(n - 4) THEN U32(type)[i - (n - 8)] ELSE 9]
ForeignPayloads == {Payload(n, type) : n \in 0..16, type \in {0, PACKET_HANDSHAKE}}
OneChunk == {<<0>>}
=============================================================================
