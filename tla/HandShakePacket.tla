-------------------------- MODULE HandShakePacket --------------------------
(***************************************************************************)
(* The one packet the program exchanges, Packets::HandShake on top of      *)
(* Network::PacketBase: packed field by field into an empty BitStream,     *)
(* sent as raw() and length(), and unpacked in the opposite order from a   *)
(* BitStream over the received bytes.  The other end may be this program   *)
(* or any program that speaks ENet, so payloads of every length arrive.    *)
(***************************************************************************)
EXTENDS BitStream

CONSTANTS HandShake,      \* the [major, minor, revision, build] sent here
          ForeignPayload, \* payloads other programs send
          NoPacket,       \* what is sent when the payload is another program's
          MaxPackets      \* bound on the packets one process packs

\* The version numbers are U8s, the build a U32; what arrives is bytes.
ASSUME HandShakePacketAssumption ==
    /\ 0..255 \subseteq Byte /\ MaxPackets \in Nat
    /\ HandShake \subseteq [major : 0..255, minor : 0..255, revision : 0..255, build : Nat]
    /\ ForeignPayload \subseteq Seq(Byte)
    /\ U32Mod > 15 \* a handshake has fifteen bytes

VARIABLES phase,        \* "idle", "pack", "unpack" or how the unpacking ended
          step,         \* the next field to pack or to unpack
          sent,         \* the handshake this program packed, or NoPacket
          received,     \* the fields unpacked so far
          sLastPacketID \* PacketBase::packData's static counter

packetVars == <<streamVars, phase, step, sent, received, sLastPacketID>>

PACKET_HANDSHAKE == 3

\* A U32 as x86 lays it out in memory.
U32(n) == [i \in 1..4 |-> (n \div (256^(i - 1))) % 256]
U8(n) == <<n>>

\* What packData writes, call by call: HandShake's part, then PacketBase's.
PackedFields(h, id) ==
    <<U8(h.major), U8(h.minor), U8(h.revision), U32(h.build),
      U32(PACKET_HANDSHAKE), U32(id)>>

\* Mutants of UnpackOrder: two members swapped, and one left out.
BugUnpackSwapped == <<"id", "type", "build", "revision", "major", "minor">>
BugUnpackShort == <<"id", "type", "build", "revision", "minor">>

\* What unpackData reads, call by call: PacketBase's part, then HandShake's.
UnpackOrder == <<"id", "type", "build", "revision", "minor", "major">>
FieldSize == [id |-> 4, type |-> 4, build |-> 4, revision |-> 1, minor |-> 1, major |-> 1]

\* HandShake's own fields; the eight bytes of PacketBase are not counted.
getMinimumPacketPayloadLength == 4 + 3 * 1
TooSmall(length) == length <= getMinimumPacketPayloadLength

Fresh(data, index) ==
    /\ mData' = data /\ mDataLength' = Len(data) /\ mDataPointer' = index
    /\ mIsManagingMemory' = FALSE /\ owned' = 0
    /\ inputArray' = IF data = <<>> THEN "none" ELSE "used"
    /\ destroyed' = FALSE /\ overrun' = FALSE /\ result' = Done

PacketInit ==
    /\ OverArray(<<>>, 0) /\ destroyed = FALSE /\ overrun = FALSE /\ result = Done
    /\ phase = "idle" /\ step = 1 /\ sent = NoPacket /\ received = <<>>
    /\ sLastPacketID = 0

-----------------------------------------------------------------------------
(* send: pack into an empty stream and hand raw() and length() to ENet     *)

BeginSend(h) ==
    /\ phase = "idle" /\ sLastPacketID < MaxPackets
    /\ Fresh(<<>>, 0)
    /\ phase' = "pack" /\ step' = 1 /\ sent' = h
    /\ received' = <<>>
    /\ UNCHANGED sLastPacketID

PackField ==
    /\ phase = "pack" /\ step <= Len(PackedFields(sent, sLastPacketID))
    /\ Write(PackedFields(sent, sLastPacketID)[step])
    /\ step' = step + 1
    /\ UNCHANGED <<phase, sent, received, sLastPacketID>>

\* The last field is packed, the identifier used up; the packet ENet copies
\* is the whole array, and the receiver builds a stream over it.
Deliver ==
    /\ phase = "pack" /\ step > Len(PackedFields(sent, sLastPacketID))
    /\ Fresh(mData, Len(mData))
    /\ sLastPacketID' = sLastPacketID + 1
    /\ phase' = "unpack" /\ step' = 1
    /\ UNCHANGED <<sent, received>>

\* A payload of another program arrives instead.
ReceiveForeign(payload) ==
    /\ phase = "idle"
    /\ Fresh(payload, Len(payload))
    /\ phase' = "unpack" /\ step' = 1 /\ sent' = NoPacket /\ received' = <<>>
    /\ UNCHANGED sLastPacketID

-----------------------------------------------------------------------------
(* onReceivePacket: PacketBase::unpackData, the switch on the type, and    *)
(* HandShake::unpackData                                                   *)

IsHandShake == received[2] = U32(PACKET_HANDSHAKE)

\* After the two fields of PacketBase the handler looks at the type and the
\* handshake at the length, before the next read.
Ignored == step = 3 /\ ~IsHandShake
Refused == step = 3 /\ IsHandShake /\ TooSmall(mDataLength)

UnpackField ==
    /\ phase = "unpack" /\ step <= Len(UnpackOrder) /\ ~Ignored /\ ~Refused
    /\ Read(FieldSize[UnpackOrder[step]])
    /\ IF result'.ok
       THEN /\ received' = Append(received, result'.bytes)
            /\ step' = step + 1
            /\ UNCHANGED phase
       ELSE /\ phase' = "out_of_range"
            /\ UNCHANGED <<received, step>>
    /\ UNCHANGED <<sent, sLastPacketID>>

Finish ==
    /\ phase = "unpack"
    /\ phase' = CASE step > Len(UnpackOrder) -> "accepted"
                  [] Ignored -> "ignored"
                  [] Refused -> "too_small"
                  [] OTHER -> phase
    /\ phase' # phase
    /\ UNCHANGED <<streamVars, step, sent, received, sLastPacketID>>

Outcome == {"accepted", "ignored", "too_small", "out_of_range"}

\* The packet is dealt with; the process goes on to the next one.
NextPacket ==
    /\ phase \in Outcome
    /\ phase' = "idle" /\ step' = 1
    /\ UNCHANGED <<streamVars, sent, received, sLastPacketID>>

PacketNext ==
    \/ \E h \in HandShake : BeginSend(h)
    \/ PackField
    \/ Deliver
    \/ \E payload \in ForeignPayload : ReceiveForeign(payload)
    \/ UnpackField
    \/ Finish
    \/ NextPacket

PacketSpec == PacketInit /\ [][PacketNext]_packetVars

-----------------------------------------------------------------------------
(* Properties                                                              *)

Field(name) == received[CHOOSE i \in 1..Len(UnpackOrder) : UnpackOrder[i] = name]

\* A handshake this program packed is accepted by its own receive handler,
\* leaves nothing in the stream and is unpacked with the values packed: the
\* reads of unpackData mirror the writes of packData across the two classes
\* (HandShake.hpp:42-61, PacketBase.hpp:44-59).
RoundTrip ==
    phase \in Outcome /\ sent # NoPacket =>
        /\ phase = "accepted" /\ mDataPointer = 0
        /\ Field("major") = U8(sent.major) /\ Field("minor") = U8(sent.minor)
        /\ Field("revision") = U8(sent.revision) /\ Field("build") = U32(sent.build)
        /\ Field("type") = U32(PACKET_HANDSHAKE)
        /\ Field("id") = U32(sLastPacketID - 1)

\* The packet handed to ENet is raw() for length() bytes, taken from a stream
\* that grew write by write: no byte of it is uninitialised memory.
NoJunkOnTheWire == phase = "unpack" => \A i \in 1..mDataLength : mData[i] \in Byte

\* No handshake is accepted from fewer bytes than it has fields for, whatever
\* the length check of unpackData lets through.
AcceptedIsComplete == phase = "accepted" => mDataLength >= 15
=============================================================================
