---------------------------- MODULE PacketRealign ----------------------------
(***************************************************************************)
(* How UdCapHandV1PacketRealignmentHelper (src/UdCapV1Core.cpp:76-163) cuts *)
(* the byte stream of a receiver into packets.  Two matchers see every byte: *)
(* one for the glove's frames and one for the frames of Control Module 2.0. *)
(*                                                                          *)
(*   170 85 address command type length data[length] crc                    *)
(*   0xA6 length (two bytes) data[length] crc (two bytes) 0x6A              *)
(*                                                                          *)
(* The stream comes as chunks: whole, cut and damaged frames, single bytes.  *)
(* Both matchers append to one vector; the order of a glove's packet and a   *)
(* module's is left out.                                                    *)
(***************************************************************************)
EXTENDS Integers, Sequences, SequencesExt

CONSTANTS Chunks,      \* what may come next: non-empty sequences of bytes
          MaxChunks,   \* bound of the model: how many of them come
          WordMod      \* remainedLength is an unsigned modulo WordMod (2^32)

Bytes == 0 .. 255
ASSUME ChunksAssumption == \A c \in Chunks : c \in Seq(Bytes) /\ c # <<>>
ASSUME WordModAssumption == WordMod \in Nat /\ WordMod > 255
ASSUME MaxChunksAssumption == MaxChunks \in Nat

VARIABLES
  stateMachine, packetBuffer, remainedLength,   \* the matcher of glove frames
  packets,                                      \* what it has handed up, in order
  a6Buffer, a6Length,                           \* the matcher of module frames
  a6Packets,                                    \* what that one has handed up
  stream,      \* history: the bytes so far
  rest,        \* bytes of the current chunk still to come
  chunks       \* how many chunks have come

gloveVars == <<stateMachine, packetBuffer, remainedLength>>
a6Vars == <<a6Buffer, a6Length>>
vars == <<gloveVars, a6Vars, packets, a6Packets, stream, rest, chunks>>

\* The header states, in order; each takes one byte and goes on to the next.
Header == <<"PACKET_HEADER_ADDRESS", "PACKET_HEADER_COMMAND_TYPE",
            "PACKET_HEADER_DATA_TYPE", "PACKET_HEADER_GET_LENGTH", "PACKET_TRANSFER">>
HeaderAt(i) == stateMachine = Header[i]

\* Every variable has its type, and the buffers hold no more than their frames.
TypeOK ==
  /\ stateMachine \in {"NOOP", "GET_170", "PACKET_CRC"} \cup ToSet(Header)
  /\ packetBuffer \in Seq(Bytes)
  /\ remainedLength \in 0 .. WordMod - 1
  /\ a6Buffer \in Seq(Bytes) /\ Len(a6Buffer) < 518
  /\ a6Length \in -1 .. 512
  /\ {packets, a6Packets} \subseteq Seq(Seq(Bytes))
  /\ {stream, rest} \subseteq Seq(Bytes)
  /\ chunks \in 0 .. MaxChunks
  /\ stateMachine \in {"NOOP", "GET_170"} \/ Len(packetBuffer) >= 2

Init ==
  /\ stateMachine = "NOOP" /\ packetBuffer = <<>> /\ remainedLength = 0
  /\ a6Buffer = <<>> /\ a6Length = -1
  /\ packets = <<>> /\ a6Packets = <<>> /\ stream = <<>> /\ rest = <<>>
  /\ chunks = 0

-----------------------------------------------------------------------------
(* What a byte does to the matchers.                                        *)

\* Over all but the two header bytes and the last.
CRC(p) == FoldLeft(LAMBDA a, b : a + b, 0, SubSeq(p, 3, Len(p) - 1)) % 256

\* processA6Byte.
Oversized_Never(length) == FALSE   \* mutant: any length is believed
Oversized(length) == length > 512

A6Byte(b) ==
  \/ /\ a6Buffer = <<>>
     /\ a6Buffer' = IF b = 166 THEN <<b>> ELSE <<>>
     /\ UNCHANGED a6Length
  \/ /\ Len(a6Buffer) = 1
     /\ a6Buffer' = Append(a6Buffer, b)
     /\ UNCHANGED a6Length
  \/ /\ Len(a6Buffer) = 2
     /\ LET length == a6Buffer[2] * 256 + b
        IN  /\ a6Length' = IF Oversized(length) THEN -1 ELSE length
            /\ a6Buffer' = IF Oversized(length) THEN <<>> ELSE Append(a6Buffer, b)
  \/ /\ Len(a6Buffer) > 2
     /\ LET ends == Len(a6Buffer) + 1 >= a6Length + 6
        IN  /\ a6Buffer' = IF ends THEN <<>> ELSE Append(a6Buffer, b)
            /\ a6Length' = IF ends THEN -1 ELSE a6Length

\* The module frame that byte b ends, if any.
A6Ended_AnyEnd(b) ==   \* mutant: the last byte is not looked at
  IF Len(a6Buffer) > 2 /\ Len(a6Buffer) + 1 = a6Length + 6
  THEN <<Append(a6Buffer, b)>> ELSE <<>>
A6Ended(b) ==
  IF Len(a6Buffer) > 2 /\ Len(a6Buffer) + 1 = a6Length + 6 /\ b = 106
  THEN <<Append(a6Buffer, b)>> ELSE <<>>

\* processPacket, for one byte.
Search(b) ==
  \/ /\ stateMachine = "NOOP"
     /\ stateMachine' = IF b = 170 THEN "GET_170" ELSE "NOOP"
     /\ UNCHANGED <<packetBuffer, remainedLength>>
  \/ /\ stateMachine = "GET_170"
     /\ stateMachine' = IF b = 85 THEN Header[1] ELSE "NOOP"
     /\ packetBuffer' = IF b = 85 THEN <<170, 85>> ELSE packetBuffer
     /\ UNCHANGED remainedLength

HeaderByte(b) ==
  \E i \in 1 .. 4 :
     /\ HeaderAt(i)
     /\ stateMachine' = Header[i + 1]
     /\ packetBuffer' = Append(packetBuffer, b)
     /\ remainedLength' = IF i = 4 THEN b ELSE remainedLength

\* A length of zero counts down through WordMod - 1.
OneLess(n) == IF n = 0 THEN WordMod - 1 ELSE n - 1
LastOne_Early(n) == OneLess(n) <= 1   \* mutant: a byte of the data is left to the crc
LastOne(n) == OneLess(n) = 0

DataByte(b) ==
  /\ stateMachine = "PACKET_TRANSFER"
  /\ packetBuffer' = Append(packetBuffer, b)
  /\ remainedLength' = OneLess(remainedLength)
  /\ stateMachine' = IF LastOne(remainedLength) THEN "PACKET_CRC" ELSE stateMachine

CrcByte ==
  /\ stateMachine = "PACKET_CRC"
  /\ stateMachine' = "NOOP"
  /\ packetBuffer' = <<>>
  /\ UNCHANGED remainedLength

\* The glove frame that byte b ends, if any.
Ended(b) ==
  IF stateMachine = "PACKET_CRC" /\ CRC(Append(packetBuffer, b)) = b
  THEN <<Append(packetBuffer, b)>> ELSE <<>>

-----------------------------------------------------------------------------
\* The receiver (external) begins the next chunk.
NextChunk(c) ==
  /\ rest = <<>>
  /\ chunks < MaxChunks
  /\ chunks' = chunks + 1
  /\ rest' = c
  /\ UNCHANGED <<gloveVars, a6Vars, packets, a6Packets, stream>>

ProcessByte ==
  /\ rest # <<>>
  /\ LET b == Head(rest)
     IN  /\ A6Byte(b)
         /\ Search(b) \/ HeaderByte(b) \/ DataByte(b) \/ CrcByte
         /\ packets' = packets \o Ended(b)
         /\ a6Packets' = a6Packets \o A6Ended(b)
         /\ stream' = Append(stream, b)
  /\ rest' = Tail(rest)
  /\ UNCHANGED chunks

Next == (\E c \in Chunks : NextChunk(c)) \/ ProcessByte

Spec == Init /\ [][Next]_vars

-----------------------------------------------------------------------------
(* What it amounts to, without states: where a frame may start in the stream  *)
(* s, it starts, and the search goes on behind it.                           *)

\* The last position of the glove frame at i: a length of zero means WordMod.
GloveLast(s, i) == i + 6 + (IF s[i + 5] = 0 THEN WordMod ELSE s[i + 5])

\* The glove frames from position i on, given those from the later ones.  A 170
\* that no 85 follows takes the byte behind it along, a second 170 too.
GloveFrom(s, later, i) ==
  IF i >= Len(s) THEN <<>>
  ELSE IF s[i] # 170 THEN later[i + 1]
  ELSE IF s[i + 1] # 85 THEN later[i + 2]
  ELSE IF i + 5 > Len(s) \/ GloveLast(s, i) > Len(s) THEN <<>>
  ELSE (IF CRC(SubSeq(s, i, GloveLast(s, i))) = s[GloveLast(s, i)]
        THEN <<SubSeq(s, i, GloveLast(s, i))>> ELSE <<>>) \o later[GloveLast(s, i) + 1]

GloveFramesFrom(s) ==
  LET from[i \in 1 .. Len(s) + 2] == GloveFrom(s, from, i) IN from

\* The module frames from position i on; one that does not end in 0x6A, or says
\* it is longer than 512, is passed over.
ModuleLength(s, i) == s[i + 1] * 256 + s[i + 2]
ModuleLast(s, i) == i + 5 + ModuleLength(s, i)

ModuleFrom(s, later, i) ==
  IF i + 2 > Len(s) THEN <<>>
  ELSE IF s[i] # 166 THEN later[i + 1]
  ELSE IF ModuleLength(s, i) > 512 THEN later[i + 3]
  ELSE IF ModuleLast(s, i) > Len(s) THEN <<>>
  ELSE (IF s[ModuleLast(s, i)] = 106
        THEN <<SubSeq(s, i, ModuleLast(s, i))>> ELSE <<>>) \o later[ModuleLast(s, i) + 1]

ModuleFramesFrom(s) ==
  LET from[i \in 1 .. Len(s) + 1] == ModuleFrom(s, from, i) IN from

\* The glove's packets are exactly the glove frames of the stream, whatever
\* noise, module frames and damaged frames stand between them (99-163).
PacketsAreFrames == packets = GloveFramesFrom(stream)[1]

\* The module's packets are exactly the module frames of the stream, whatever
\* the glove's matcher makes of the same bytes: "a second, independent matcher
\* over every byte" (UdCapV1Core.cpp:70-75).
ModulePacketsAreFrames == a6Packets = ModuleFramesFrom(stream)[1]
=============================================================================
