--------------------------- MODULE MCPacketRealign ---------------------------
(* PacketRealign with a stream of glove frames, module frames, cut and       *)
(* damaged ones, and the single bytes that look like their beginnings.       *)
EXTENDS PacketRealign

Glove     == <<170, 85, 1, 3, 0, 2, 170, 85, 5>>          \* header bytes as data
Glove2    == <<170, 85, 1, 4, 0, 1, 166, 172>>            \* 0xA6 as data
BadCrc    == <<170, 85, 1, 3, 0, 1, 0, 9>>
NoLength  == <<170, 85, 1, 3, 0, 0>>
Cut       == <<170, 85, 1, 3>>
Module    == <<166, 0, 1, 7, 0, 0, 106>>
BadModule == <<166, 0, 0, 0, 0, 1>>
Oversize  == <<166, 3, 0>>

MCChunks == {Glove, Glove2, BadCrc, NoLength, Cut, Module, BadModule, Oversize,
             <<170>>, <<85>>, <<166>>, <<0>>}
=============================================================================
