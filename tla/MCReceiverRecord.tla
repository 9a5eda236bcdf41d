---------------------------- MODULE MCReceiverRecord ----------------------------
(* ReceiverRecord with one hand and bytes of one bit in words of two.         *)
EXTENDS ReceiverRecord
=============================================================================
