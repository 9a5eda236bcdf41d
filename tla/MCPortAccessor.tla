--------------------------- MODULE MCPortAccessor ---------------------------
(* PortAccessor as it is: it has no constants.                              *)
EXTENDS PortAccessor
=============================================================================
