------------------------------ MODULE MCWatchdog ------------------------------
(* Watchdog with the times of its cfg file, the code's own.                   *)
EXTENDS Watchdog
=============================================================================
