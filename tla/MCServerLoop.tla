---------------------------- MODULE MCServerLoop ----------------------------
(* ServerLoop on the instance of its cfg file.                              *)
EXTENDS ServerLoop

\* Requests below and above what the modules take, with and without amplitude.
SomePulses == {[index |-> -1, duration |-> 30], [index |-> 2, duration |-> 70000]}
SomeForces == {[strength |-> 12, amplitude |-> 0, freq |-> 0],
               [strength |-> 0, amplitude |-> 130, freq |-> 70000]}
=============================================================================
