---------------------------- MODULE MCProbedPort ----------------------------
(* ProbedPort with the queue of its cfg file.                                *)
EXTENDS ProbedPort
=============================================================================
