------------------------ MODULE MCServerCalibration ------------------------
(* ServerCalibration with the cores and commands of its cfg files.          *)
EXTENDS ServerCalibration
=============================================================================
