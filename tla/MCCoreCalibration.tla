-------------------------- MODULE MCCoreCalibration --------------------------
(* CoreCalibration on the instance of CoreCalibration.cfg.                   *)
EXTENDS CoreCalibration
=============================================================================
