------------------------- MODULE MCAcquisitionSweep -------------------------
(***************************************************************************)
(* The instances of AcSensorUpdater, with the history of their sweeps.     *)
(***************************************************************************)
EXTENDS MCAcSensorUpdater, AcquisitionSweep
=============================================================================
