------------------------- MODULE MCAcSensorMediator -------------------------
(* Two meters, one of each kind, at two addresses.                         *)
EXTENDS AcSensorMediator

TwoMeters == {[serial |-> "three", multiphase |-> TRUE], [serial |-> "one", multiphase |-> FALSE]}
=============================================================================
