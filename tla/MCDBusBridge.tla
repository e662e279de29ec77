---------------------------- MODULE MCDBusBridge ----------------------------
(***************************************************************************)
(* Roles with and without a second item for the current of L1.             *)
(***************************************************************************)
EXTENDS DBusBridge

MeterRoles == {"grid", "pvinverter"}
ChargerRoles == {"grid", "evcharger"}
=============================================================================
