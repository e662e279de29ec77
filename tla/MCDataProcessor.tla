--------------------------- MODULE MCDataProcessor ---------------------------
(***************************************************************************)
(* Phases that consume or feed back one unit of power.                     *)
(***************************************************************************)
EXTENDS DataProcessor

SomePowers == {-1, 1}
=============================================================================
