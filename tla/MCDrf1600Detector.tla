------------------------- MODULE MCDrf1600Detector -------------------------
(***************************************************************************)
(* Converters as they are delivered, used before, and at a baud rate that  *)
(* the tool does not try.                                                  *)
(***************************************************************************)
EXTENDS Drf1600Detector

AllBauds == {9600, 38400, 115200}
=============================================================================
