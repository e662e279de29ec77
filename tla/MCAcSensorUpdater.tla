-------------------------- MODULE MCAcSensorUpdater --------------------------
(***************************************************************************)
(* Instances of AcSensorUpdater for TLC: the meters on the bus.  A set of  *)
(* meters holds one meter of a type in every configuration it may be found *)
(* in.  An EM24 has no measurement mode; the others have no application    *)
(* and no front selector; only an ET340 or EM300 may have reverse energy   *)
(* registers for each phase.                                               *)
(***************************************************************************)
EXTENDS AcSensorUpdater

Systems == {MeasurementSystemP1, MeasurementSystemP2, MeasurementSystemP3}

Em24Meters ==
    [id : {71}, reverse : {FALSE}, locked : BOOLEAN, application : {0, ApplicationH},
     system : Systems, mode : {MeasurementModeB}]

ModernMeters(ids, reverse) ==
    [id : ids, reverse : reverse, locked : {FALSE}, application : {ApplicationH},
     system : Systems, mode : {MeasurementModeB, MeasurementModeC}]

Et112Meters    == ModernMeters({102}, {FALSE})
Et340Meters    == ModernMeters({340}, BOOLEAN)
Em300S27Meters == ModernMeters({338}, {FALSE})
Em540Meters    == ModernMeters({1744}, {FALSE})
UnknownMeters  == {m \in ModernMeters({0, 999}, {FALSE}) :
                       m.system = MeasurementSystemP3 /\ m.mode = MeasurementModeB}

(* One meter of each type that has to be set up in every respect.          *)
WrongMode(id) == IF id = 1744 THEN MeasurementModeB ELSE MeasurementModeC
Misconfigured(meters) ==
    {m \in meters : /\ m.system = MeasurementSystemP2
                    /\ m.application = 0 \/ m.mode = WrongMode(m.id)
                    /\ ~m.reverse}

(* Every type of meter, as it comes out of its box.  A connection that is  *)
(* lost and found again shows each of them when it has been set up.        *)
AllMeters ==
    Misconfigured(Em24Meters \cup Et112Meters \cup Em300S27Meters \cup Em540Meters)
        \cup {m \in Et340Meters : m.system = MeasurementSystemP2 /\ m.mode = MeasurementModeC}
        \cup UnknownMeters

StaleMeters == Misconfigured(Et340Meters \cup Em540Meters)
MisconfiguredMeters ==
    Misconfigured(Em24Meters \cup Et112Meters \cup Et340Meters \cup Em540Meters)
=============================================================================
