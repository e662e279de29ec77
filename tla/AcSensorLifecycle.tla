-------------------------- MODULE AcSensorLifecycle --------------------------
(***************************************************************************)
(* What AcSensorUpdater promises about an AcSensor (ac_sensor_updater.h:   *)
(* 22-72, ac_sensor.h:10-15): the order in which the connection states     *)
(* follow each other, and that the settings object exists exactly from     *)
(* Detected until the sensor is Disconnected.  The sensor of the PV        *)
(* inverter on L2 is Connected and Disconnected together with the sensor.  *)
(* AcSensorUpdater implements this specification.                          *)
(***************************************************************************)
VARIABLES
    connection,     \* AcSensor::connectionState of the sensor
    pvConnection,   \* and of its companion for the PV inverter
    hasSettings     \* settings() is not null

lifecycleVars == <<connection, pvConnection, hasSettings>>

(* The search begins in the constructor, before anyone can listen.         *)
Init ==
    /\ connection = "Searched"
    /\ pvConnection = "Disconnected"
    /\ hasSettings = FALSE

Detect ==
    /\ connection = "Searched"
    /\ connection' = "Detected"
    /\ hasSettings' = TRUE
    /\ UNCHANGED pvConnection

Connect ==
    /\ connection = "Detected"
    /\ connection' = "Connected"
    /\ pvConnection' = "Connected"
    /\ UNCHANGED hasSettings

Lose ==
    /\ connection # "Disconnected"
    /\ connection' = "Disconnected"
    /\ pvConnection' = "Disconnected"
    /\ hasSettings' = FALSE

Search ==
    /\ connection = "Disconnected"
    /\ connection' = "Searched"
    /\ UNCHANGED <<pvConnection, hasSettings>>

Next == Detect \/ Connect \/ Lose \/ Search

Spec == Init /\ [][Next]_lifecycleVars
=============================================================================
