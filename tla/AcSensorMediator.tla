-------------------------- MODULE AcSensorMediator --------------------------
(***************************************************************************)
(* AcSensorMediator: publishes the sensors of one serial port as D-Bus     *)
(* services, and ends the process when there is nothing to publish         *)
(* (ac_sensor_mediator.cpp, the life of AcSensorBridge, and the            *)
(* connections main.cpp makes).  Each sensor goes through the life cycle   *)
(* that its AcSensorUpdater promises; settings change over D-Bus.          *)
(*                                                                         *)
(* A bridge is an AcSensorBridge object, with what it published once and   *)
(* for all when it was made.  The item of a service outlives its bridges:  *)
(* a bridge brings it online when it is made, and takes it offline when it *)
(* is deleted (dbus_bridge.cpp:26,100), whoever else made one of the same  *)
(* name.                                                                   *)
(***************************************************************************)
EXTENDS AcSensorSettings, FiniteSets

CONSTANTS
    Addresses,      \* slave addresses, 1 and 2 in the code
    Meters          \* the meters that may be found there

ASSUME MediatorAssumption ==
    Meters \subseteq [serial : Serials, multiphase : BOOLEAN]

VARIABLES
    sensors,        \* by address: AcSensor, its settings and its bridges
    searches,       \* by address: the sensors searched ever since it was lost
    deviceIds,      \* mDeviceIds
    storedIds,      \* the setting CGwacs/DeviceIds
    running         \* the process has not been asked to quit

vars == <<sensors, searches, deviceIds, storedIds, running>>

Bridges  == [secondary : BOOLEAN, role : Roles \cup {NoRole}, phases : 1 .. 3]
Services == [secondary : BOOLEAN, role : Roles \cup {NoRole}]

Sensors == [
    connection : {"Disconnected", "Searched", "Detected", "Connected"},
    pvConnection : {"Disconnected", "Connected"},
    hasSettings : BOOLEAN,
    settings : Settings,
    measuring : BOOLEAN,            \* startMeasurements has been called
    bridges : SUBSET Bridges,
    online : SUBSET Services]

NoSettings == NewSettings(NoSerial, FALSE)
NewSensor ==
    [connection |-> "Searched", pvConnection |-> "Disconnected", hasSettings |-> FALSE,
     settings |-> NoSettings, measuring |-> FALSE, bridges |-> {}, online |-> {}]

(* The updater of the sensor at an address.                                *)
Updater(a) == INSTANCE AcSensorLifecycle WITH
    connection <- sensors[a].connection,
    pvConnection <- sensors[a].pvConnection,
    hasSettings <- sensors[a].hasSettings

-----------------------------------------------------------------------------
(* Making and deleting bridges.                                            *)
Service(bridge) == [secondary |-> bridge.secondary, role |-> bridge.role]

deleteBridges(o, bridges) ==
    [o EXCEPT !.bridges = @ \ bridges,
              !.online = @ \ {Service(bridge) : bridge \in bridges}]

MainBridges(o) == {bridge \in o.bridges : ~bridge.secondary}

(* The bridges that the settings call for.                                 *)
BridgesFor(s) ==
    {[secondary |-> FALSE, role |-> s.role, phases |-> phaseCount(s)]}
        \cup IF s.piggyEnabled
             THEN {[secondary |-> TRUE, role |-> s.l2Role, phases |-> 1]}
             ELSE {}

publishSensor(o, s) ==
    [o EXCEPT !.bridges = @ \cup BridgesFor(s),
              !.online = @ \cup {Service(bridge) : bridge \in BridgesFor(s)}]

\* Mutation: the old bridges are deleted when the new ones have been made.
onServiceTypeChangedLate(o, s) ==
    IF MainBridges(o) = {} THEN o
    ELSE deleteBridges(publishSensor(o, s), o.bridges)

(* The slot of the settings' signals, which finds the settings s.          *)
onServiceTypeChanged(o, s) ==
    IF MainBridges(o) = {} THEN o
    ELSE publishSensor(deleteBridges(o, o.bridges), s)

(* A setter is called.  The slot runs once for each signal; each time it   *)
(* replaces all bridges, so that those of the last signal remain.          *)
changeSettings(o, call) ==
    LET changed == [o EXCEPT !.settings = call.settings]
    IN  IF call.heard = <<>> THEN changed
        ELSE onServiceTypeChanged(changed, call.heard[Len(call.heard)])

-----------------------------------------------------------------------------
(* The slots of the sensor's connection state.                             *)

\* Mutation: the list is not read.
LoadedIdsForgotten == deviceIds

(* registerDevice: the list is read before the first meter is added.       *)
LoadedIds == IF deviceIds = {} THEN storedIds ELSE deviceIds
registerDevice(serial) ==
    /\ deviceIds' = LoadedIds \cup {serial}
    /\ storedIds' = IF serial \in LoadedIds THEN storedIds ELSE deviceIds'

(* onDeviceFound, with the settings that the updater has made.             *)
onDeviceFound(o, m) ==
    [o EXCEPT !.connection = "Detected", !.hasSettings = TRUE,
              !.settings = setIsMultiphase(Call(NewSettings(m.serial, m.multiphase)),
                                           m.multiphase).settings]

(* onDeviceInitialized; the sensor on L2 is Connected just after.          *)
onDeviceInitialized(o) ==
    [publishSensor(o, o.settings) EXCEPT !.connection = "Connected",
                                         !.pvConnection = "Connected"]

(* onConnectionLost: the bridge of the sensor is deleted.  The settings    *)
(* have been deleted before, and with them the bridge of the sensor on L2  *)
(* will be, by deleteLater.                                                *)
loseConnection(o) ==
    [deleteBridges(o, MainBridges(o)) EXCEPT
        !.connection = "Disconnected", !.pvConnection = "Disconnected",
        !.hasSettings = FALSE, !.settings = NoSettings, !.measuring = FALSE]

-----------------------------------------------------------------------------
Init ==
    /\ sensors = [a \in Addresses |-> NewSensor]
    /\ searches = [a \in Addresses |-> {}]
    /\ deviceIds = {}
    /\ storedIds = {}
    /\ running = TRUE

(* The search for the sensor at an address is over, for the others.        *)
EndSearch(a) == [b \in Addresses |-> searches[b] \ {a}]

Searched(a) == sensors[a].connection = "Searched"
OnBus(serial) == \E a \in Addresses : sensors[a].hasSettings /\ sensors[a].settings.serial = serial

DeviceFound(a) ==
    /\ running
    /\ \E m \in Meters :
          /\ ~OnBus(m.serial)
          /\ sensors' = [sensors EXCEPT ![a] = onDeviceFound(@, m)]
          /\ Updater(a)!Detect
          /\ registerDevice(m.serial)
    /\ searches' = EndSearch(a)
    /\ UNCHANGED running

(* All settings have arrived: startMeasurements, once.                     *)
DeviceSettingsInitialized(a) ==
    /\ running
    /\ sensors[a].connection = "Detected"
    /\ ~sensors[a].measuring
    /\ sensors' = [sensors EXCEPT ![a].measuring = TRUE]
    /\ UNCHANGED <<searches, deviceIds, storedIds, running>>

DeviceInitialized(a) ==
    /\ running
    /\ sensors[a].measuring
    /\ sensors' = [sensors EXCEPT ![a] = onDeviceInitialized(@)]
    /\ Updater(a)!Connect
    /\ UNCHANGED <<searches, deviceIds, storedIds, running>>

\* Mutation: the wrong state is tested.
AllSearched == \A a \in Addresses : sensors[a].connection = "Searched"

(* connectionLost quits the application when no sensor is connected,       *)
(* detected or searched at that moment.                                    *)
AllDisconnected == \A a \in Addresses : sensors[a].connection = "Disconnected"

ConnectionLost(a) ==
    /\ running
    /\ sensors' = [sensors EXCEPT ![a] = loseConnection(@)]
    /\ Updater(a)!Lose
    /\ searches' = [EndSearch(a) EXCEPT ![a] = {b \in Addresses \ {a} : Searched(b)}]
    /\ running' = ~AllDisconnected'
    /\ UNCHANGED <<deviceIds, storedIds>>

(* The event loop deletes what was left to deleteLater, and much later the *)
(* timer of the updater runs out (15 s, 30 s with Zigbee).                 *)
Doomed(o) == IF o.hasSettings THEN {} ELSE o.bridges

DeferredDelete(a) ==
    /\ running
    /\ Doomed(sensors[a]) # {}
    /\ sensors' = [sensors EXCEPT ![a] = deleteBridges(@, Doomed(@))]
    /\ UNCHANGED <<searches, deviceIds, storedIds, running>>

SearchAgain(a) ==
    /\ running
    /\ Doomed(sensors[a]) = {}
    /\ sensors' = [sensors EXCEPT ![a].connection = "Searched"]
    /\ Updater(a)!Search
    /\ searches' = [searches EXCEPT ![a] = {}]
    /\ UNCHANGED <<deviceIds, storedIds, running>>

(* A value arrives from the settings service, or is written to a service   *)
(* that is published.                                                      *)
SettingChanged(a) ==
    /\ running
    /\ sensors[a].hasSettings
    /\ \E call \in Calls(sensors[a].settings) :
          sensors' = [sensors EXCEPT ![a] = changeSettings(@, call)]
    /\ UNCHANGED <<searches, deviceIds, storedIds, running>>

(* The serial port is unplugged: serialEvent quits the application.        *)
SerialEvent ==
    /\ running
    /\ running' = FALSE
    /\ UNCHANGED <<sensors, searches, deviceIds, storedIds>>

(* Another process is started for the port; what is stored remains.        *)
Restart ==
    /\ ~running
    /\ sensors' = [a \in Addresses |-> NewSensor]
    /\ searches' = [a \in Addresses |-> {}]
    /\ deviceIds' = {}
    /\ running' = TRUE
    /\ UNCHANGED storedIds

Found == \E a \in Addresses : DeviceFound(a)

Next ==
    \/ Found \/ SerialEvent \/ Restart
    \/ \E a \in Addresses :
          \/ DeviceSettingsInitialized(a) \/ DeviceInitialized(a) \/ ConnectionLost(a)
          \/ DeferredDelete(a) \/ SearchAgain(a) \/ SettingChanged(a)

Spec == Init /\ [][Next]_vars

-----------------------------------------------------------------------------
TypeOK ==
    /\ sensors \in [Addresses -> Sensors]
    /\ searches \in [Addresses -> SUBSET Addresses]
    /\ deviceIds \in SUBSET Serials
    /\ storedIds \in SUBSET Serials
    /\ running \in BOOLEAN

(* What is on D-Bus is what the sensors are: a sensor that is Connected    *)
(* has the services its settings call for now, under their current names   *)
(* and with the current number of phases; another has none, except that of *)
(* L2 until the event loop has deleted it.  This whatever the order of     *)
(* changes, and although a service is replaced by one of the same name.    *)
ServicesMatchSensors ==
    \A a \in Addresses :
        LET o == sensors[a]
        IN  /\ o.online = {Service(bridge) : bridge \in o.bridges}
            /\ o.connection = "Connected" => o.bridges = BridgesFor(o.settings)
            /\ o.connection # "Connected" =>
                  \A bridge \in o.bridges : bridge.secondary /\ ~o.hasSettings

(* Whatever setter is called, with whatever value, the slots it runs find  *)
(* settings in which a PV inverter on L2 excludes more than one phase, and *)
(* if the settings are not what they were, the slots have seen the result: *)
(* the updater sets up the meter for it, the services show it.  (The older *)
(* setting isMultiphase may change without consequence.)                   *)
Visible(s) == [s EXCEPT !.isMultiphase = FALSE, !.phaseCount = phaseCount(s)]
ListenersInformed ==
    \A a \in Addresses : sensors[a].hasSettings =>
        \A call \in Calls(sensors[a].settings) :
            LET heard == call.heard
            IN  /\ \A n \in DOMAIN heard : Consistent(heard[n])
                /\ \/ Visible(call.settings) = Visible(sensors[a].settings)
                   \/ heard # <<>> /\ heard[Len(heard)] = call.settings

(* A meter that has been found stays in the list of devices, also when the *)
(* process is started again.                                               *)
DevicesRemembered ==
    [][ /\ storedIds \subseteq storedIds'
        /\ \A a \in Addresses :
              sensors'[a].hasSettings => sensors'[a].settings.serial \in storedIds' ]_vars

(* "It is important for dbus-cgwacs to terminate if it is not talking to a *)
(* Carlo Gavazzi meter" (README.md:73).  connectionLost is only emitted    *)
(* when all sensors are Disconnected at the same moment, though each of    *)
(* them is searched again and again.  They do not miss one another: when   *)
(* no meter is found any more, and each search ends (the updater's         *)
(* DeadMeterIsLost) before a timer started later than it has run out, the  *)
(* process quits.                                                          *)
Overtakes == \E a \in Addresses : SearchAgain(a) /\ searches[a] # {}
TerminatesWithoutMeter ==
    /\ <>[][~Found /\ ~Overtakes]_vars
    /\ \A a \in Addresses : []<>(sensors[a].connection = "Disconnected")
    => []<>~running
=============================================================================
