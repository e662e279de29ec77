-------------------------- MODULE AcSensorSettings --------------------------
(***************************************************************************)
(* AcSensorSettings: what the user has chosen for a meter                  *)
(* (ac_sensor_settings.cpp).  Its setters call one another, and emit       *)
(* signals on the way; a slot runs at once and sees the settings half way  *)
(* through the change.  A setter is an operator on a call: the settings as *)
(* they are, and those that the slots of AcSensorUpdater and               *)
(* AcSensorMediator have found, one after the other.                       *)
(***************************************************************************)
EXTENDS Integers, Sequences

CONSTANTS
    Serials,    \* serial numbers of meters
    Roles       \* the values of ClassAndVrmInstance the user may choose

NoSerial == ""
NoRole == ""

Settings == [
    serial : Serials \cup {NoSerial},
    supportMultiphase : BOOLEAN,
    isMultiphase : BOOLEAN,         \* mIsMultiphase, the older setting
    phaseCount : 0 .. 3,            \* mPhaseCount, 0 when it is not set
    piggyEnabled : BOOLEAN,         \* a PV inverter is measured on L2
    role : Roles \cup {NoRole},     \* mClassAndVrmInstance
    l2Role : Roles \cup {NoRole}]   \* mL2ClassAndVrmInstance

NewSettings(serial, supportMultiphase) ==
    [serial |-> serial, supportMultiphase |-> supportMultiphase, isMultiphase |-> FALSE,
     phaseCount |-> 0, piggyEnabled |-> FALSE, role |-> NoRole, l2Role |-> NoRole]

(* The number of phases in use.                                            *)
phaseCount(s) ==
    IF ~s.supportMultiphase THEN 1
    ELSE IF s.phaseCount > 0 THEN s.phaseCount
    ELSE IF s.isMultiphase THEN 3 ELSE 1

-----------------------------------------------------------------------------
Call(s) == [settings |-> s, heard |-> <<>>]

(* One of the signals phaseCountChanged, piggyEnabledChanged,              *)
(* classAndVrmInstanceChanged and l2ClassAndVrmInstanceChanged.  The other *)
(* signals of the class only publish the value of a property.              *)
emit(call) == [call EXCEPT !.heard = Append(@, call.settings)]

disablePiggy(call) ==
    IF call.settings.piggyEnabled
    THEN emit([call EXCEPT !.settings.piggyEnabled = FALSE])
    ELSE call

\* Mutation: the slots hear of the phases before the PV inverter is disabled.
updatePhaseCountFirst(call, oldPhaseCount) ==
    LET n == phaseCount(call.settings)
    IN  IF n = oldPhaseCount THEN call
        ELSE IF n > 1 THEN disablePiggy(emit(call)) ELSE emit(call)

updatePhaseCount(call, oldPhaseCount) ==
    LET n == phaseCount(call.settings)
    IN  IF n = oldPhaseCount THEN call
        ELSE emit(IF n > 1 THEN disablePiggy(call) ELSE call)

(* A value that is not new changes nothing here: the phase count is the    *)
(* old one.                                                                *)
setIsMultiphase(call, b) ==
    updatePhaseCount([call EXCEPT !.settings.isMultiphase = b], phaseCount(call.settings))

Bounded(n) == IF n < 0 THEN 0 ELSE IF n > 3 THEN 3 ELSE n

setPhaseCount(call, n) ==
    updatePhaseCount([call EXCEPT !.settings.phaseCount = Bounded(n)],
                     phaseCount(call.settings))

enablePiggy(call) ==
    LET single == setIsMultiphase([call EXCEPT !.settings.piggyEnabled = TRUE], FALSE)
    IN  emit(IF single.settings.phaseCount > 1 THEN setPhaseCount(single, 1) ELSE single)

setPiggyEnabled(call, b) ==
    IF call.settings.piggyEnabled = b THEN call
    ELSE IF b THEN enablePiggy(call) ELSE disablePiggy(call)

setClassAndVrmInstance(call, role) ==
    IF call.settings.role = role THEN call
    ELSE emit([call EXCEPT !.settings.role = role])

setL2ClassAndVrmInstance(call, role) ==
    IF call.settings.l2Role = role THEN call
    ELSE emit([call EXCEPT !.settings.l2Role = role])

(* The calls by which a value that arrives over D-Bus gets into the        *)
(* settings; a number of phases is not checked before.                     *)
PhaseCountInputs == -1 .. 4
Calls(s) ==
    {setIsMultiphase(Call(s), b) : b \in BOOLEAN}
        \cup {setPhaseCount(Call(s), n) : n \in PhaseCountInputs}
        \cup {setPiggyEnabled(Call(s), b) : b \in BOOLEAN}
        \cup {setClassAndVrmInstance(Call(s), role) : role \in Roles}
        \cup {setL2ClassAndVrmInstance(Call(s), role) : role \in Roles}

(* With a PV inverter on L2, the meter itself measures one phase.          *)
Consistent(s) == s.piggyEnabled => phaseCount(s) = 1
=============================================================================
