--------------------------- MODULE AcSensorUpdater ---------------------------
(***************************************************************************)
(* AcSensorUpdater: the state engine that finds one Carlo Gavazzi meter on *)
(* the bus, identifies it, configures it, and then measures for ever       *)
(* (ac_sensor_updater.cpp).  The members of the C++ object, and of the     *)
(* AcSensor it fills, are the fields of the record `updater`; each method  *)
(* is an operator from the object before the call to the object after it,  *)
(* so that every handler includes the startNextAction it ends with.        *)
(*                                                                         *)
(* The Modbus driver appears here by what it promises: a request is        *)
(* answered once, by its reply or by an error.  With StaleReplies the      *)
(* promise is weaker, as with the Zigbee adapters of the comment at        *)
(* ac_sensor_updater.cpp:59: the reply to a request that timed out can     *)
(* still arrive and be taken for the reply to the next one.                *)
(***************************************************************************)
EXTENDS CommandTables, FiniteSets, FiniteSetsExt

CONSTANTS
    MaxTimeoutCount,    \* 5 in the code
    MaxErrorCount,      \* 20 in the code
    Meters,             \* the meters, with their settings, that may be on the bus
    UserModes,          \* the measuring modes the user may choose
    StaleReplies        \* may late replies be taken for later requests?

(* A meter: what it is, whether it has per-phase reverse energy registers, *)
(* its front selector (EM24), and the configuration registers that the     *)
(* updater writes.                                                         *)
MeterModels == [id : Nat, reverse : BOOLEAN, locked : BOOLEAN,
                application : Nat, system : Nat, mode : Nat]

ASSUME UpdaterAssumption ==
    /\ MaxTimeoutCount \in Nat
    /\ MaxErrorCount \in Nat
    /\ Meters \subseteq MeterModels
    /\ UserModes \subseteq Modes
    /\ StaleReplies \in BOOLEAN

VARIABLES
    updater,    \* the AcSensorUpdater with its AcSensor and AcSensorSettings
    meter,      \* the registers of the meter on the bus
    late        \* the timed-out request whose reply may still arrive

vars == <<updater, meter, late>>

-----------------------------------------------------------------------------
(* Constants of the code.                                                  *)
MeasurementSystemP1 == 3
MeasurementSystemP2 == 2
MeasurementSystemP3 == 0
MeasurementModeB == 1
MeasurementModeC == 2
ApplicationH == 7

RegDeviceId == \h000B
RegPhaseReverseEnergy == \h0060
RegEm300PhaseSequence == \h0032
RegEm24PhaseSequence == \h0036
RegEm540PhaseSequence == \h010E
RegFirmwareVersion == \h0302
RegAltFirmwareVersion == \h0303
RegEm24FrontSelector == \h0304
RegEm300MeasurementSystem == \h1002
RegApplication == \h1101
RegMeasurementSystem == \h1102
RegEm112MeasurementMode == \h1103
RegEm24Serial == \h1300
RegEm112Serial == \h5000

(* Protocols whose setup is CheckMeasurementMode, CheckMeasurementSystem.  *)
Em300Family == {"Et340", "Em300", "Em540", "Em300S27"}

IdentifyStates == {"DeviceId", "PhaseReverseEnergy", "Serial", "FirmwareVersion",
                   "PhaseSequence"}
SetupStates == {"CheckSetup", "CheckFrontSelector", "WaitFrontSelector", "SetApplication",
                "CheckMeasurementMode", "SetMeasurementMode",
                "CheckMeasurementSystem", "SetMeasuringSystem"}
MeasureStates == {"Acquisition", "Wait"}
States == IdentifyStates \cup SetupStates \cup MeasureStates
              \cup {"WaitForStart", "WaitOnConnectionLost"}

ConnectionStates == {"Disconnected", "Searched", "Detected", "Connected"}

(* A request on the bus: arg is the register count of a read and the value *)
(* of a write.                                                             *)
Requests == [op : {"none", "read", "write"}, reg : Nat, arg : Nat]
NoRequest == [op |-> "none", reg |-> 0, arg |-> 0]

(* "garbage": mProtocolType has no initial value, and is read before it    *)
(* gets one when the first device type reported is 0 (ac_sensor.cpp:30).   *)
InitialProtocols == Protocols \cup {"garbage"}

Updaters == [
    state : States,
    deviceType : Nat,
    protocol : InitialProtocols,
    settings : Modes \cup {"none"},          \* mSettings: its mode, or null
    connection : ConnectionStates,
    pvConnection : ConnectionStates,         \* of mAcPvSensor
    errorCode : {0, 1},                      \* 1: front selector locked
    timeoutCount : Nat,
    errorCount : Nat,
    setupRequested : BOOLEAN,
    application : Nat,
    measuringSystem : Nat,
    desiredMeasuringSystem : Nat,
    table : TableNames \cup {"none"},        \* mCommands, mCommandCount
    commandIndex : Nat,
    acquisitionIndex : Nat,
    request : Requests,                      \* what it waits for from the bus
    timer : BOOLEAN,                         \* mAcquisitionTimer is running
    fault : {"none", "nullSettings", "assert"}] \* what ended the process

-----------------------------------------------------------------------------
(* Asking something of the bus, and starting the acquisition timer.        *)
readRegisters(u, reg, count) ==
    [u EXCEPT !.request = [op |-> "read", reg |-> reg, arg |-> count]]
writeRegister(u, reg, value) ==
    [u EXCEPT !.request = [op |-> "write", reg |-> reg, arg |-> value]]
startTimer(u) == [u EXCEPT !.timer = TRUE]

(* A member function of *mSettings is called: a null pointer ends the      *)
(* process, otherwise the handler goes on and gives `next`.                *)
WithSettings(u, next) ==
    IF u.settings = "none" THEN [u EXCEPT !.fault = "nullSettings"] ELSE next

(* Q_ASSERT.                                                               *)
Asserting(u, condition, next) ==
    IF condition THEN next ELSE [u EXCEPT !.fault = "assert"]

(* Mutant: the protocol is determined once, for the first meter.           *)
setDeviceTypeOnce(u, type) ==
    IF u.deviceType # 0 THEN u
    ELSE [u EXCEPT !.deviceType = type, !.protocol = ProtocolOf(type)]

setDeviceType(u, type) ==
    IF type = u.deviceType THEN u
    ELSE [u EXCEPT !.deviceType = type, !.protocol = ProtocolOf(type)]

(* The configuration the settings call for.                                *)
DesiredApplicationSystem(mode) ==
    IF mode \in {"multi", "piggy"} THEN MeasurementSystemP3 ELSE MeasurementSystemP1
(* Mutant: the EM3xx meters are treated as the EM24.                       *)
DesiredSystemAsEm24(protocol, mode) ==
    IF mode = "single" THEN MeasurementSystemP1 ELSE MeasurementSystemP3
DesiredSystem(protocol, mode) ==
    IF protocol = "Em540" \/ mode # "piggy" THEN MeasurementSystemP3
    ELSE MeasurementSystemP2
DesiredMode(protocol, mode) ==
    IF protocol = "Em540" /\ mode # "piggy" THEN MeasurementModeC ELSE MeasurementModeB

-----------------------------------------------------------------------------
(* Acquisition: the next due command of the table is read; when none is    *)
(* left the round ends, and after the last round the sensor is Connected.  *)
selectCommands(u) == [u EXCEPT !.table = TableOf(u.protocol, u.settings)]

DueNow(u) == DueCommands(u.table, u.commandIndex, u.acquisitionIndex)

(* Mutant: the index is advanced in a local variable only.                 *)
readNextCommandLocally(u) ==
    LET next == Min(DueNow(u))
    IN  readRegisters(u, CommandAt(u.table, next).reg, CommandAt(u.table, next).count)

readNextCommand(u) ==
    LET next == Min(DueNow(u))
    IN  readRegisters([u EXCEPT !.commandIndex = next],
                      CommandAt(u.table, next).reg, CommandAt(u.table, next).count)

(* Mutants: the last round is left out; the index of the round wraps, so   *)
(* that no round is the last.                                              *)
endRoundWraps(u) ==
    [u EXCEPT !.state = "Wait", !.commandIndex = 0,
              !.acquisitionIndex = (u.acquisitionIndex + 1) % (MaxInterval(u.table) + 1)]
endRoundEarly(u) ==
    LET v == [u EXCEPT !.state = "Wait", !.commandIndex = 0]
    IN  IF u.acquisitionIndex + 1 >= MaxInterval(u.table)
        THEN [v EXCEPT !.acquisitionIndex = 0,
                       !.connection = "Connected", !.pvConnection = "Connected"]
        ELSE [v EXCEPT !.acquisitionIndex = u.acquisitionIndex + 1]

endRound(u) ==
    LET v == [u EXCEPT !.state = "Wait", !.commandIndex = 0]
    IN  IF u.acquisitionIndex + 1 > MaxInterval(u.table)
        THEN [v EXCEPT !.acquisitionIndex = 0,
                       !.connection = "Connected", !.pvConnection = "Connected"]
        ELSE [v EXCEPT !.acquisitionIndex = u.acquisitionIndex + 1]

(* State Wait of startNextAction.  `overrun`: less than 50 ms of the 250   *)
(* ms of the round are left.  The next round starts at command 0, which is *)
(* due in every round (FirstCommandDue), so the recursion of the code ends *)
(* here.                                                                   *)
(* Mutant: the timer is not started when the round has overrun.            *)
waitForNextRoundForgotten(u, overrun) ==
    IF SupportFastloop(u.protocol)
    THEN WithSettings(u, readNextCommand(selectCommands([u EXCEPT !.state = "Acquisition"])))
    ELSE IF overrun THEN u ELSE startTimer(u)

waitForNextRound(u, overrun) ==
    IF SupportFastloop(u.protocol) \/ overrun
    THEN WithSettings(u, readNextCommand(selectCommands([u EXCEPT !.state = "Acquisition"])))
    ELSE startTimer(u)

startNextAcquisition(u, overrun) ==
    IF DueNow(u) # {} THEN readNextCommand(u)
    ELSE waitForNextRound(endRound(u), overrun)

(* WaitForStart: settings and data processors are created and the sensor   *)
(* is Detected, upon which AcSensorMediator calls setIsMultiphase; the     *)
(* phaseCountChanged that follows requests a setup.                        *)
createSettings(u) ==
    Asserting(u, u.settings = "none",
        [u EXCEPT !.settings = IF SupportMultiphase(u.protocol) THEN "multi" ELSE "single",
                  !.setupRequested = SupportMultiphase(u.protocol) \/ u.setupRequested,
                  !.connection = "Detected"])

-----------------------------------------------------------------------------
(* What startNextAction does in a state, once a requested setup has been   *)
(* dealt with.                                                             *)
actInState(u, overrun) ==
    CASE u.state = "DeviceId" ->
            readRegisters([u EXCEPT !.connection = "Searched"], RegDeviceId, 1)
      [] u.state = "Serial" ->
            readRegisters(u, IF u.protocol = "Em24" THEN RegEm24Serial ELSE RegEm112Serial, 7)
      [] u.state = "FirmwareVersion" ->
            readRegisters(u, IF u.protocol \in {"Em24", "Et112"}
                             THEN RegAltFirmwareVersion ELSE RegFirmwareVersion, 1)
      [] u.state = "PhaseSequence" ->
            readRegisters(u, CASE u.protocol = "Em24"  -> RegEm24PhaseSequence
                               [] u.protocol = "Em540" -> RegEm540PhaseSequence
                               [] OTHER                -> RegEm300PhaseSequence, 1)
      [] u.state = "PhaseReverseEnergy" -> readRegisters(u, RegPhaseReverseEnergy, 2)
      [] u.state = "CheckSetup"         -> readRegisters(u, RegApplication, 2)
      [] u.state = "CheckFrontSelector" -> readRegisters(u, RegEm24FrontSelector, 1)
      [] u.state = "WaitFrontSelector"  -> startTimer(u)
      [] u.state = "SetApplication"     -> writeRegister(u, RegApplication, ApplicationH)
      [] u.state = "SetMeasuringSystem" ->
            writeRegister(u, IF u.protocol = "Em24" THEN RegMeasurementSystem
                             ELSE RegEm300MeasurementSystem, u.desiredMeasuringSystem)
      [] u.state = "CheckMeasurementMode" -> readRegisters(u, RegEm112MeasurementMode, 1)
      [] u.state = "CheckMeasurementSystem" ->
            readRegisters(u, IF u.protocol = "Em24" THEN RegMeasurementSystem
                             ELSE RegEm300MeasurementSystem, 1)
      [] u.state = "SetMeasurementMode" ->
            IF u.protocol = "Em540"
            THEN WithSettings(u, writeRegister(u, RegEm112MeasurementMode,
                                               DesiredMode(u.protocol, u.settings)))
            ELSE writeRegister(u, RegEm112MeasurementMode, MeasurementModeB)
      [] u.state = "WaitForStart" -> createSettings(u)
      [] u.state = "Acquisition"  ->
            WithSettings(u, startNextAcquisition(selectCommands(u), overrun))
      [] u.state = "Wait" -> waitForNextRound(u, overrun)
      [] u.state = "WaitOnConnectionLost" -> startTimer(u)

(* A setup requested since the last action comes before anything else,     *)
(* whatever the state; only the ET112 has nothing to set up again.         *)
SetupState(u) ==
    CASE u.protocol = "Em24"         -> "CheckSetup"
      [] u.protocol \in Em300Family  -> "CheckMeasurementMode"
      [] OTHER                       -> u.state

startNextAction(u, overrun) ==
    actInState(IF u.setupRequested
               THEN [u EXCEPT !.setupRequested = FALSE, !.state = SetupState(u)]
               ELSE u, overrun)

(* Mutants: the settings, or the sensor of the PV inverter, are forgotten. *)
disconnectKeepsSettings(u) ==
    [u EXCEPT !.state = "WaitOnConnectionLost",
              !.timeoutCount = MaxTimeoutCount, !.errorCount = MaxErrorCount,
              !.connection = "Disconnected", !.pvConnection = "Disconnected"]
disconnectKeepsPvSensor(u) ==
    [u EXCEPT !.state = "WaitOnConnectionLost", !.settings = "none",
              !.timeoutCount = MaxTimeoutCount, !.errorCount = MaxErrorCount,
              !.connection = "Disconnected"]

disconnectSensor(u) ==
    [u EXCEPT !.state = "WaitOnConnectionLost", !.settings = "none",
              !.timeoutCount = MaxTimeoutCount, !.errorCount = MaxErrorCount,
              !.connection = "Disconnected", !.pvConnection = "Disconnected"]

(* Where an answer that no state expects leads.                            *)
RestartState(u) == IF u.protocol = "Em24" THEN "CheckSetup" ELSE "Acquisition"

-----------------------------------------------------------------------------
(* The handlers of ModbusRtu's three signals and of the timer.             *)
(* A failure counts; one more than the limit is the end.                   *)
(* Mutant: off by one.                                                     *)
ExhaustedLate(u) == u.timeoutCount > MaxTimeoutCount \/ u.errorCount > MaxErrorCount
Exhausted(u) == u.timeoutCount >= MaxTimeoutCount \/ u.errorCount >= MaxErrorCount

(* Mutants: only timeouts count; a failed command is skipped.              *)
countTimeoutsOnly(u, error) ==
    IF error = "Timeout" THEN [u EXCEPT !.timeoutCount = u.timeoutCount + 1] ELSE u
countAndSkip(u, error) ==
    [u EXCEPT !.timeoutCount = IF error = "Timeout" THEN u.timeoutCount + 1 ELSE u.timeoutCount,
              !.errorCount = IF error = "Timeout" THEN u.errorCount ELSE u.errorCount + 1,
              !.commandIndex = u.commandIndex + 1]
countFailure(u, error) ==
    IF error = "Timeout" THEN [u EXCEPT !.timeoutCount = u.timeoutCount + 1]
    ELSE [u EXCEPT !.errorCount = u.errorCount + 1]

(* The meter has no per-phase reverse energy registers, it seems.          *)
WithoutReverse(u) ==
    IF u.state = "PhaseReverseEnergy"
    THEN [u EXCEPT !.protocol = "Em300", !.state = "Serial"] ELSE u

onErrorReceived(u, error, overrun) ==
    LET v == WithoutReverse(u)
    IN  startNextAction(IF Exhausted(v) THEN disconnectSensor(v) ELSE countFailure(v, error),
                        overrun)

(* The length of a serial number: its characters are the non-zero bytes.   *)
SerialSize(registers) ==
      Cardinality({i \in DOMAIN registers : registers[i] \div 256 # 0})
    + Cardinality({i \in DOMAIN registers : registers[i] % 256 # 0})

(* DeviceId: the state that follows the identification, by protocol.  An   *)
(* uninitialised protocol matches no case of the switch.                   *)
AfterDeviceId(u) ==
    CASE u.protocol \in {"Et340", "Em300"}                      -> "PhaseReverseEnergy"
      [] u.protocol \in {"Em24", "Et112", "Em300S27", "Em540"}  -> "Serial"
      [] u.protocol \in {"Unknown", "garbage"}                  -> "DeviceId"

(* CheckSetup: application and measuring system of an EM24.                *)
checkSetup(u, registers) ==
    Asserting(u, Len(registers) = 2,
        WithSettings(u,
            LET desired == DesiredApplicationSystem(u.settings)
            IN  [u EXCEPT !.application = registers[1], !.measuringSystem = registers[2],
                          !.desiredMeasuringSystem = desired,
                          !.state = IF registers[1] = ApplicationH /\ registers[2] = desired
                                    THEN "Acquisition" ELSE "CheckFrontSelector"]))

(* CheckFrontSelector.  The application is compared with the address of    *)
(* its register, as in the code, so an unlocked EM24 is always written.    *)
(* Mutant: the error code is the position of the selector.                 *)
checkFrontSelectorCode(u, registers) ==
    IF registers[1] = 3
    THEN [u EXCEPT !.state = "WaitFrontSelector", !.errorCode = registers[1]]
    ELSE [u EXCEPT !.errorCode = 0, !.state = "SetApplication"]
checkFrontSelector(u, registers) ==
    IF registers[1] = 3
    THEN [u EXCEPT !.state = "WaitFrontSelector", !.errorCode = 1]
    ELSE [u EXCEPT !.state = IF u.application # RegApplication THEN "SetApplication"
                             ELSE IF u.measuringSystem # u.desiredMeasuringSystem
                             THEN "SetMeasuringSystem" ELSE "Acquisition",
                   !.errorCode = 0]

(* Mutant: the measuring system is checked for the ET112, too.             *)
AfterMeasurementModeAll(u) == "CheckMeasurementSystem"
AfterMeasurementMode(u) ==
    IF u.protocol \in Em300Family THEN "CheckMeasurementSystem" ELSE "Acquisition"

(* Only an EM540 makes the code look at the settings (&&).                 *)
checkMeasurementMode(u, registers) ==
    Asserting(u, Len(registers) = 1,
        LET checked == [u EXCEPT !.state =
                            IF registers[1] = DesiredMode(u.protocol, u.settings)
                            THEN AfterMeasurementMode(u) ELSE "SetMeasurementMode"]
        IN  IF u.protocol = "Em540" THEN WithSettings(u, checked) ELSE checked)

checkMeasurementSystem(u, registers) ==
    Asserting(u, Len(registers) = 1 /\ u.protocol \in Em300Family,
        LET desired == DesiredSystem(u.protocol, u.settings)
            checked == [u EXCEPT !.desiredMeasuringSystem = desired,
                                 !.state = IF registers[1] = desired
                                           THEN "Acquisition" ELSE "SetMeasuringSystem"]
        IN  IF u.protocol = "Em540" THEN checked ELSE WithSettings(u, checked))

(* processAcquisitionData only fills the AcSensor; with the wrong number   *)
(* of registers it does not even that, but the command counts as done.     *)
processAcquisitionData(u, registers) ==
    IF CommandAt(u.table, u.commandIndex).count # Len(registers)
    THEN [u EXCEPT !.commandIndex = u.commandIndex + 1]
    ELSE WithSettings(u, [u EXCEPT !.commandIndex = u.commandIndex + 1])

acceptRead(u, registers) ==
    CASE u.state = "DeviceId" ->
            LET v == setDeviceType(u, registers[1]) IN [v EXCEPT !.state = AfterDeviceId(v)]
      [] u.state = "PhaseReverseEnergy" -> [u EXCEPT !.state = "Serial"]
      [] u.state = "Serial" -> Asserting(u, Len(registers) = 7,
                                         [u EXCEPT !.state = "FirmwareVersion"])
      [] u.state = "FirmwareVersion" ->
            [u EXCEPT !.state = IF u.protocol \in {"Em24"} \cup Em300Family
                                THEN "PhaseSequence" ELSE "WaitForStart"]
      [] u.state = "PhaseSequence" -> [u EXCEPT !.state = "WaitForStart"]
      [] u.state = "CheckSetup"    -> checkSetup(u, registers)
      [] u.state = "CheckFrontSelector"     -> checkFrontSelector(u, registers)
      [] u.state = "CheckMeasurementMode"   -> checkMeasurementMode(u, registers)
      [] u.state = "CheckMeasurementSystem" -> checkMeasurementSystem(u, registers)
      [] u.state = "Acquisition" -> processAcquisitionData(u, registers)
      [] u.state = "Wait"        -> [u EXCEPT !.state = "Acquisition"]
      [] OTHER -> [u EXCEPT !.state = IF u.settings = "none" THEN "DeviceId"
                                      ELSE "Acquisition"]

(* A device of unknown type is disconnected without a next action: neither *)
(* a request nor a timer is started.  A serial number of less than two     *)
(* characters counts as a timeout.                                         *)
onReadCompleted(u, registers, overrun) ==
    LET v == acceptRead(u, registers)
    IN  IF v.fault # "none" THEN v
        ELSE CASE u.state = "DeviceId" /\ v.protocol = "Unknown" -> disconnectSensor(v)
               [] u.state = "Serial" /\ SerialSize(registers) < 2 ->
                     onErrorReceived(u, "Timeout", overrun)
               [] OTHER ->
                     startNextAction([v EXCEPT !.timeoutCount = 0, !.errorCount = 0], overrun)

(* Mutant: one write completes the setup of an EM24.                       *)
acceptOneWrite(u, reg, value) ==
    [u EXCEPT !.state = IF u.state = "SetMeasurementMode" THEN AfterMeasurementMode(u)
                        ELSE "Acquisition"]
acceptWrite(u, reg, value) ==
    CASE u.state = "SetApplication" ->
            Asserting(u, reg = RegApplication /\ value = ApplicationH,
                [u EXCEPT !.state = IF u.measuringSystem = u.desiredMeasuringSystem
                                    THEN "Acquisition" ELSE "SetMeasuringSystem"])
      [] u.state = "SetMeasuringSystem" ->
            Asserting(u, /\ reg \in {RegMeasurementSystem, RegEm300MeasurementSystem}
                         /\ value = u.desiredMeasuringSystem,
                [u EXCEPT !.state = "Acquisition"])
      [] u.state = "SetMeasurementMode" -> [u EXCEPT !.state = AfterMeasurementMode(u)]
      [] OTHER -> [u EXCEPT !.state = RestartState(u)]

onWriteCompleted(u, reg, value, overrun) ==
    LET v == acceptWrite(u, reg, value)
    IN  IF v.fault # "none" THEN v
        ELSE startNextAction([v EXCEPT !.timeoutCount = 0, !.errorCount = 0], overrun)

onWaitFinished(u, overrun) ==
    startNextAction([u EXCEPT !.state = CASE u.state = "Wait" -> "Acquisition"
                                          [] u.state = "WaitFrontSelector"    -> "CheckSetup"
                                          [] u.state = "WaitOnConnectionLost" -> "DeviceId"
                                          [] OTHER -> RestartState(u)], overrun)

(* Called by AcSensorMediator when all settings have a value.              *)
startMeasurements(u, overrun) ==
    IF u.settings = "none" \/ u.state # "WaitForStart" THEN u
    ELSE Asserting(u, u.protocol # "Unknown",
            startNextAction([u EXCEPT !.acquisitionIndex = 0, !.commandIndex = 0,
                                      !.state = CASE u.protocol = "Em24" -> "CheckSetup"
                                                  [] u.protocol \in Em300Family \cup {"Et112"} ->
                                                        "CheckMeasurementMode"
                                                  [] OTHER -> u.state], overrun))

-----------------------------------------------------------------------------
GoodSerial  == [i \in 1..7 |-> \h4242]
ShortSerial == [i \in 1..7 |-> IF i = 1 THEN \h4200 ELSE 0]

(* What the meter answers to a read request: a sequence of registers.      *)
ReadReply(m, request) ==
    CASE request.reg = RegDeviceId                         -> <<m.id>>
      [] request.reg \in {RegEm24Serial, RegEm112Serial}   -> GoodSerial
      [] request.reg = RegEm24FrontSelector                -> <<IF m.locked THEN 3 ELSE 0>>
      [] request.reg = RegApplication                      -> <<m.application, m.system>>
      [] request.reg = RegEm112MeasurementMode             -> <<m.mode>>
      [] request.reg \in {RegMeasurementSystem, RegEm300MeasurementSystem} -> <<m.system>>
      [] OTHER                                             -> [i \in 1..request.arg |-> 0]

(* What a write request does to the meter.                                 *)
Written(m, request) ==
    IF request.op # "write" THEN m
    ELSE CASE request.reg = RegApplication          -> [m EXCEPT !.application = request.arg]
           [] request.reg = RegEm112MeasurementMode -> [m EXCEPT !.mode = request.arg]
           [] OTHER                                 -> [m EXCEPT !.system = request.arg]

(* A meter without those registers answers a read of them with an          *)
(* exception.                                                              *)
Refuses(m, request) ==
    /\ request.op = "read"
    /\ request.reg = RegPhaseReverseEnergy
    /\ ~m.reverse

-----------------------------------------------------------------------------
Running == updater.fault = "none"
Asking == Running /\ updater.request.op # "none"
Answered == [updater EXCEPT !.request = NoRequest]

(* The constructor: the first action is taken at once.                     *)
Init ==
    /\ meter \in Meters
    /\ late = NoRequest
    /\ \E garbage \in InitialProtocols :
         updater = startNextAction(
            [state |-> "DeviceId", deviceType |-> 0, protocol |-> garbage,
             settings |-> "none", connection |-> "Disconnected",
             pvConnection |-> "Disconnected", errorCode |-> 0,
             timeoutCount |-> 0, errorCount |-> 0, setupRequested |-> FALSE,
             application |-> 0, measuringSystem |-> 0, desiredMeasuringSystem |-> 0,
             table |-> "none", commandIndex |-> 0, acquisitionIndex |-> 0,
             request |-> NoRequest, timer |-> FALSE, fault |-> "none"], FALSE)

(* The meter answers the outstanding request, and the reply arrives.       *)
ReadAnswered ==
    /\ Asking
    /\ updater.request.op = "read"
    /\ ~Refuses(meter, updater.request)
    /\ \E overrun \in BOOLEAN :
          updater' = onReadCompleted(Answered, ReadReply(meter, updater.request), overrun)
    /\ late' = NoRequest
    /\ UNCHANGED meter

(* "Sometimes the serial reported contains this first character of the     *)
(* serial number only" (ac_sensor_updater.cpp:393).                        *)
ShortSerialAnswered ==
    /\ Asking
    /\ updater.request.op = "read"
    /\ updater.request.reg \in {RegEm24Serial, RegEm112Serial}
    /\ \E overrun \in BOOLEAN : updater' = onReadCompleted(Answered, ShortSerial, overrun)
    /\ late' = NoRequest
    /\ UNCHANGED meter

WriteAnswered ==
    /\ Asking
    /\ updater.request.op = "write"
    /\ meter' = Written(meter, updater.request)
    /\ \E overrun \in BOOLEAN :
          updater' = onWriteCompleted(Answered, updater.request.reg, updater.request.arg, overrun)
    /\ late' = NoRequest

(* No reply in time.  A write may have reached the meter all the same; and *)
(* with StaleReplies the reply may still come.                             *)
TimedOut ==
    /\ Asking
    /\ meter' \in {meter, Written(meter, updater.request)}
    /\ \E overrun \in BOOLEAN : updater' = onErrorReceived(Answered, "Timeout", overrun)
    /\ late' \in {NoRequest} \cup (IF StaleReplies THEN {updater.request} ELSE {})

(* The reply is damaged.                                                   *)
CrcErrorReceived ==
    /\ Asking
    /\ meter' = Written(meter, updater.request)
    /\ \E overrun \in BOOLEAN : updater' = onErrorReceived(Answered, "CrcError", overrun)
    /\ late' = NoRequest

(* The meter answers with a Modbus exception: because the registers do not *)
(* exist, or (ExceptionReceived) because it cannot serve the request now.  *)
ReadRefused ==
    /\ Asking
    /\ Refuses(meter, updater.request)
    /\ \E overrun \in BOOLEAN : updater' = onErrorReceived(Answered, "Exception", overrun)
    /\ late' = NoRequest
    /\ UNCHANGED meter

ExceptionReceived ==
    /\ Asking
    /\ ~Refuses(meter, updater.request)
    /\ \E overrun \in BOOLEAN : updater' = onErrorReceived(Answered, "Exception", overrun)
    /\ late' = NoRequest
    /\ UNCHANGED meter

(* The late reply is taken for the reply to the outstanding request, whose *)
(* own reply becomes late in its turn or gets lost.                        *)
StaleReplyReceived ==
    /\ Asking
    /\ late.op # "none"
    /\ \E overrun \in BOOLEAN :
         IF late.op = "write"
         THEN updater' = onWriteCompleted(Answered, late.reg, late.arg, overrun)
         ELSE updater' = onReadCompleted(Answered, ReadReply(meter, late), overrun)
    /\ meter' \in {meter, Written(meter, updater.request)}
    /\ late' \in {NoRequest, updater.request}

(* The acquisition timer: replies that are still on their way reach a      *)
(* driver that expects none, and are ignored.                              *)
WaitFinished ==
    /\ Running
    /\ updater.timer
    /\ \E overrun \in BOOLEAN :
          updater' = onWaitFinished([updater EXCEPT !.timer = FALSE], overrun)
    /\ late' = NoRequest
    /\ UNCHANGED meter

(* Another settings value arrives over D-Bus: the mode, or the class of    *)
(* the PV inverter on L2.  The slots only take note of it.                 *)
SettingsChanged ==
    /\ Running
    /\ updater.settings # "none"
    /\ \E mode \in (IF SupportMultiphase(updater.protocol) THEN UserModes ELSE UserModes \ {"multi"}) :
          updater' = [updater EXCEPT !.settings = mode, !.setupRequested = TRUE]
    /\ UNCHANGED <<meter, late>>

(* All settings have arrived.                                              *)
SettingsInitialized ==
    /\ Running
    /\ updater.settings # "none"
    /\ updater.state = "WaitForStart"
    /\ \E overrun \in BOOLEAN : updater' = startMeasurements(updater, overrun)
    /\ UNCHANGED <<meter, late>>

(* The installer turns the front selector of an EM24, or exchanges the     *)
(* meter while the updater waits to look for it again.                     *)
FrontSelectorTurned ==
    /\ Running
    /\ ProtocolOf(meter.id) = "Em24"
    /\ meter' = [meter EXCEPT !.locked = ~meter.locked]
    /\ UNCHANGED <<updater, late>>

MeterExchanged ==
    /\ Running
    /\ updater.state = "WaitOnConnectionLost"
    /\ meter' \in Meters
    /\ UNCHANGED <<updater, late>>

Reply == ReadAnswered \/ WriteAnswered \/ ReadRefused
BusError == TimedOut \/ CrcErrorReceived \/ ExceptionReceived \/ ShortSerialAnswered
Answer == Reply \/ BusError \/ StaleReplyReceived
Installer == FrontSelectorTurned \/ MeterExchanged

Next == Answer \/ WaitFinished \/ SettingsChanged \/ SettingsInitialized \/ Installer

Spec == Init /\ [][Next]_vars

(* The driver ends every request, at the latest with its own timeout; Qt   *)
(* timers expire; and localsettings gives every setting a value.  This is  *)
(* weak fairness of the three actions, with their guards for ENABLED.      *)
Fairness ==
    /\ []<>~Asking \/ []<><<Answer>>_vars
    /\ []<>~(Running /\ updater.timer) \/ []<><<WaitFinished>>_vars
    /\ []<>~(Running /\ updater.state = "WaitForStart") \/ []<><<SettingsInitialized>>_vars

FairSpec == Spec /\ Fairness

-----------------------------------------------------------------------------
(* Type correctness of the object, its environment included.               *)
TypeOK ==
    /\ updater \in Updaters
    /\ meter \in MeterModels
    /\ late \in Requests

(* The settings object exists exactly while the sensor is Detected or      *)
(* Connected: "It will be null while the `connectionState` of the          *)
(* `AcSensor` is `Disconnected` or `Searched`" (ac_sensor_updater.h:57).   *)
SettingsLifetime ==
    updater.settings = "none" <=> updater.connection \in {"Disconnected", "Searched"}

(* The updater waits for exactly one thing at a time: an answer from the   *)
(* bus, its timer, or the settings.  So the shared driver never has more   *)
(* than one request of a sensor to serve, and no sensor stops for ever -   *)
(* except one whose device type was unknown, for which onReadCompleted     *)
(* returns without a next action (ac_sensor_updater.cpp:376).              *)
Asks == updater.request.op # "none"
AwaitsSettings == updater.state = "WaitForStart"
Stalled == updater.state = "WaitOnConnectionLost" /\ updater.protocol = "Unknown"
OneActivity ==
    Running =>
        /\ ~(Asks /\ updater.timer)
        /\ AwaitsSettings => ~Asks /\ ~updater.timer
        /\ Asks \/ updater.timer \/ AwaitsSettings \/ Stalled

(* While it measures, the reply the updater waits for is interpreted by    *)
(* mCommands[mCommandIndex]: the index is within the table, and the        *)
(* request was made from that command, across retries and table changes.   *)
ReplyFitsCommand ==
    Running /\ updater.state = "Acquisition" /\ Asks =>
        /\ updater.commandIndex \in 0 .. Len(Tables[updater.table]) - 1
        /\ updater.request =
             [op  |-> "read",
              reg |-> CommandAt(updater.table, updater.commandIndex).reg,
              arg |-> CommandAt(updater.table, updater.commandIndex).count]

(* A meter is measured only with the configuration its settings call for:  *)
(* application, measurement mode and measuring system have been verified   *)
(* or written, unless a change of settings is still to be dealt with.      *)
Configured(m, protocol, mode) ==
    CASE protocol = "Em24" -> /\ m.application = ApplicationH
                              /\ m.system = DesiredApplicationSystem(mode)
      [] protocol \in Em300Family -> /\ m.mode = DesiredMode(protocol, mode)
                                     /\ m.system = DesiredSystem(protocol, mode)
      [] OTHER -> m.mode = MeasurementModeB
MeterConfigured ==
    Running /\ updater.state \in MeasureStates /\ ~updater.setupRequested =>
        Configured(meter, updater.protocol, updater.settings)

(* "EM3xx meters do not support MeasurementSystemP1.  Changing the         *)
(* measurement system also resets the kWh counters" (ac_sensor_updater.cpp *)
(* :504): single phase is never written to one of these meters, though the *)
(* same member mDesiredMeasuringSystem holds it for an EM24.               *)
NeverSinglePhaseOnEm300 ==
    updater.request.op = "write" /\ updater.request.reg = RegEm300MeasurementSystem =>
        updater.request.arg # MeasurementSystemP1

(* A sensor that is present has the protocol of the meter on the bus, also *)
(* when the meter has been exchanged for another: setDeviceType does not   *)
(* leave the protocol of the last meter, or the one that the probe for     *)
(* reverse energy registers chose.  (A device type 0 is not noticed by     *)
(* setDeviceType of a new AcSensor, whose mProtocolType has no value yet.) *)
IdentifiedMeter ==
    updater.settings # "none" /\ meter.id # 0 =>
        \/ updater.protocol = ProtocolOf(meter.id)
        \/ updater.protocol = "Em300" /\ ProtocolOf(meter.id) = "Et340"

(* The failure counters never pass their limits, however timeouts, errors  *)
(* and successes alternate, so a failing meter is disconnected in the end. *)
CountersBounded ==
    /\ updater.timeoutCount <= MaxTimeoutCount
    /\ updater.errorCount <= MaxErrorCount

(* "We do try to make sure energy values are correctly handled"            *)
(* (ac_sensor_updater.cpp:64): a late reply that would be accepted in the  *)
(* place of an energy reading has the same number of registers, and then   *)
(* it is a late reply to that same reading.                                *)
EnergyNotMistaken ==
    Running /\ updater.state = "Acquisition" /\ Asks /\ late.op = "read" =>
        LET command == CommandAt(updater.table, updater.commandIndex)
        IN  IsEnergy(command) /\ command.count = late.arg => late.reg = command.reg

(* A command asks for no more registers than the meter allows ("EM24       *)
(* doesn't want us to fetch more than 12 registers at a time.  The others  *)
(* allow max 20", ac_sensor_updater.cpp:68), and processAcquisitionData    *)
(* finds every value of the command within its reply.  The frequency is    *)
(* one register, the first, except for the EM540 (ac_sensor_updater.cpp:   *)
(* 986); a power factor is one register, every other value two.            *)
Width(protocol, quantity) ==
    IF quantity = "PowerFactor" \/ (quantity = "Frequency" /\ protocol # "Em540") THEN 1 ELSE 2
CommandsReadable ==
    Running /\ updater.state = "Acquisition" /\ Asks =>
        LET command == CommandAt(updater.table, updater.commandIndex)
        IN  /\ command.count <= IF ProtocolOf(meter.id) = "Em24" THEN 12 ELSE 20
            /\ \A action \in command.actions :
                 LET offset == action[1]
                     quantity == action[2]
                 IN  /\ offset + Width(updater.protocol, quantity) <= command.count
                     /\ quantity = "Frequency" /\ updater.protocol # "Em540" => offset = 0

(* A failed request that does not cost the connection is repeated as it    *)
(* was: no command of the table and no step of the setup is skipped.  Only *)
(* the probe for reverse energy registers takes an error for an answer.    *)
RetriesSameRequest ==
    [][ /\ \/ updater'.timeoutCount > updater.timeoutCount
           \/ updater'.errorCount > updater.errorCount
        /\ updater'.connection # "Disconnected"
        /\ updater.state # "PhaseReverseEnergy"
        /\ ~updater.setupRequested
        => updater'.request = updater.request ]_vars

(* The handlers assert what they expect of a reply: its length, that it is *)
(* the register and the value just written, a protocol that has the        *)
(* register (ac_sensor_updater.cpp:384-548), settings not yet created      *)
(* (:733).  As long as no late reply is taken for another (StaleReplies),  *)
(* no order of errors, changes of settings and meters makes one fail.      *)
AssertionsHold == updater.fault # "assert"

(* When a known meter with an open front selector answers every request    *)
(* from some time on and nobody changes the settings any more, it is       *)
(* measured and published in the end, whatever happened before: lost       *)
(* connections are looked for again, setups are completed.  (Unless the    *)
(* process has ended on a null pointer, see MeasuresOnlyWhenDetected.)     *)
Disturbance == BusError \/ SettingsChanged \/ Installer
Measurable == meter.id # 0 /\ ProtocolOf(meter.id) # "Unknown" /\ ~meter.locked
EventuallyConnected ==
    <>[][~Disturbance]_vars /\ <>[]Measurable /\ []Running
        => <>[](updater.connection = "Connected")

(* "It is important for dbus-cgwacs to terminate if it is not talking to a *)
(* Carlo Gavazzi meter" (README.md:73): when the meter stops answering,    *)
(* the sensor is Disconnected again and again, in whatever state it was.   *)
DeadMeterIsLost ==
    <>[][~Reply]_vars => []<>(updater.connection = "Disconnected")

(* AcSensorUpdater implements the life cycle its header describes.         *)
Lifecycle == INSTANCE AcSensorLifecycle WITH
    connection <- updater.connection,
    pvConnection <- updater.pvConnection,
    hasSettings <- updater.settings # "none"
LifecycleSpec == Lifecycle!Spec

-----------------------------------------------------------------------------
(* What the documentation says and the code does not do.                   *)

(* "dbus-cgwacs will terminate after 5 consecutive requests ends in a      *)
(* timeout" (README.md:81): with that many failures behind it, the sensor  *)
(* is no longer taken for present.                                         *)
BailsAfterMaxTimeouts ==
    updater.timeoutCount >= MaxTimeoutCount =>
        updater.connection \in {"Disconnected", "Searched"}

(* "Cannot start measurements before device has been detected"             *)
(* (ac_sensor_updater.cpp:286): setting up and measuring, which look at    *)
(* *mSettings, happen while the settings exist.                            *)
MeasuresOnlyWhenDetected ==
    updater.state \in SetupStates \cup MeasureStates => updater.settings # "none"
=============================================================================
