------------------------ MODULE AcSensorRequestProofs ------------------------
(***************************************************************************)
(* What AcSensorUpdater asks of the meter, for every limit, set of meters  *)
(* and mode of the user, with and without stale replies: that the request  *)
(* it waits for is the one its state and its table call for, that a failed *)
(* request is repeated, that single phase is written to no EM3xx meter,    *)
(* that it implements the life cycle of AcSensorLifecycle, and that no late*)
(* reply is taken for a reading of energy.                                 *)
(*                                                                         *)
(* Placed says which protocols a state belongs to, Requested which request *)
(* an object in that state waits for.  Each handler turns the object into  *)
(* one that is Ready, and ends in startNextAction, which preserves Placed  *)
(* and establishes Requested.                                              *)
(***************************************************************************)
EXTENDS AcSensorUpdaterProofs

-----------------------------------------------------------------------------
(* The invariant.                                                          *)
Em24SetupStates == {"CheckSetup", "CheckFrontSelector", "WaitFrontSelector", "SetApplication"}
ModeStates == {"CheckMeasurementMode", "SetMeasurementMode"}
TimerStates == {"Wait", "WaitFrontSelector", "WaitOnConnectionLost"}

(* The state fits the protocol, and the connection fits both.              *)
Placed(u) ==
    /\ u.state \in Em24SetupStates => u.protocol = "Em24"
    /\ u.state = "CheckMeasurementSystem" => u.protocol \in Em300Family
    /\ u.state \in ModeStates => u.protocol \in Em300Family \cup {"Et112"}
    /\ u.state = "SetMeasuringSystem" =>
          \/ u.protocol = "Em24"
          \/ u.protocol \in Em300Family /\ u.desiredMeasuringSystem # MeasurementSystemP1
    /\ u.state = "PhaseReverseEnergy" => u.protocol \in {"Et340", "Em300"}
    /\ u.pvConnection = IF u.connection = "Connected" THEN "Connected" ELSE "Disconnected"
    /\ u.state \in IdentifyStates \ {"DeviceId"} => u.connection = "Searched"
    /\ u.state = "WaitForStart" /\ u.settings = "none" => u.connection = "Searched"

Read(reg, count) == [op |-> "read", reg |-> reg, arg |-> count]
Write(reg, value) == [op |-> "write", reg |-> reg, arg |-> value]

(* The request of each state that makes the same one in all circumstances. *)
SingleRequestStates ==
    IdentifyStates \cup {"CheckSetup", "CheckFrontSelector", "SetApplication",
                         "SetMeasuringSystem", "CheckMeasurementMode", "CheckMeasurementSystem"}
StateRequest(u) ==
    CASE u.state = "DeviceId" -> Read(RegDeviceId, 1)
      [] u.state = "Serial" -> Read(IF u.protocol = "Em24" THEN RegEm24Serial ELSE RegEm112Serial, 7)
      [] u.state = "FirmwareVersion" ->
            Read(IF u.protocol \in {"Em24", "Et112"} THEN RegAltFirmwareVersion
                 ELSE RegFirmwareVersion, 1)
      [] u.state = "PhaseSequence" ->
            Read(CASE u.protocol = "Em24"  -> RegEm24PhaseSequence
                   [] u.protocol = "Em540" -> RegEm540PhaseSequence
                   [] OTHER                -> RegEm300PhaseSequence, 1)
      [] u.state = "PhaseReverseEnergy" -> Read(RegPhaseReverseEnergy, 2)
      [] u.state = "CheckSetup" -> Read(RegApplication, 2)
      [] u.state = "CheckFrontSelector" -> Read(RegEm24FrontSelector, 1)
      [] u.state = "SetApplication" -> Write(RegApplication, ApplicationH)
      [] u.state = "SetMeasuringSystem" ->
            Write(IF u.protocol = "Em24" THEN RegMeasurementSystem ELSE RegEm300MeasurementSystem,
                  u.desiredMeasuringSystem)
      [] u.state = "CheckMeasurementMode" -> Read(RegEm112MeasurementMode, 1)
      [] u.state = "CheckMeasurementSystem" ->
            Read(IF u.protocol = "Em24" THEN RegMeasurementSystem ELSE RegEm300MeasurementSystem, 1)

(* SetMeasurementMode: only the EM540 has a mode that depends on the       *)
(* settings, which may have changed since the request was made.            *)
AsksForMode(u) ==
    /\ u.request.op = "write"
    /\ u.request.reg = RegEm112MeasurementMode
    /\ \/ u.request.arg = DesiredMode(u.protocol, u.settings)
       \/ u.setupRequested /\ u.protocol = "Em540"
    /\ u.protocol = "Em540" => u.settings # "none"

(* Acquisition: the command at the current index, which is due, of the     *)
(* table for the protocol and the settings, which may have changed since.  *)
AsksForCommand(u) ==
    /\ u.settings # "none"
    /\ \E mode \in Modes : /\ u.table = TableOf(u.protocol, mode)
                           /\ u.setupRequested \/ mode = u.settings
    /\ u.commandIndex \in DueNow(u)
    /\ u.request = Read(CommandAt(u.table, u.commandIndex).reg,
                        CommandAt(u.table, u.commandIndex).count)

Asked(u) ==
    /\ u.state \in SingleRequestStates \cup {"SetMeasurementMode", "Acquisition"}
    /\ u.state = "DeviceId" => u.connection = "Searched"
    /\ u.state \in SingleRequestStates => u.request = StateRequest(u)
    /\ u.state = "SetMeasurementMode" => AsksForMode(u)
    /\ u.state = "Acquisition" => AsksForCommand(u)

Requested(u) ==
    /\ u.fault # "none" => u.request.op = "none"
    /\ u.timer => u.state \in TimerStates
    /\ u.request.op # "none" => Asked(u)

(* What startNextAction starts from.                                       *)
Ready(u) == Sound(u) /\ Free(u) /\ u.fault = "none" /\ Placed(u)

-----------------------------------------------------------------------------
(* What an action does to the object, beside its request and its timer.    *)
SameDevice(u, v) == v.protocol = u.protocol /\ v.deviceType = u.deviceType
SameRegisters(u, v) ==
    /\ v.application = u.application
    /\ v.measuringSystem = u.measuringSystem
    /\ v.desiredMeasuringSystem = u.desiredMeasuringSystem
SameCounters(u, v) == v.timeoutCount = u.timeoutCount /\ v.errorCount = u.errorCount
SameLife(u, v) ==
    /\ v.settings = u.settings /\ v.setupRequested = u.setupRequested
    /\ v.connection = u.connection /\ v.pvConnection = u.pvConnection

Rests(u, v) == v.state = u.state /\ SameLife(u, v)
Searches(u, v) ==
    /\ u.state = "DeviceId" /\ v.state = "DeviceId"
    /\ v.settings = u.settings /\ v.setupRequested = u.setupRequested
    /\ v.connection = "Searched" /\ v.pvConnection = u.pvConnection
Detects(u, v) ==
    /\ u.state = "WaitForStart" /\ v.state = "WaitForStart"
    /\ u.settings = "none" /\ v.settings # "none"
    /\ v.connection = "Detected" /\ v.pvConnection = u.pvConnection
Measures(u, v) ==
    /\ u.state \in MeasureStates /\ v.state \in MeasureStates
    /\ u.settings # "none"
    /\ v.settings = u.settings /\ v.setupRequested = u.setupRequested
    /\ \/ v.connection = u.connection /\ v.pvConnection = u.pvConnection
       \/ v.connection = "Connected" /\ v.pvConnection = "Connected"

Outcome(u, v) ==
    /\ SameDevice(u, v) /\ SameRegisters(u, v) /\ SameCounters(u, v)
    /\ \/ Rests(u, v) /\ u.state \notin {"DeviceId", "WaitForStart"}
       \/ Rests(u, v) /\ u.state = "WaitForStart" /\ u.settings # "none"
       \/ Searches(u, v)
       \/ Detects(u, v)
       \/ Measures(u, v)
    /\ v.fault = "assert" => u.state = "WaitForStart" /\ u.settings # "none"

(* The members a request leaves alone.                                     *)
LEMMA RequestOutcome ==
    ASSUME NEW u, Ready(u), u.state \notin {"DeviceId", "WaitForStart"}, NEW request \in Requests
    PROVE  LET v == [u EXCEPT !.request = request]
           IN  /\ Outcome(u, v)
               /\ v.state = u.state /\ v.request = request /\ ~v.timer /\ v.fault = "none"
               /\ v.table = u.table /\ v.commandIndex = u.commandIndex
               /\ v.acquisitionIndex = u.acquisitionIndex
               /\ v.settings = u.settings /\ v.setupRequested = u.setupRequested
BY DEF Ready, Sound, Free, Updaters, Outcome, Rests, SameLife, SameDevice, SameRegisters, SameCounters

(* The timer, or the end of the process, likewise.                         *)
LEMMA TimerOutcome ==
    ASSUME NEW u, Ready(u), u.state \in TimerStates
    PROVE  Outcome(u, startTimer(u)) /\ Requested(startTimer(u))
<1> DEFINE v == startTimer(u)
<1>1. /\ Rests(u, v) /\ SameDevice(u, v) /\ SameRegisters(u, v) /\ SameCounters(u, v)
      /\ v.fault = u.fault /\ v.request = u.request
  BY DEF startTimer, Ready, Sound, Updaters, Rests, SameLife, SameDevice, SameRegisters, SameCounters
<1> HIDE DEF v
<1>2. Outcome(u, v) BY <1>1 DEF Outcome, Ready, TimerStates
<1>3. Requested(v) BY <1>1 DEF Requested, Ready, Free, Rests
<1> QED BY <1>2, <1>3 DEF v

LEMMA FaultOutcome ==
    ASSUME NEW u, Ready(u), u.state \notin {"DeviceId", "WaitForStart"}
    PROVE  LET v == [u EXCEPT !.fault = "nullSettings"]
           IN  Outcome(u, v) /\ Requested(v)
<1> DEFINE v == [u EXCEPT !.fault = "nullSettings"]
<1>1. /\ Rests(u, v) /\ SameDevice(u, v) /\ SameRegisters(u, v) /\ SameCounters(u, v)
      /\ v.fault = "nullSettings" /\ v.request = u.request /\ v.timer = u.timer
  BY DEF Ready, Sound, Updaters, Rests, SameLife, SameDevice, SameRegisters, SameCounters
<1> HIDE DEF v
<1>2. Outcome(u, v) BY <1>1 DEF Outcome
<1>3. Requested(v) BY <1>1 DEF Requested, Ready, Free
<1> QED BY <1>2, <1>3 DEF v

-----------------------------------------------------------------------------
(* The next action.                                                        *)
(* A request is outstanding in a state that makes it.                      *)
LEMMA RequestRequested ==
    ASSUME NEW v, v.fault = "none", ~v.timer, Asked(v)
    PROVE  Requested(v)
BY DEF Requested

(* The states that make one request in all circumstances make that one.    *)
LEMMA SingleRequest ==
    ASSUME NEW u, Ready(u), u.state \in SingleRequestStates \ {"DeviceId"}, NEW overrun
    PROVE  /\ StateRequest(u) \in Requests
           /\ actInState(u, overrun) = [u EXCEPT !.request = StateRequest(u)]
<1> DEFINE v == actInState(u, overrun)
<1>0. u.state \in SingleRequestStates \ {"DeviceId"} OBVIOUS
<1>a. u.desiredMeasuringSystem \in Nat BY DEF Ready, Sound, Updaters
<1>b. \A reg \in Nat, count \in Nat : Read(reg, count) \in Requests /\ Write(reg, count) \in Requests
  BY DEF Read, Write, Requests
<1> DEFINE Reads(reg, count) == v = readRegisters(u, reg, count) /\ StateRequest(u) = Read(reg, count)
           Writes(reg, value) == v = writeRegister(u, reg, value) /\ StateRequest(u) = Write(reg, value)
<1>1. ASSUME u.state = "Serial" PROVE \E reg \in Nat, count \in Nat : Reads(reg, count)
  <2> DEFINE r == IF u.protocol = "Em24" THEN RegEm24Serial ELSE RegEm112Serial
  <2>1. r \in Nat /\ 7 \in Nat BY DEF RegEm24Serial, RegEm112Serial
  <2>2. Reads(r, 7) BY <1>1 DEF actInState, StateRequest
  <2> HIDE DEF r
  <2> QED BY <2>1, <2>2
<1>2. ASSUME u.state = "FirmwareVersion" PROVE \E reg \in Nat, count \in Nat : Reads(reg, count)
  <2> DEFINE r == IF u.protocol \in {"Em24", "Et112"} THEN RegAltFirmwareVersion ELSE RegFirmwareVersion
  <2>1. r \in Nat /\ 1 \in Nat BY DEF RegAltFirmwareVersion, RegFirmwareVersion
  <2>2. Reads(r, 1) BY <1>2 DEF actInState, StateRequest
  <2> HIDE DEF r
  <2> QED BY <2>1, <2>2
<1>3. ASSUME u.state = "PhaseSequence" PROVE \E reg \in Nat, count \in Nat : Reads(reg, count)
  <2> DEFINE r == CASE u.protocol = "Em24"  -> RegEm24PhaseSequence
                    [] u.protocol = "Em540" -> RegEm540PhaseSequence
                    [] OTHER                -> RegEm300PhaseSequence
  <2>1. r \in Nat /\ 1 \in Nat BY DEF RegEm24PhaseSequence, RegEm540PhaseSequence, RegEm300PhaseSequence
  <2>2. Reads(r, 1) BY <1>3 DEF actInState, StateRequest
  <2> HIDE DEF r
  <2> QED BY <2>1, <2>2
<1>4. ASSUME u.state = "PhaseReverseEnergy" PROVE \E reg \in Nat, count \in Nat : Reads(reg, count)
  <2>1. RegPhaseReverseEnergy \in Nat /\ 2 \in Nat BY DEF RegPhaseReverseEnergy
  <2>2. Reads(RegPhaseReverseEnergy, 2) BY <1>4 DEF actInState, StateRequest
  <2> QED BY <2>1, <2>2
<1>5. ASSUME u.state = "CheckSetup" PROVE \E reg \in Nat, count \in Nat : Reads(reg, count)
  <2>1. RegApplication \in Nat /\ 2 \in Nat BY DEF RegApplication
  <2>2. Reads(RegApplication, 2) BY <1>5 DEF actInState, StateRequest
  <2> QED BY <2>1, <2>2
<1>6. ASSUME u.state = "CheckFrontSelector" PROVE \E reg \in Nat, count \in Nat : Reads(reg, count)
  <2>1. RegEm24FrontSelector \in Nat /\ 1 \in Nat BY DEF RegEm24FrontSelector
  <2>2. Reads(RegEm24FrontSelector, 1) BY <1>6 DEF actInState, StateRequest
  <2> QED BY <2>1, <2>2
<1>7. ASSUME u.state = "CheckMeasurementMode" PROVE \E reg \in Nat, count \in Nat : Reads(reg, count)
  <2>1. RegEm112MeasurementMode \in Nat /\ 1 \in Nat BY DEF RegEm112MeasurementMode
  <2>2. Reads(RegEm112MeasurementMode, 1) BY <1>7 DEF actInState, StateRequest
  <2> QED BY <2>1, <2>2
<1>8. ASSUME u.state = "CheckMeasurementSystem" PROVE \E reg \in Nat, count \in Nat : Reads(reg, count)
  <2> DEFINE r == IF u.protocol = "Em24" THEN RegMeasurementSystem ELSE RegEm300MeasurementSystem
  <2>1. r \in Nat /\ 1 \in Nat BY DEF RegMeasurementSystem, RegEm300MeasurementSystem
  <2>2. Reads(r, 1) BY <1>8 DEF actInState, StateRequest
  <2> HIDE DEF r
  <2> QED BY <2>1, <2>2
<1>9. ASSUME u.state = "SetApplication" PROVE \E reg \in Nat, value \in Nat : Writes(reg, value)
  <2>1. RegApplication \in Nat /\ ApplicationH \in Nat BY DEF RegApplication, ApplicationH
  <2>2. Writes(RegApplication, ApplicationH) BY <1>9 DEF actInState, StateRequest
  <2> QED BY <2>1, <2>2
<1>10. ASSUME u.state = "SetMeasuringSystem" PROVE \E reg \in Nat, value \in Nat : Writes(reg, value)
  <2> DEFINE r == IF u.protocol = "Em24" THEN RegMeasurementSystem ELSE RegEm300MeasurementSystem
  <2>1. r \in Nat /\ u.desiredMeasuringSystem \in Nat BY <1>a DEF RegMeasurementSystem, RegEm300MeasurementSystem
  <2>2. Writes(r, u.desiredMeasuringSystem) BY <1>10 DEF actInState, StateRequest
  <2> HIDE DEF r
  <2> QED BY <2>1, <2>2
<1>11. \E reg \in Nat, arg \in Nat : Reads(reg, arg) \/ Writes(reg, arg)
  BY <1>0, <1>1, <1>2, <1>3, <1>4, <1>5, <1>6, <1>7, <1>8, <1>9, <1>10
     DEF SingleRequestStates, IdentifyStates
<1> HIDE DEF v
<1>12. StateRequest(u) \in Requests /\ v = [u EXCEPT !.request = StateRequest(u)]
  BY <1>11, <1>b DEF readRegisters, writeRegister, Read, Write
<1> QED BY <1>12 DEF v

LEMMA SingleRequestOutcome ==
    ASSUME NEW u, Ready(u), u.state \in SingleRequestStates \ {"DeviceId"}, NEW overrun
    PROVE  LET v == actInState(u, overrun)
           IN  Outcome(u, v) /\ Requested(v)
<1> DEFINE request == StateRequest(u)
           v == [u EXCEPT !.request = request]
<1>1. request \in Requests /\ actInState(u, overrun) = v BY SingleRequest
<1>2. StateRequest(v) = request
  <2>1. v.state = u.state /\ v.protocol = u.protocol
        /\ v.desiredMeasuringSystem = u.desiredMeasuringSystem
    BY DEF Ready, Sound, Updaters
  <2> HIDE DEF v
  <2> QED BY <2>1 DEF StateRequest, Read, Write
<1>3. u.state # "WaitForStart" BY DEF SingleRequestStates, IdentifyStates
<1> HIDE DEF request
<1>4. Outcome(u, v) /\ v.state = u.state /\ v.request = request /\ ~v.timer /\ v.fault = "none"
  BY <1>1, <1>3, RequestOutcome
<1> HIDE DEF v
<1>5. Asked(v)
  BY <1>2, <1>4 DEF Asked, SingleRequestStates, IdentifyStates
<1>6. Requested(v) BY <1>4, <1>5, RequestRequested
<1> QED BY <1>1, <1>4, <1>6

(* DeviceId: the search begins.                                            *)
LEMMA DeviceIdOutcome ==
    ASSUME NEW u, Ready(u), u.state = "DeviceId", NEW overrun
    PROVE  LET v == actInState(u, overrun)
           IN  Outcome(u, v) /\ Requested(v)
<1> DEFINE v == [u EXCEPT !.connection = "Searched", !.request = Read(RegDeviceId, 1)]
<1>1. actInState(u, overrun) = v BY DEF actInState, readRegisters, Read
<1>2. Searches(u, v) /\ SameDevice(u, v) /\ SameRegisters(u, v) /\ SameCounters(u, v)
      /\ v.fault = u.fault /\ v.timer = u.timer /\ v.request = Read(RegDeviceId, 1)
  BY DEF Ready, Sound, Updaters, Searches, SameDevice, SameRegisters, SameCounters
<1> HIDE DEF v
<1>3. Outcome(u, v) BY <1>2 DEF Outcome, Ready
<1>4. Asked(v) BY <1>2 DEF Asked, Searches, SingleRequestStates, IdentifyStates, StateRequest
<1>5. Requested(v) BY <1>2, <1>4, RequestRequested DEF Ready, Free
<1> QED BY <1>1, <1>3, <1>5

(* SetMeasurementMode: mode C or B, as the settings and the protocol ask.  *)
LEMMA ModeOutcome ==
    ASSUME NEW u, Ready(u), u.state = "SetMeasurementMode", NEW overrun
    PROVE  LET v == actInState(u, overrun)
           IN  Outcome(u, v) /\ Requested(v)
<1> DEFINE mode == DesiredMode(u.protocol, u.settings)
           request == Write(RegEm112MeasurementMode, mode)
           v == [u EXCEPT !.request = request]
<1>1. CASE u.protocol = "Em540" /\ u.settings = "none"
  <2>1. actInState(u, overrun) = [u EXCEPT !.fault = "nullSettings"]
    BY <1>1 DEF actInState, WithSettings
  <2> QED BY <2>1, FaultOutcome
<1>2. CASE u.protocol # "Em540" \/ u.settings # "none"
  <2>1. actInState(u, overrun) = writeRegister(u, RegEm112MeasurementMode, mode)
    BY <1>2 DEF actInState, WithSettings, DesiredMode
  <2>2. mode \in Nat BY DEF DesiredMode, MeasurementModeB, MeasurementModeC
  <2> HIDE DEF mode
  <2>3. request \in Requests BY <2>2 DEF Write, Requests, RegEm112MeasurementMode
  <2>4. actInState(u, overrun) = v BY <2>1 DEF writeRegister, Write
  <2>5. request.op = "write" /\ request.reg = RegEm112MeasurementMode /\ request.arg = mode
    BY DEF Write
  <2> HIDE DEF request
  <2>6. /\ Outcome(u, v) /\ v.state = u.state /\ v.request = request /\ ~v.timer
        /\ v.fault = "none" /\ v.settings = u.settings
    BY <2>3, RequestOutcome
  <2>7. v.protocol = u.protocol BY <2>6 DEF Outcome, SameDevice
  <2> HIDE DEF v
  <2>8. AsksForMode(v) BY <1>2, <2>5, <2>6, <2>7 DEF AsksForMode, mode
  <2>9. Asked(v) BY <2>6, <2>8 DEF Asked, SingleRequestStates, IdentifyStates
  <2> QED BY <2>4, <2>6, <2>9, RequestRequested
<1> QED BY <1>1, <1>2

-----------------------------------------------------------------------------
(* Acquisition.                                                            *)
(* A step from one measuring state to another.                             *)
Carries(u, v) ==
    /\ SameDevice(u, v) /\ SameRegisters(u, v) /\ SameCounters(u, v)
    /\ Measures(u, v)
    /\ v.fault = "none"

(* Such a step, and then an action, is an action.                          *)
LEMMA CarriedOutcome ==
    ASSUME NEW u, NEW v, NEW w, Carries(u, v), Outcome(v, w)
    PROVE  Outcome(u, w)
<1>1. v.state \in MeasureStates /\ v.settings # "none" BY DEF Carries, Measures
<1>2. Rests(v, w) \/ Measures(v, w)
  BY <1>1 DEF Outcome, Searches, Detects, MeasureStates
<1>3. Measures(u, w) BY <1>1, <1>2 DEF Carries, Measures, Rests, SameLife
<1>4. w.fault # "assert" BY <1>1 DEF Outcome, MeasureStates
<1> QED BY <1>3, <1>4 DEF Carries, Outcome, SameDevice, SameRegisters, SameCounters

(* The table for the protocol and the settings is selected.                *)
LEMMA SelectionCarries ==
    ASSUME NEW u, Ready(u), u.state \in MeasureStates, u.settings # "none"
    PROVE  LET v == selectCommands(u)
           IN  /\ Ready(v) /\ Carries(u, v)
               /\ v.state = u.state /\ v.commandIndex = u.commandIndex
               /\ v.table = TableOf(v.protocol, v.settings)
               /\ v.acquisitionIndex = u.acquisitionIndex
<1> DEFINE v == selectCommands(u)
<1>1. Sound(v) /\ Free(v) BY CommandsSelected DEF Ready
<1>2. /\ SameDevice(u, v) /\ SameRegisters(u, v) /\ SameCounters(u, v) /\ SameLife(u, v)
      /\ v.state = u.state /\ v.commandIndex = u.commandIndex /\ v.fault = u.fault
      /\ v.acquisitionIndex = u.acquisitionIndex
      /\ v.table = TableOf(u.protocol, u.settings)
  BY DEF selectCommands, Ready, Sound, Updaters, SameDevice, SameRegisters, SameCounters, SameLife
<1> HIDE DEF v
<1>3. Placed(v) BY <1>2 DEF Ready, Placed, SameDevice, SameRegisters, SameLife
<1>4. v.table = TableOf(v.protocol, v.settings) BY <1>2 DEF SameDevice, SameLife
<1>5. Carries(u, v) BY <1>2 DEF Carries, Measures, SameLife, Ready
<1> QED BY <1>1, <1>2, <1>3, <1>4, <1>5 DEF Ready, v

(* The next due command is read, and it is still the next due one.         *)
LEMMA NextCommandOutcome ==
    ASSUME NEW u, Ready(u), u.state = "Acquisition", u.settings # "none",
           u.table = TableOf(u.protocol, u.settings), DueNow(u) # {}
    PROVE  LET v == readNextCommand(u)
           IN  Outcome(u, v) /\ Requested(v)
<1> DEFINE next == Min(DueNow(u))
           request == Read(CommandAt(u.table, next).reg, CommandAt(u.table, next).count)
           v == readNextCommand(u)
<1>1. u.commandIndex \in Nat /\ u.settings \in Modes /\ u.protocol \in Protocols \ {"Unknown"}
  BY DEF Ready, Sound, Updaters, KnownProtocol
<1>2. u.table \in TableNames BY <1>1, TableSelected
<1>3. next \in DueNow(u) /\ next \in 0..7
  <2>1. DueNow(u) \in SUBSET (0..7) BY <1>1, <1>2, DueCommandReadable
  <2> QED BY <2>1, SmallestCommand
<1>4. request.op = "read" BY DEF Read
<1>5. v = [u EXCEPT !.commandIndex = next, !.request = request]
  BY DEF readNextCommand, readRegisters, Read
<1> HIDE DEF next, request
<1>6. /\ SameDevice(u, v) /\ SameRegisters(u, v) /\ SameCounters(u, v) /\ SameLife(u, v)
      /\ v.state = u.state /\ v.fault = u.fault /\ v.timer = u.timer
      /\ v.table = u.table /\ v.acquisitionIndex = u.acquisitionIndex
      /\ v.commandIndex = next /\ v.request = request
  BY <1>5 DEF Ready, Sound, Updaters, SameDevice, SameRegisters, SameCounters, SameLife
<1> HIDE DEF v
<1>7. Outcome(u, v)
  BY <1>6 DEF Outcome, Measures, MeasureStates, SameLife, Ready
<1>8. next \in DueNow(v) BY <1>3, <1>6 DEF DueNow, DueCommands
<1>9. AsksForCommand(v)
  BY <1>1, <1>6, <1>8 DEF AsksForCommand, SameDevice, SameLife, request
<1>10. Asked(v) BY <1>6, <1>9 DEF Asked, SingleRequestStates, IdentifyStates
<1> QED BY <1>6, <1>7, <1>10, RequestRequested DEF Ready, Free, v

(* After a round the first command is read, or the timer is started.       *)
LEMMA WaitOutcome ==
    ASSUME NEW u, Ready(u), u.state = "Wait", NEW overrun
    PROVE  LET v == waitForNextRound(u, overrun)
           IN  Outcome(u, v) /\ Requested(v)
<1> DEFINE v == [u EXCEPT !.state = "Acquisition"]
<1>1. CASE ~(SupportFastloop(u.protocol) \/ overrun)
  <2>1. waitForNextRound(u, overrun) = startTimer(u) BY <1>1 DEF waitForNextRound
  <2> QED BY <2>1, TimerOutcome DEF TimerStates
<1>2. CASE (SupportFastloop(u.protocol) \/ overrun) /\ u.settings = "none"
  <2>1. waitForNextRound(u, overrun) = [u EXCEPT !.fault = "nullSettings"]
    BY <1>2 DEF waitForNextRound, WithSettings
  <2> QED BY <2>1, FaultOutcome
<1>3. CASE (SupportFastloop(u.protocol) \/ overrun) /\ u.settings # "none"
  <2>1. waitForNextRound(u, overrun) = readNextCommand(selectCommands(v))
    BY <1>3 DEF waitForNextRound, WithSettings
  <2>2. Sound(v) /\ Free(v)
    BY <1>3 DEF Ready, Sound, Free, Updaters, KnownProtocol, States, MeasureStates, IdentifyStates
  <2>3. /\ SameDevice(u, v) /\ SameRegisters(u, v) /\ SameCounters(u, v) /\ SameLife(u, v)
        /\ v.state = "Acquisition" /\ v.commandIndex = u.commandIndex /\ v.fault = u.fault
    BY DEF Ready, Sound, Updaters, SameDevice, SameRegisters, SameCounters, SameLife
  <2> HIDE DEF v
  <2>4. Carries(u, v) /\ v.settings # "none"
    BY <1>3, <2>3 DEF Carries, Measures, MeasureStates, SameLife, Ready
  <2>5. Ready(v)
    BY <2>2, <2>3 DEF Ready, Placed, SameLife, Em24SetupStates, ModeStates, IdentifyStates
  <2> DEFINE w == selectCommands(v)
  <2>6. /\ Ready(w) /\ Carries(v, w) /\ w.state = "Acquisition"
        /\ w.table = TableOf(w.protocol, w.settings) /\ w.commandIndex = 0
    BY <2>3, <2>4, <2>5, SelectionCarries DEF MeasureStates, Ready, Sound
  <2> HIDE DEF w
  <2>7. w.settings # "none" /\ w.table \in TableNames
    <3>1. w.settings # "none" BY <2>4, <2>6 DEF Carries, Measures
    <3>2. w.settings \in Modes /\ w.protocol \in Protocols \ {"Unknown"}
      BY <2>6, <3>1 DEF Ready, Sound, Updaters, KnownProtocol
    <3> QED BY <2>6, <3>1, <3>2, TableSelected
  <2>8. DueNow(w) # {} BY <2>6, <2>7, FirstCommandDue
  <2>9. Outcome(w, readNextCommand(w)) /\ Requested(readNextCommand(w))
    BY <2>6, <2>7, <2>8, NextCommandOutcome
  <2> QED BY <2>1, <2>4, <2>6, <2>9, CarriedOutcome DEF w
<1> QED BY <1>1, <1>2, <1>3

(* The last round makes the sensor Connected, together with that of the PV *)
(* inverter.                                                               *)
LEMMA RoundCarries ==
    ASSUME NEW u, Ready(u), u.state = "Acquisition", u.settings # "none"
    PROVE  Ready(endRound(u)) /\ endRound(u).state = "Wait" /\ Carries(u, endRound(u))
<1> DEFINE v == endRound(u)
<1>1. Sound(v) /\ Free(v) /\ v.state = "Wait" BY RoundEnds DEF Ready
<1>2. /\ SameDevice(u, v) /\ SameRegisters(u, v) /\ SameCounters(u, v)
      /\ v.settings = u.settings /\ v.setupRequested = u.setupRequested /\ v.fault = u.fault
      /\ \/ v.connection = u.connection /\ v.pvConnection = u.pvConnection
         \/ v.connection = "Connected" /\ v.pvConnection = "Connected"
  BY DEF endRound, Ready, Sound, Updaters, SameDevice, SameRegisters, SameCounters
<1> HIDE DEF v
<1>3. Carries(u, v) BY <1>1, <1>2 DEF Carries, Measures, MeasureStates, Ready
<1>4. Placed(v)
  BY <1>1, <1>2 DEF Ready, Placed, Em24SetupStates, ModeStates, IdentifyStates
<1> QED BY <1>1, <1>2, <1>3, <1>4 DEF Ready, v

LEMMA AcquisitionOutcome ==
    ASSUME NEW u, Ready(u), u.state = "Acquisition", NEW overrun
    PROVE  LET v == actInState(u, overrun)
           IN  Outcome(u, v) /\ Requested(v)
<1>0. actInState(u, overrun) = WithSettings(u, startNextAcquisition(selectCommands(u), overrun))
  BY DEF actInState
<1>1. CASE u.settings = "none"
  <2>1. actInState(u, overrun) = [u EXCEPT !.fault = "nullSettings"]
    BY <1>0, <1>1 DEF WithSettings
  <2> QED BY <2>1, FaultOutcome
<1>2. CASE u.settings # "none"
  <2> DEFINE w == selectCommands(u)
             v == actInState(u, overrun)
  <2>1. /\ Ready(w) /\ Carries(u, w) /\ w.state = "Acquisition"
        /\ w.table = TableOf(w.protocol, w.settings)
    BY <1>2, SelectionCarries DEF MeasureStates
  <2>2. v = startNextAcquisition(w, overrun) BY <1>0, <1>2 DEF WithSettings
  <2>3. w.settings # "none" BY <1>2, <2>1 DEF Carries, Measures
  <2> HIDE DEF w, v
  <2>4. Outcome(w, v) /\ Requested(v)
    <3>1. CASE DueNow(w) # {}
      <4>1. v = readNextCommand(w) BY <2>2, <3>1 DEF startNextAcquisition
      <4> QED BY <2>1, <2>3, <3>1, <4>1, NextCommandOutcome
    <3>2. CASE DueNow(w) = {}
      <4>1. v = waitForNextRound(endRound(w), overrun) BY <2>2, <3>2 DEF startNextAcquisition
      <4>2. Ready(endRound(w)) /\ endRound(w).state = "Wait" /\ Carries(w, endRound(w))
        BY <2>1, <2>3, RoundCarries
      <4>3. Outcome(endRound(w), v) /\ Requested(v) BY <4>1, <4>2, WaitOutcome
      <4> QED BY <4>2, <4>3, CarriedOutcome
    <3> QED BY <3>1, <3>2
  <2>5. Outcome(u, v) BY <2>1, <2>4, CarriedOutcome
  <2> QED BY <2>4, <2>5 DEF v
<1> QED BY <1>1, <1>2

-----------------------------------------------------------------------------
(* startNextAction as a whole.                                             *)
(* WaitForStart: the settings are created once, for a sensor that is being *)
(* Searched.                                                               *)
LEMMA CreationOutcome ==
    ASSUME NEW u, Ready(u), u.state = "WaitForStart", NEW overrun
    PROVE  LET v == actInState(u, overrun)
           IN  Outcome(u, v) /\ Requested(v)
<1> DEFINE v == actInState(u, overrun)
<1>0. v = createSettings(u) BY DEF actInState
<1>1. CASE u.settings # "none"
  <2>1. v = [u EXCEPT !.fault = "assert"] BY <1>0, <1>1 DEF createSettings, Asserting
  <2>2. /\ Rests(u, v) /\ SameDevice(u, v) /\ SameRegisters(u, v) /\ SameCounters(u, v)
        /\ v.request = u.request /\ v.timer = u.timer
    BY <2>1 DEF Ready, Sound, Updaters, Rests, SameLife, SameDevice, SameRegisters, SameCounters
  <2> HIDE DEF v
  <2> QED BY <1>1, <2>2 DEF Outcome, Requested, Ready, Free, v
<1>2. CASE u.settings = "none"
  <2> DEFINE multiphase == SupportMultiphase(u.protocol)
             w == [u EXCEPT !.settings = IF multiphase THEN "multi" ELSE "single",
                            !.setupRequested = multiphase \/ u.setupRequested,
                            !.connection = "Detected"]
  <2>1. v = w BY <1>0, <1>2 DEF createSettings, Asserting
  <2> HIDE DEF v, multiphase
  <2>2. /\ SameDevice(u, v) /\ SameRegisters(u, v) /\ SameCounters(u, v)
        /\ v.state = "WaitForStart" /\ v.settings # "none" /\ v.connection = "Detected"
        /\ v.pvConnection = u.pvConnection /\ v.fault = u.fault
        /\ v.request = u.request /\ v.timer = u.timer
    BY <2>1 DEF Ready, Sound, Updaters, SameDevice, SameRegisters, SameCounters
  <2> HIDE DEF w
  <2>3. Detects(u, v) BY <1>2, <2>2 DEF Detects
  <2> QED BY <2>2, <2>3 DEF Outcome, Requested, Ready, Free, v
<1> QED BY <1>1, <1>2

(* The outcome of an action is one of the five, and the request is that of *)
(* the state.                                                              *)
LEMMA ActionOutcome ==
    ASSUME NEW u, Ready(u), NEW overrun
    PROVE  LET v == actInState(u, overrun)
           IN  Outcome(u, v) /\ Requested(v)
<1>0. u.state \in States BY DEF Ready, Sound, Updaters
<1>1. CASE u.state = "DeviceId" BY <1>1, DeviceIdOutcome
<1>2. CASE u.state \in SingleRequestStates \ {"DeviceId"} BY <1>2, SingleRequestOutcome
<1>3. CASE u.state = "SetMeasurementMode" BY <1>3, ModeOutcome
<1>4. CASE u.state \in {"WaitFrontSelector", "WaitOnConnectionLost"}
  <2>1. actInState(u, overrun) = startTimer(u) BY <1>4 DEF actInState
  <2> QED BY <1>4, <2>1, TimerOutcome DEF TimerStates
<1>5. CASE u.state = "WaitForStart" BY <1>5, CreationOutcome
<1>6. CASE u.state = "Acquisition" BY <1>6, AcquisitionOutcome
<1>7. CASE u.state = "Wait"
  <2>1. actInState(u, overrun) = waitForNextRound(u, overrun) BY <1>7 DEF actInState
  <2> QED BY <1>7, <2>1, WaitOutcome
<1> QED BY <1>0, <1>1, <1>2, <1>3, <1>4, <1>5, <1>6, <1>7
        DEF States, IdentifyStates, SetupStates, MeasureStates, SingleRequestStates

(* An action leaves the object in a state that fits the protocol.          *)
LEMMA OutcomePlaced ==
    ASSUME NEW u, Ready(u), NEW v, Outcome(u, v)
    PROVE  Placed(v)
<1>1. v.protocol = u.protocol /\ v.desiredMeasuringSystem = u.desiredMeasuringSystem
  BY DEF Outcome, SameDevice, SameRegisters
<1>2. CASE Rests(u, v)
  BY <1>1, <1>2 DEF Ready, Placed, Rests, SameLife
<1>3. CASE Searches(u, v)
  <2>1. u.connection \in {"Disconnected", "Searched"}
    BY <1>3 DEF Ready, Sound, Searches, IdentifyStates
  <2> QED BY <1>1, <1>3, <2>1 DEF Ready, Placed, Searches, Em24SetupStates, ModeStates
<1>4. CASE Detects(u, v)
  BY <1>1, <1>4 DEF Ready, Placed, Detects, Em24SetupStates, ModeStates, IdentifyStates
<1>5. CASE Measures(u, v)
  BY <1>1, <1>5
     DEF Ready, Placed, Measures, MeasureStates, Em24SetupStates, ModeStates, IdentifyStates
<1> QED BY <1>2, <1>3, <1>4, <1>5 DEF Outcome

(* The object that a requested setup leaves, and the action takes.         *)
SetupDone(u) ==
    IF u.setupRequested
    THEN [u EXCEPT !.setupRequested = FALSE, !.state = SetupState(u)] ELSE u

(* Only the state changes, to the first of the setup, and the flag.        *)
LEMMA SetupReady ==
    ASSUME NEW u, Ready(u)
    PROVE  LET v == SetupDone(u)
           IN  /\ Ready(v)
               /\ SameDevice(u, v) /\ SameRegisters(u, v) /\ SameCounters(u, v)
               /\ v.settings = u.settings /\ v.connection = u.connection
               /\ v.pvConnection = u.pvConnection
               /\ v.setupRequested = FALSE
               /\ IF u.setupRequested THEN v.state = SetupState(u) ELSE v = u
<1> DEFINE v == SetupDone(u)
<1>1. CASE ~u.setupRequested
  BY <1>1 DEF SetupDone, SameDevice, SameRegisters, SameCounters, Ready, Sound, Updaters
<1>2. CASE u.setupRequested
  <2>1. v = [u EXCEPT !.setupRequested = FALSE, !.state = SetupState(u)] BY <1>2 DEF SetupDone
  <2>2. SetupState(u) \in {u.state, "CheckSetup", "CheckMeasurementMode"} BY DEF SetupState
  <2>3. SetupState(u) \in States BY <2>2 DEF Ready, Sound, Updaters, States, SetupStates
  <2>4. v \in Updaters BY <2>1, <2>3 DEF Ready, Sound, Updaters
  <2>5. /\ SameDevice(u, v) /\ SameRegisters(u, v) /\ SameCounters(u, v)
        /\ v.settings = u.settings /\ v.connection = u.connection
        /\ v.pvConnection = u.pvConnection /\ v.fault = u.fault
        /\ v.request = u.request /\ v.timer = u.timer /\ v.commandIndex = u.commandIndex
        /\ v.setupRequested = FALSE /\ v.state = SetupState(u)
    BY <2>1, <2>3 DEF Ready, Sound, Updaters, SameDevice, SameRegisters, SameCounters
  <2> HIDE DEF v
  <2>6. Sound(v) /\ Free(v)
    BY <2>2, <2>4, <2>5
       DEF Ready, Sound, Free, KnownProtocol, IdentifyStates, SameDevice, SameCounters
  <2>7. Placed(v)
    BY <2>5
       DEF Ready, Placed, SetupState, SameDevice, SameRegisters, Em24SetupStates, ModeStates,
           IdentifyStates, Em300Family
  <2> QED BY <1>2, <2>5, <2>6, <2>7 DEF Ready, v
<1> QED BY <1>1, <1>2

(* What startNextAction leaves: an object that is sound and busy, placed,  *)
(* and whose request is that of its state.                                 *)
LEMMA NextActionOutcome ==
    ASSUME NEW u, Ready(u), NEW overrun
    PROVE  LET v == startNextAction(u, overrun)
           IN  Outcome(SetupDone(u), v) /\ Post(v) /\ Placed(v) /\ Requested(v)
<1> DEFINE w == SetupDone(u)
<1>1. startNextAction(u, overrun) = actInState(w, overrun) BY DEF startNextAction, SetupDone
<1>2. Ready(w) BY SetupReady
<1> HIDE DEF w
<1>3. Outcome(w, actInState(w, overrun)) /\ Requested(actInState(w, overrun))
  BY <1>2, ActionOutcome
<1>4. Placed(actInState(w, overrun)) BY <1>2, <1>3, OutcomePlaced
<1>5. Post(actInState(w, overrun)) BY <1>2, ActionPosts DEF Ready
<1> QED BY <1>1, <1>3, <1>4, <1>5 DEF w

-----------------------------------------------------------------------------
(* The replies.                                                            *)
(* An object that has just received an answer.                             *)
AskingStates == SingleRequestStates \cup {"SetMeasurementMode", "Acquisition"}
Answerable(u) ==
    /\ Ready(u)
    /\ u.state \in AskingStates
    /\ u.state = "DeviceId" => u.connection = "Searched"

(* The end of the process, with nothing else changed.                      *)
Ends(u, v) ==
    /\ Rests(u, v) /\ SameDevice(u, v) /\ SameRegisters(u, v) /\ SameCounters(u, v)
    /\ v.request = u.request /\ v.timer = u.timer
    /\ v.fault \in {"nullSettings", "assert"}

LEMMA FaultEnds ==
    ASSUME NEW u, Ready(u), NEW fault \in {"nullSettings", "assert"}
    PROVE  LET v == [u EXCEPT !.fault = fault] IN Ends(u, v) /\ v.fault = fault
BY DEF Ready, Sound, Updaters, Ends, Rests, SameLife, SameDevice, SameRegisters, SameCounters

(* What a reply to a read changes.                                         *)
IdentifiedAs(u, type, v) ==
    /\ v.deviceType = type
    /\ v.protocol = IF type = u.deviceType THEN u.protocol ELSE ProtocolOf(type)
    /\ v.state = AfterDeviceId(v)
SystemRead(u, registers, v) ==
    /\ v.application = registers[1] /\ v.measuringSystem = registers[2]
    /\ v.desiredMeasuringSystem = DesiredApplicationSystem(u.settings)
    /\ v.state = IF /\ registers[1] = ApplicationH
                    /\ registers[2] = DesiredApplicationSystem(u.settings)
                 THEN "Acquisition" ELSE "CheckFrontSelector"
SystemChecked(u, registers, v) ==
    /\ u.protocol \in Em300Family
    /\ v.application = u.application /\ v.measuringSystem = u.measuringSystem
    /\ v.desiredMeasuringSystem = DesiredSystem(u.protocol, u.settings)
    /\ v.state = IF registers[1] = DesiredSystem(u.protocol, u.settings)
                 THEN "Acquisition" ELSE "SetMeasuringSystem"
ReadState(u, registers) ==
    CASE u.state = "PhaseReverseEnergy" -> "Serial"
      [] u.state = "Serial" -> "FirmwareVersion"
      [] u.state = "FirmwareVersion" ->
            IF u.protocol \in {"Em24"} \cup Em300Family THEN "PhaseSequence" ELSE "WaitForStart"
      [] u.state = "PhaseSequence" -> "WaitForStart"
      [] u.state = "CheckFrontSelector" ->
            IF registers[1] = 3 THEN "WaitFrontSelector"
            ELSE IF u.application # RegApplication THEN "SetApplication"
            ELSE IF u.measuringSystem # u.desiredMeasuringSystem THEN "SetMeasuringSystem"
            ELSE "Acquisition"
      [] u.state = "CheckMeasurementMode" ->
            IF registers[1] = DesiredMode(u.protocol, u.settings)
            THEN AfterMeasurementMode(u) ELSE "SetMeasurementMode"
      [] u.state = "Acquisition" -> "Acquisition"
      [] OTHER -> IF u.settings = "none" THEN "DeviceId" ELSE "Acquisition"
ReadMove(u, registers, v) ==
    /\ SameLife(u, v) /\ SameCounters(u, v) /\ v.fault = "none"
    /\ IF u.state = "DeviceId" THEN IdentifiedAs(u, registers[1], v) ELSE SameDevice(u, v)
    /\ CASE u.state = "DeviceId" -> SameRegisters(u, v)
         [] u.state = "CheckSetup" -> SystemRead(u, registers, v)
         [] u.state = "CheckMeasurementSystem" -> SystemChecked(u, registers, v)
         [] OTHER -> SameRegisters(u, v) /\ v.state = ReadState(u, registers)

(* The assertions of the handlers of replies, in the negative.             *)
ReadUnexpected(u, registers) ==
    \/ u.state = "Serial" /\ Len(registers) # 7
    \/ u.state = "CheckSetup" /\ Len(registers) # 2
    \/ u.state = "CheckMeasurementMode" /\ Len(registers) # 1
    \/ u.state = "CheckMeasurementSystem" /\ Len(registers) # 1

(* A reply to a read ends the process, or changes what it should.          *)
LEMMA ReadMoves ==
    ASSUME NEW u, Answerable(u), NEW registers \in Seq(Nat), Len(registers) > 0
    PROVE  LET v == acceptRead(u, registers)
           IN  \/ Ends(u, v) /\ (v.fault = "assert" => ReadUnexpected(u, registers))
               \/ ReadMove(u, registers, v)
<1> DEFINE v == acceptRead(u, registers)
           Moves == \/ Ends(u, v) /\ (v.fault = "assert" => ReadUnexpected(u, registers))
                    \/ ReadMove(u, registers, v)
<1> SUFFICES Moves OBVIOUS
<1>0. Ready(u) /\ u \in Updaters /\ u.fault = "none" BY DEF Answerable, Ready, Sound
<1>1. CASE u.state = "DeviceId"
  <2> DEFINE w == setDeviceType(u, registers[1])
  <2>1. v = [w EXCEPT !.state = AfterDeviceId(w)] BY <1>1 DEF acceptRead
  <2>2. registers[1] \in Nat OBVIOUS
  <2>3. w \in Updaters
    <3>1. ProtocolOf(registers[1]) \in Protocols BY DEF ProtocolOf, Protocols
    <3> QED BY <1>0, <2>2, <3>1 DEF setDeviceType, Updaters, InitialProtocols
  <2>4. /\ w.deviceType = registers[1]
        /\ w.protocol = IF registers[1] = u.deviceType THEN u.protocol ELSE ProtocolOf(registers[1])
        /\ SameLife(u, w) /\ SameCounters(u, w) /\ SameRegisters(u, w) /\ w.fault = "none"
    BY <1>0 DEF setDeviceType, Updaters, SameLife, SameCounters, SameRegisters
  <2> HIDE DEF w, v
  <2>5. /\ v.deviceType = w.deviceType /\ v.protocol = w.protocol /\ v.state = AfterDeviceId(w)
        /\ SameLife(w, v) /\ SameCounters(w, v) /\ SameRegisters(w, v) /\ v.fault = w.fault
    BY <2>1, <2>3 DEF Updaters, SameLife, SameCounters, SameRegisters
  <2>6. AfterDeviceId(v) = AfterDeviceId(w) BY <2>5 DEF AfterDeviceId
  <2>7. SameLife(u, v) /\ SameCounters(u, v) /\ SameRegisters(u, v) /\ v.fault = "none"
    BY <2>4, <2>5 DEF SameLife, SameCounters, SameRegisters
  <2>8. IdentifiedAs(u, registers[1], v) BY <2>4, <2>5, <2>6 DEF IdentifiedAs
  <2> QED BY <1>1, <2>7, <2>8 DEF ReadMove, v
<1>a. ASSUME NEW state, v = [u EXCEPT !.state = state], state = ReadState(u, registers),
             u.state \notin {"DeviceId", "CheckSetup", "CheckMeasurementSystem"}
      PROVE  Moves
  <2> HIDE DEF v
  <2>1. /\ v.state = state /\ SameLife(u, v) /\ SameCounters(u, v) /\ SameRegisters(u, v)
        /\ SameDevice(u, v) /\ v.fault = "none"
    BY <1>0, <1>a DEF Updaters, SameLife, SameCounters, SameRegisters, SameDevice
  <2>2. ReadMove(u, registers, v) BY <1>a, <2>1 DEF ReadMove
  <2> QED BY <2>2 DEF v
<1>b. ASSUME NEW fault \in {"nullSettings", "assert"}, v = [u EXCEPT !.fault = fault],
             fault = "assert" => ReadUnexpected(u, registers)
      PROVE  Moves
  <2> HIDE DEF v
  <2> QED BY <1>0, <1>b, FaultEnds DEF v
<1>2. CASE u.state \in {"PhaseReverseEnergy", "FirmwareVersion", "PhaseSequence",
                        "SetApplication", "SetMeasuringSystem", "SetMeasurementMode"}
  <2>1. v = [u EXCEPT !.state = ReadState(u, registers)] BY <1>2 DEF acceptRead, ReadState
  <2> QED BY <1>2, <1>a, <2>1
<1>3. CASE u.state = "Serial"
  <2>1. CASE Len(registers) = 7
    <3>1. v = [u EXCEPT !.state = ReadState(u, registers)]
      BY <1>3, <2>1 DEF acceptRead, ReadState, Asserting
    <3> QED BY <1>3, <1>a, <3>1
  <2>2. CASE Len(registers) # 7
    <3>1. v = [u EXCEPT !.fault = "assert"] BY <1>3, <2>2 DEF acceptRead, Asserting
    <3>2. ReadUnexpected(u, registers) BY <1>3, <2>2 DEF ReadUnexpected
    <3> HIDE DEF v, Moves
    <3> QED BY <1>b, <3>1, <3>2
  <2> QED BY <2>1, <2>2
<1>4. CASE u.state = "CheckSetup"
  <2>0. v = checkSetup(u, registers) BY <1>4 DEF acceptRead
  <2>1. CASE Len(registers) # 2
    <3>1. v = [u EXCEPT !.fault = "assert"] BY <2>0, <2>1 DEF checkSetup, Asserting
    <3>2. ReadUnexpected(u, registers) BY <1>4, <2>1 DEF ReadUnexpected
    <3> HIDE DEF v, Moves
    <3> QED BY <1>b, <3>1, <3>2
  <2>2. CASE Len(registers) = 2 /\ u.settings = "none"
    <3>1. v = [u EXCEPT !.fault = "nullSettings"]
      BY <2>0, <2>2 DEF checkSetup, Asserting, WithSettings
    <3> HIDE DEF v, Moves
    <3> QED BY <1>b, <3>1
  <2>3. CASE Len(registers) = 2 /\ u.settings # "none"
    <3> DEFINE desired == DesiredApplicationSystem(u.settings)
               state == IF registers[1] = ApplicationH /\ registers[2] = desired
                        THEN "Acquisition" ELSE "CheckFrontSelector"
    <3>1. v = [u EXCEPT !.application = registers[1], !.measuringSystem = registers[2],
                        !.desiredMeasuringSystem = desired, !.state = state]
      BY <2>0, <2>3 DEF checkSetup, Asserting, WithSettings
    <3> HIDE DEF v, desired, state
    <3>2. /\ v.state = state /\ SameLife(u, v) /\ SameCounters(u, v) /\ SameDevice(u, v)
          /\ v.fault = "none" /\ v.application = registers[1] /\ v.measuringSystem = registers[2]
          /\ v.desiredMeasuringSystem = desired
      BY <1>0, <3>1 DEF Updaters, SameLife, SameCounters, SameDevice
    <3>3. SystemRead(u, registers, v) BY <3>2 DEF SystemRead, state, desired
    <3> QED BY <1>4, <3>2, <3>3 DEF ReadMove, v
  <2> QED BY <2>1, <2>2, <2>3
<1>5. CASE u.state = "CheckFrontSelector"
  <2>0. v = checkFrontSelector(u, registers) BY <1>5 DEF acceptRead
  <2>1. PICK code : v = [u EXCEPT !.state = ReadState(u, registers), !.errorCode = code]
    BY <1>5, <2>0 DEF checkFrontSelector, ReadState
  <2> DEFINE state == ReadState(u, registers)
  <2> HIDE DEF v, state
  <2>2. /\ v.state = state /\ SameLife(u, v) /\ SameCounters(u, v) /\ SameRegisters(u, v)
        /\ SameDevice(u, v) /\ v.fault = "none"
    BY <1>0, <2>1 DEF Updaters, SameLife, SameCounters, SameRegisters, SameDevice, state
  <2> QED BY <1>5, <2>2 DEF ReadMove, v, state
<1>6. CASE u.state = "CheckMeasurementMode"
  <2>0. v = checkMeasurementMode(u, registers) BY <1>6 DEF acceptRead
  <2>1. CASE Len(registers) # 1
    <3>1. v = [u EXCEPT !.fault = "assert"] BY <2>0, <2>1 DEF checkMeasurementMode, Asserting
    <3>2. ReadUnexpected(u, registers) BY <1>6, <2>1 DEF ReadUnexpected
    <3> HIDE DEF v, Moves
    <3> QED BY <1>b, <3>1, <3>2
  <2>2. CASE Len(registers) = 1 /\ u.protocol = "Em540" /\ u.settings = "none"
    <3>1. v = [u EXCEPT !.fault = "nullSettings"]
      BY <2>0, <2>2 DEF checkMeasurementMode, Asserting, WithSettings
    <3> HIDE DEF v, Moves
    <3> QED BY <1>b, <3>1
  <2>3. CASE Len(registers) = 1 /\ (u.protocol # "Em540" \/ u.settings # "none")
    <3>1. v = [u EXCEPT !.state = ReadState(u, registers)]
      BY <1>6, <2>0, <2>3 DEF checkMeasurementMode, Asserting, WithSettings, ReadState
    <3> QED BY <1>6, <1>a, <3>1
  <2> QED BY <2>1, <2>2, <2>3
<1>7. CASE u.state = "CheckMeasurementSystem"
  <2>0. v = checkMeasurementSystem(u, registers) BY <1>7 DEF acceptRead
  <2>a. u.protocol \in Em300Family BY <1>0, <1>7 DEF Ready, Placed
  <2>1. CASE Len(registers) # 1
    <3>1. v = [u EXCEPT !.fault = "assert"] BY <2>0, <2>1 DEF checkMeasurementSystem, Asserting
    <3>2. ReadUnexpected(u, registers) BY <1>7, <2>1 DEF ReadUnexpected
    <3> HIDE DEF v, Moves
    <3> QED BY <1>b, <3>1, <3>2
  <2>2. CASE Len(registers) = 1 /\ u.protocol # "Em540" /\ u.settings = "none"
    <3>1. v = [u EXCEPT !.fault = "nullSettings"]
      BY <2>0, <2>a, <2>2 DEF checkMeasurementSystem, Asserting, WithSettings
    <3> HIDE DEF v, Moves
    <3> QED BY <1>b, <3>1
  <2>3. CASE Len(registers) = 1 /\ (u.protocol = "Em540" \/ u.settings # "none")
    <3> DEFINE desired == DesiredSystem(u.protocol, u.settings)
               state == IF registers[1] = desired THEN "Acquisition" ELSE "SetMeasuringSystem"
    <3>1. v = [u EXCEPT !.desiredMeasuringSystem = desired, !.state = state]
      BY <2>0, <2>a, <2>3 DEF checkMeasurementSystem, Asserting, WithSettings
    <3> HIDE DEF v, desired, state
    <3>2. /\ v.state = state /\ SameLife(u, v) /\ SameCounters(u, v) /\ SameDevice(u, v)
          /\ v.fault = "none" /\ v.desiredMeasuringSystem = desired
          /\ v.application = u.application /\ v.measuringSystem = u.measuringSystem
      BY <1>0, <3>1 DEF Updaters, SameLife, SameCounters, SameDevice
    <3>3. SystemChecked(u, registers, v) BY <2>a, <3>2 DEF SystemChecked, state, desired
    <3> QED BY <1>7, <3>2, <3>3 DEF ReadMove, v
  <2> QED BY <2>1, <2>2, <2>3
<1>8. CASE u.state = "Acquisition"
  <2> DEFINE w == [u EXCEPT !.commandIndex = u.commandIndex + 1]
  <2>1. v = w \/ v = [u EXCEPT !.fault = "nullSettings"]
    BY <1>8 DEF acceptRead, processAcquisitionData, WithSettings
  <2>2. CASE v = w
    <3> HIDE DEF v
    <3>1. /\ v.state = u.state /\ SameLife(u, v) /\ SameCounters(u, v) /\ SameRegisters(u, v)
          /\ SameDevice(u, v) /\ v.fault = "none"
      BY <1>0, <2>2 DEF Updaters, SameLife, SameCounters, SameRegisters, SameDevice
    <3> QED BY <1>8, <3>1 DEF ReadMove, ReadState, v
  <2>3. CASE v = [u EXCEPT !.fault = "nullSettings"]
    <3> HIDE DEF v, Moves
    <3> QED BY <1>b, <2>3
  <2> QED BY <2>1, <2>2, <2>3
<1>9. u.state \in {"DeviceId", "PhaseReverseEnergy", "FirmwareVersion", "PhaseSequence", "Serial",
                   "CheckSetup", "CheckFrontSelector", "CheckMeasurementMode", "Acquisition",
                   "CheckMeasurementSystem", "SetApplication", "SetMeasuringSystem",
                   "SetMeasurementMode"}
  BY DEF Answerable, AskingStates, SingleRequestStates, IdentifyStates
<1> HIDE DEF v, Moves
<1> QED BY <1>1, <1>2, <1>3, <1>4, <1>5, <1>6, <1>7, <1>8, <1>9

(* Whatever a reply says, the object is ready for the next action.         *)
LEMMA ReadReady ==
    ASSUME NEW u, Answerable(u), NEW registers \in Seq(Nat), Len(registers) > 0,
           ReadMove(u, registers, acceptRead(u, registers))
    PROVE  Ready(acceptRead(u, registers))
<1> DEFINE v == acceptRead(u, registers)
<1>1. Accepted(v) BY ReadAccepted DEF Answerable, Ready
<1> HIDE DEF v
<1>2. ReadMove(u, registers, v) BY DEF v
<1>3. Sound(v) /\ Free(v) /\ v.fault = "none" BY <1>1, <1>2 DEF Accepted, ReadMove
<1>4. Placed(u) /\ SameLife(u, v) BY <1>2 DEF ReadMove, Answerable, Ready
<1>5. Placed(v)
  <2>0. v.pvConnection = IF v.connection = "Connected" THEN "Connected" ELSE "Disconnected"
    BY <1>4 DEF Placed, SameLife
  <2>1. CASE u.state = "DeviceId"
    <3>1. v.connection = "Searched" /\ v.state = AfterDeviceId(v)
      BY <1>2, <1>4, <2>1 DEF ReadMove, IdentifiedAs, SameLife, Answerable
    <3>2. v.protocol \in InitialProtocols BY <1>3 DEF Sound, Updaters
    <3>3. \/ v.state \in {"DeviceId", "Serial"}
          \/ v.state = "PhaseReverseEnergy" /\ v.protocol \in {"Et340", "Em300"}
      BY <3>1, <3>2 DEF AfterDeviceId, InitialProtocols, Protocols
    <3> QED BY <2>0, <3>1, <3>3 DEF Placed, Em24SetupStates, ModeStates
  <2>2. CASE u.state = "CheckSetup"
    <3>1. v.state \in {"Acquisition", "CheckFrontSelector"} /\ v.protocol = u.protocol
      BY <1>2, <2>2 DEF ReadMove, SystemRead, SameDevice
    <3> QED BY <1>4, <2>0, <2>2, <3>1 DEF Placed, Em24SetupStates, ModeStates, IdentifyStates
  <2>3. CASE u.state = "CheckMeasurementSystem"
    <3>1. /\ v.state \in {"Acquisition", "SetMeasuringSystem"} /\ v.protocol = u.protocol
          /\ v.desiredMeasuringSystem = DesiredSystem(u.protocol, u.settings)
          /\ u.protocol \in Em300Family
      BY <1>2, <2>3 DEF ReadMove, SystemChecked, SameDevice
    <3>2. v.desiredMeasuringSystem # MeasurementSystemP1
      BY <3>1 DEF DesiredSystem, MeasurementSystemP1, MeasurementSystemP2, MeasurementSystemP3
    <3> QED BY <2>0, <3>1, <3>2 DEF Placed, Em24SetupStates, ModeStates, IdentifyStates
  <2>4. CASE u.state \notin {"DeviceId", "CheckSetup", "CheckMeasurementSystem"}
    <3>1. /\ v.protocol = u.protocol /\ v.connection = u.connection /\ v.settings = u.settings
          /\ v.desiredMeasuringSystem = u.desiredMeasuringSystem
          /\ v.state = ReadState(u, registers)
      BY <1>2, <2>4 DEF ReadMove, SameDevice, SameRegisters, SameLife
    <3>2. u.state \in AskingStates BY DEF Answerable
    <3>3. CASE u.state \in IdentifyStates
      <4>1. v.state \in {"Serial", "FirmwareVersion", "PhaseSequence", "WaitForStart"}
        BY <2>4, <3>1, <3>3 DEF ReadState, IdentifyStates
      <4>2. u.connection = "Searched" BY <1>4, <2>4, <3>3 DEF Placed
      <4> QED BY <2>0, <3>1, <4>1, <4>2 DEF Placed, Em24SetupStates, ModeStates, IdentifyStates
    <3>4. CASE u.state = "CheckFrontSelector"
      <4>1. v.state \in {"WaitFrontSelector", "SetApplication", "SetMeasuringSystem", "Acquisition"}
        BY <3>1, <3>4 DEF ReadState
      <4>2. v.protocol = "Em24" BY <1>4, <3>1, <3>4 DEF Placed, Em24SetupStates
      <4> QED BY <2>0, <4>1, <4>2 DEF Placed, ModeStates, IdentifyStates
    <3>5. CASE u.state = "CheckMeasurementMode"
      <4>1. \/ v.state = "CheckMeasurementSystem" /\ v.protocol \in Em300Family
            \/ v.state = "SetMeasurementMode"
            \/ v.state = "Acquisition"
        BY <3>1, <3>5 DEF ReadState, AfterMeasurementMode
      <4>2. v.protocol \in Em300Family \cup {"Et112"} BY <1>4, <3>1, <3>5 DEF Placed, ModeStates
      <4> QED BY <2>0, <4>1, <4>2 DEF Placed, Em24SetupStates, IdentifyStates
    <3>6. CASE u.state \in {"Acquisition", "SetApplication", "SetMeasuringSystem", "SetMeasurementMode"}
      <4>1. v.state \in {"DeviceId", "Acquisition"} BY <3>1, <3>6 DEF ReadState
      <4> QED BY <2>0, <4>1 DEF Placed, Em24SetupStates, ModeStates, IdentifyStates
    <3> QED BY <2>4, <3>2, <3>3, <3>4, <3>5, <3>6 DEF AskingStates, SingleRequestStates
  <2> QED BY <2>1, <2>2, <2>3, <2>4
<1> QED BY <1>3, <1>5 DEF Ready, v

(* A success resets the counters, and changes nothing else.                *)
CountersZero(u) == [u EXCEPT !.timeoutCount = 0, !.errorCount = 0]
LEMMA ZeroReady ==
    ASSUME NEW u, Ready(u)
    PROVE  LET v == CountersZero(u)
           IN  /\ Ready(v)
               /\ Rests(u, v) /\ SameDevice(u, v) /\ SameRegisters(u, v)
               /\ v.timeoutCount = 0 /\ v.errorCount = 0
<1> DEFINE v == CountersZero(u)
<1>1. /\ v \in Updaters
      /\ Rests(u, v) /\ SameDevice(u, v) /\ SameRegisters(u, v)
      /\ v.timeoutCount = 0 /\ v.errorCount = 0
      /\ v.request = u.request /\ v.timer = u.timer /\ v.commandIndex = u.commandIndex
      /\ v.fault = u.fault
  BY DEF CountersZero, Ready, Sound, Updaters, Rests, SameLife, SameDevice, SameRegisters
<1> HIDE DEF v
<1>2. Sound(v) /\ Free(v)
  BY <1>1, UpdaterAssumption DEF Ready, Sound, Free, KnownProtocol, Rests, SameLife, SameDevice
<1>3. Placed(v) BY <1>1 DEF Ready, Placed, Rests, SameLife, SameDevice, SameRegisters
<1> QED BY <1>1, <1>2, <1>3 DEF Ready, v

(* A write that has been carried out.                                      *)
WriteState(u) ==
    CASE u.state = "SetApplication" ->
            IF u.measuringSystem = u.desiredMeasuringSystem THEN "Acquisition"
            ELSE "SetMeasuringSystem"
      [] u.state = "SetMeasuringSystem" -> "Acquisition"
      [] u.state = "SetMeasurementMode" -> AfterMeasurementMode(u)
      [] OTHER -> RestartState(u)
WriteUnexpected(u, reg, value) ==
    \/ u.state = "SetApplication" /\ ~(reg = RegApplication /\ value = ApplicationH)
    \/ /\ u.state = "SetMeasuringSystem"
       /\ ~(/\ reg \in {RegMeasurementSystem, RegEm300MeasurementSystem}
            /\ value = u.desiredMeasuringSystem)
StateMove(u, v) ==
    /\ SameLife(u, v) /\ SameCounters(u, v) /\ SameDevice(u, v) /\ SameRegisters(u, v)
    /\ v.fault = "none"

LEMMA WriteMoves ==
    ASSUME NEW u, Answerable(u), NEW reg, NEW value
    PROVE  LET v == acceptWrite(u, reg, value)
           IN  \/ Ends(u, v) /\ WriteUnexpected(u, reg, value)
               \/ StateMove(u, v) /\ v.state = WriteState(u) /\ Ready(v)
<1> DEFINE v == acceptWrite(u, reg, value)
<1>0. Ready(u) /\ u \in Updaters /\ u.fault = "none" BY DEF Answerable, Ready, Sound
<1>1. CASE WriteUnexpected(u, reg, value)
  <2>1. v = [u EXCEPT !.fault = "assert"] BY <1>1 DEF acceptWrite, WriteUnexpected, Asserting
  <2>2. Ends(u, v)
    <3> HIDE DEF v
    <3> QED BY <1>0, <2>1, FaultEnds
  <2> QED BY <1>1, <2>2
<1>2. CASE ~WriteUnexpected(u, reg, value)
  <2> DEFINE state == WriteState(u)
  <2>1. v = [u EXCEPT !.state = state]
    BY <1>2 DEF acceptWrite, WriteUnexpected, WriteState, Asserting
  <2>2. state \in SetupStates \cup {"Acquisition"}
    BY DEF WriteState, AfterMeasurementMode, RestartState, SetupStates
  <2> HIDE DEF v, state
  <2>3. StateMove(u, v) /\ v.state = state
    BY <1>0, <2>1 DEF Updaters, StateMove, SameLife, SameCounters, SameDevice, SameRegisters
  <2>4. Sound(v) /\ Free(v)
    BY <1>0, <2>1, <2>2, <2>3, StateAccepted DEF Ready, Accepted, StateMove
  <2>5. Placed(v)
    <3>1. /\ v.protocol = u.protocol /\ v.connection = u.connection
          /\ v.pvConnection = u.pvConnection
          /\ v.desiredMeasuringSystem = u.desiredMeasuringSystem
      BY <2>3 DEF StateMove, SameLife, SameDevice, SameRegisters
    <3>2. \/ v.state = "Acquisition"
          \/ v.state = "SetMeasuringSystem" /\ u.state = "SetApplication"
          \/ v.state = "CheckMeasurementSystem" /\ u.protocol \in Em300Family
          \/ v.state = "CheckSetup" /\ u.protocol = "Em24"
      BY <2>3 DEF state, WriteState, AfterMeasurementMode, RestartState
    <3> QED BY <1>0, <3>1, <3>2 DEF Ready, Placed, Em24SetupStates, ModeStates, IdentifyStates
  <2> QED BY <2>3, <2>4, <2>5 DEF StateMove, Ready, v, state
<1> QED BY <1>1, <1>2

-----------------------------------------------------------------------------
(* The handlers.                                                           *)
(* disconnectSensor: everything a listener could see is gone.              *)
Drops(v) ==
    /\ v.state = "WaitOnConnectionLost" /\ v.settings = "none"
    /\ v.connection = "Disconnected" /\ v.pvConnection = "Disconnected"

LEMMA DisconnectDrops ==
    ASSUME NEW u, Ready(u)
    PROVE  LET v == disconnectSensor(u)
           IN  /\ Ready(v) /\ Drops(v)
               /\ SameDevice(u, v) /\ SameRegisters(u, v)
               /\ v.setupRequested = u.setupRequested
<1> DEFINE v == disconnectSensor(u)
<1>1. Sound(v) /\ Free(v) BY DisconnectSound DEF Ready
<1>2. /\ Drops(v) /\ SameDevice(u, v) /\ SameRegisters(u, v) /\ v.fault = u.fault
      /\ v.setupRequested = u.setupRequested
  BY DEF disconnectSensor, Ready, Sound, Updaters, Drops, SameDevice, SameRegisters
<1> HIDE DEF v
<1>3. Placed(v) BY <1>2 DEF Placed, Drops, Em24SetupStates, ModeStates, IdentifyStates
<1> QED BY <1>1, <1>2, <1>3 DEF Ready, v

(* What a handler makes of an object: the process ends; or an unknown      *)
(* device is dropped; or an action starts from an object y, with the same  *)
(* connection and settings, or dropped.                                    *)
ActsFrom(u, y, v) ==
    /\ Ready(y)
    /\ SameLife(u, y) \/ Drops(y)
    /\ u.state \notin {"DeviceId", "PhaseReverseEnergy"} => y.protocol = u.protocol
    /\ \E overrun \in BOOLEAN : v = startNextAction(y, overrun)
Result(u, v) ==
    \/ Ends(u, v)
    \/ Drops(v) /\ Free(v) /\ v.fault = "none"
    \/ \E y \in Updaters : ActsFrom(u, y, v)

LEMMA ActsFromResult ==
    ASSUME NEW u, NEW y, NEW v, ActsFrom(u, y, v)
    PROVE  Result(u, v)
BY DEF Result, ActsFrom, Ready, Sound

(* onErrorReceived counts the failure and repeats the request, or drops    *)
(* the sensor.                                                             *)
LEMMA WithoutReverseReady ==
    ASSUME NEW u, Answerable(u)
    PROVE  LET v == WithoutReverse(u)
           IN  /\ Ready(v) /\ SameLife(u, v) /\ SameCounters(u, v) /\ SameRegisters(u, v)
               /\ v.deviceType = u.deviceType
               /\ IF u.state = "PhaseReverseEnergy"
                  THEN v.protocol = "Em300" /\ v.state = "Serial" ELSE v = u
<1> DEFINE v == WithoutReverse(u)
<1>1. CASE u.state # "PhaseReverseEnergy"
  BY <1>1 DEF WithoutReverse, Answerable, SameLife, SameCounters, SameRegisters
<1>2. CASE u.state = "PhaseReverseEnergy"
  <2>1. v = [u EXCEPT !.protocol = "Em300", !.state = "Serial"] BY <1>2 DEF WithoutReverse
  <2> HIDE DEF v
  <2>2. v \in Updaters
    BY <2>1, ZenonT(40)
       DEF Answerable, Ready, Sound, Updaters, InitialProtocols, Protocols, States, IdentifyStates
  <2>3. /\ SameLife(u, v) /\ SameCounters(u, v) /\ SameRegisters(u, v)
        /\ v.deviceType = u.deviceType /\ v.protocol = "Em300" /\ v.state = "Serial"
        /\ v.fault = u.fault /\ v.request = u.request /\ v.timer = u.timer
    BY <2>1 DEF Answerable, Ready, Sound, Updaters, SameLife, SameCounters, SameRegisters
  <2>4. Sound(v) /\ Free(v)
    BY <1>2, <2>2, <2>3
       DEF Answerable, Ready, Sound, Free, KnownProtocol, Protocols, IdentifyStates, SameLife,
           SameCounters
  <2>5. Placed(v)
    BY <1>2, <2>3
       DEF Answerable, Ready, Placed, SameLife, Em24SetupStates, ModeStates, IdentifyStates
  <2> QED BY <1>2, <2>3, <2>4, <2>5 DEF Answerable, Ready, v
<1> QED BY <1>1, <1>2

LEMMA CountReady ==
    ASSUME NEW u, Ready(u), ~Exhausted(u), NEW error
    PROVE  LET v == countFailure(u, error)
           IN  /\ Ready(v)
               /\ Rests(u, v) /\ SameDevice(u, v) /\ SameRegisters(u, v)
               /\ v.table = u.table /\ v.commandIndex = u.commandIndex
               /\ v.acquisitionIndex = u.acquisitionIndex
<1> DEFINE v == countFailure(u, error)
<1>1. u.timeoutCount + 1 <= MaxTimeoutCount /\ u.errorCount + 1 <= MaxErrorCount
  BY UpdaterAssumption DEF Ready, Sound, Updaters, Exhausted
<1>2. Sound(v) /\ Free(v)
  BY <1>1 DEF countFailure, Ready, Sound, Free, Updaters, KnownProtocol
<1>3. /\ Rests(u, v) /\ SameDevice(u, v) /\ SameRegisters(u, v) /\ v.fault = u.fault
      /\ v.table = u.table /\ v.commandIndex = u.commandIndex
      /\ v.acquisitionIndex = u.acquisitionIndex
  BY DEF countFailure, Ready, Sound, Updaters, Rests, SameLife, SameDevice, SameRegisters
<1> HIDE DEF v
<1>4. Placed(v) BY <1>3 DEF Ready, Placed, Rests, SameLife, SameDevice, SameRegisters
<1> QED BY <1>2, <1>3, <1>4 DEF Ready, v

LEMMA ErrorResult ==
    ASSUME NEW u, Answerable(u), NEW error, NEW overrun \in BOOLEAN
    PROVE  Result(u, onErrorReceived(u, error, overrun))
<1> DEFINE w == WithoutReverse(u)
           v == onErrorReceived(u, error, overrun)
<1>1. /\ Ready(w) /\ SameLife(u, w)
      /\ u.state \notin {"DeviceId", "PhaseReverseEnergy"} => w.protocol = u.protocol
  BY WithoutReverseReady
<1>2. v = startNextAction(IF Exhausted(w) THEN disconnectSensor(w) ELSE countFailure(w, error), overrun)
  BY DEF onErrorReceived
<1> HIDE DEF w, v
<1>3. CASE Exhausted(w)
  <2>1. ActsFrom(u, disconnectSensor(w), v)
    BY <1>1, <1>2, <1>3, DisconnectDrops DEF ActsFrom, SameDevice
  <2> QED BY <2>1, ActsFromResult DEF v
<1>4. CASE ~Exhausted(w)
  <2>1. /\ Ready(countFailure(w, error)) /\ SameLife(w, countFailure(w, error))
        /\ countFailure(w, error).protocol = w.protocol
    BY <1>1, <1>4, CountReady DEF Rests, SameDevice
  <2>2. SameLife(u, countFailure(w, error)) BY <1>1, <2>1 DEF SameLife
  <2>3. ActsFrom(u, countFailure(w, error), v) BY <1>1, <1>2, <1>4, <2>1, <2>2 DEF ActsFrom
  <2> QED BY <2>3, ActsFromResult DEF v
<1> QED BY <1>3, <1>4

(* onReadCompleted.                                                        *)
LEMMA ReadCompletedResult ==
    ASSUME NEW u, Answerable(u), NEW registers \in Seq(Nat), Len(registers) > 0,
           NEW overrun \in BOOLEAN
    PROVE  Result(u, onReadCompleted(u, registers, overrun))
<1> DEFINE w == acceptRead(u, registers)
           v == onReadCompleted(u, registers, overrun)
<1>1. Ends(u, w) \/ ReadMove(u, registers, w) BY ReadMoves
<1>2. CASE Ends(u, w)
  <2>1. v = w BY <1>2 DEF onReadCompleted, Ends
  <2> HIDE DEF v, w
  <2>2. Result(u, v) BY <1>2, <2>1 DEF Result
  <2> QED BY <2>2 DEF v
<1>3. CASE ReadMove(u, registers, w)
  <2>1. Ready(w) BY <1>3, ReadReady
  <2>2. /\ w.fault = "none" /\ SameLife(u, w)
        /\ u.state # "DeviceId" => w.protocol = u.protocol
    BY <1>3 DEF ReadMove, SameDevice
  <2>3. v = IF u.state = "DeviceId" /\ w.protocol = "Unknown" THEN disconnectSensor(w)
            ELSE IF u.state = "Serial" /\ SerialSize(registers) < 2
            THEN onErrorReceived(u, "Timeout", overrun)
            ELSE startNextAction(CountersZero(w), overrun)
    BY <2>2 DEF onReadCompleted, CountersZero
  <2> HIDE DEF w, v
  <2>4. Result(u, disconnectSensor(w))
    BY <2>1, DisconnectDrops DEF Result, Ready
  <2>5. Result(u, onErrorReceived(u, "Timeout", overrun)) BY ErrorResult
  <2>6. Result(u, startNextAction(CountersZero(w), overrun))
    <3>1. /\ Ready(CountersZero(w)) /\ SameLife(w, CountersZero(w))
          /\ CountersZero(w).protocol = w.protocol
      BY <2>1, ZeroReady DEF Rests, SameDevice
    <3>2. SameLife(u, CountersZero(w)) BY <2>2, <3>1 DEF SameLife
    <3>3. ActsFrom(u, CountersZero(w), startNextAction(CountersZero(w), overrun))
      BY <2>2, <3>1, <3>2 DEF ActsFrom
    <3> QED BY <3>3, ActsFromResult
  <2> QED BY <2>3, <2>4, <2>5, <2>6 DEF v
<1> QED BY <1>1, <1>2, <1>3

(* onWriteCompleted.                                                       *)
LEMMA WriteCompletedResult ==
    ASSUME NEW u, Answerable(u), NEW reg, NEW value, NEW overrun \in BOOLEAN
    PROVE  Result(u, onWriteCompleted(u, reg, value, overrun))
<1> DEFINE w == acceptWrite(u, reg, value)
           v == onWriteCompleted(u, reg, value, overrun)
<1>1. Ends(u, w) \/ (StateMove(u, w) /\ Ready(w)) BY WriteMoves
<1>2. CASE Ends(u, w)
  <2>1. v = w BY <1>2 DEF onWriteCompleted, Ends
  <2> HIDE DEF v, w
  <2>2. Result(u, v) BY <1>2, <2>1 DEF Result
  <2> QED BY <2>2 DEF v
<1>3. CASE StateMove(u, w) /\ Ready(w)
  <2>1. v = startNextAction(CountersZero(w), overrun)
    BY <1>3 DEF onWriteCompleted, CountersZero, StateMove
  <2> HIDE DEF v, w
  <2>2. /\ Ready(CountersZero(w)) /\ SameLife(w, CountersZero(w))
        /\ CountersZero(w).protocol = u.protocol
    BY <1>3, ZeroReady DEF Rests, SameDevice, StateMove
  <2>3. SameLife(u, CountersZero(w)) BY <1>3, <2>2 DEF SameLife, StateMove
  <2>4. ActsFrom(u, CountersZero(w), v) BY <2>1, <2>2, <2>3 DEF ActsFrom
  <2> QED BY <2>4, ActsFromResult DEF v
<1> QED BY <1>1, <1>2, <1>3

(* onWaitFinished: the timer runs in three states only.                    *)
TimerState(u) ==
    CASE u.state = "Wait" -> "Acquisition"
      [] u.state = "WaitFrontSelector" -> "CheckSetup"
      [] u.state = "WaitOnConnectionLost" -> "DeviceId"
LEMMA TimerMoves ==
    ASSUME NEW u, Ready(u), u.state \in TimerStates, NEW overrun \in BOOLEAN
    PROVE  LET y == [u EXCEPT !.state = TimerState(u)]
           IN  /\ onWaitFinished(u, overrun) = startNextAction(y, overrun)
               /\ Ready(y) /\ StateMove(u, y) /\ y.state = TimerState(u)
<1> DEFINE state == TimerState(u)
           y == [u EXCEPT !.state = state]
<1>1. onWaitFinished(u, overrun) = startNextAction(y, overrun)
  BY DEF onWaitFinished, TimerState, TimerStates
<1>2. \/ u.state = "Wait" /\ state = "Acquisition"
      \/ u.state = "WaitFrontSelector" /\ state = "CheckSetup"
      \/ u.state = "WaitOnConnectionLost" /\ state = "DeviceId"
  BY DEF TimerState, TimerStates
<1> HIDE DEF state
<1>3. y \in Updaters
  BY <1>2 DEF Ready, Sound, Updaters, States, IdentifyStates, SetupStates, MeasureStates
<1>4. /\ StateMove(u, y) /\ y.state = state
      /\ y.request = u.request /\ y.timer = u.timer /\ y.commandIndex = u.commandIndex
  BY DEF Ready, Sound, Updaters, StateMove, SameLife, SameCounters, SameDevice, SameRegisters
<1> HIDE DEF y
<1>5. Sound(y) /\ Free(y)
  BY <1>2, <1>3, <1>4
     DEF Ready, Sound, Free, StateMove, SameLife, SameCounters, SameDevice, KnownProtocol,
         IdentifyStates
<1>6. Placed(y)
  BY <1>2, <1>4
     DEF Ready, Placed, StateMove, SameLife, SameDevice, Em24SetupStates, ModeStates,
         IdentifyStates
<1> QED BY <1>1, <1>4, <1>5, <1>6 DEF Ready, StateMove, y, state

(* startMeasurements.                                                      *)
StartState(u) == IF u.protocol = "Em24" THEN "CheckSetup" ELSE "CheckMeasurementMode"
LEMMA StartMoves ==
    ASSUME NEW u, Ready(u), u.state = "WaitForStart", u.settings # "none",
           NEW overrun \in BOOLEAN
    PROVE  LET y == [u EXCEPT !.acquisitionIndex = 0, !.commandIndex = 0, !.state = StartState(u)]
           IN  /\ startMeasurements(u, overrun) = startNextAction(y, overrun)
               /\ Ready(y) /\ StateMove(u, y) /\ y.state = StartState(u)
<1> DEFINE state == StartState(u)
           y == [u EXCEPT !.acquisitionIndex = 0, !.commandIndex = 0, !.state = state]
<1>1. u.protocol \in Em300Family \cup {"Em24", "Et112"}
  BY DEF Ready, Sound, KnownProtocol, Protocols, Em300Family
<1>2. startMeasurements(u, overrun) = startNextAction(y, overrun)
  BY <1>1 DEF startMeasurements, Asserting, StartState, Em300Family
<1>3. state \in {"CheckSetup", "CheckMeasurementMode"} BY DEF StartState
<1>4. state = "CheckSetup" <=> u.protocol = "Em24" BY DEF StartState
<1> HIDE DEF state
<1>5. y \in Updaters BY <1>3 DEF Ready, Sound, Updaters, States, SetupStates
<1>6. /\ StateMove(u, y) /\ y.state = state
      /\ y.request = u.request /\ y.timer = u.timer
  BY DEF Ready, Sound, Updaters, StateMove, SameLife, SameCounters, SameDevice, SameRegisters
<1> HIDE DEF y
<1>7. Sound(y) /\ Free(y)
  BY <1>3, <1>5, <1>6
     DEF Ready, Sound, Free, StateMove, SameLife, SameCounters, SameDevice, KnownProtocol,
         IdentifyStates
<1>8. Placed(y)
  BY <1>1, <1>3, <1>4, <1>6
     DEF Ready, Placed, StateMove, SameLife, SameDevice, Em24SetupStates, ModeStates,
         IdentifyStates
<1> QED BY <1>2, <1>6, <1>7, <1>8 DEF Ready, StateMove, y, state

LEMMA MoveResult ==
    ASSUME NEW u, NEW y, Ready(y), StateMove(u, y), NEW overrun \in BOOLEAN
    PROVE  Result(u, startNextAction(y, overrun))
<1>1. ActsFrom(u, y, startNextAction(y, overrun)) BY DEF ActsFrom, StateMove, SameDevice
<1> QED BY <1>1, ActsFromResult

(* A step of the life cycle, or none.                                      *)
Lives(u, v) ==
    LET HasSettings(x) == x.settings # "none"
    IN  \/ /\ v.connection = u.connection /\ v.pvConnection = u.pvConnection
           /\ HasSettings(v) <=> HasSettings(u)
        \/ /\ u.connection = "Disconnected" /\ v.connection = "Searched"
           /\ v.pvConnection = u.pvConnection
           /\ HasSettings(v) <=> HasSettings(u)
        \/ /\ u.connection = "Searched" /\ v.connection = "Detected" /\ HasSettings(v)
           /\ v.pvConnection = u.pvConnection
        \/ /\ u.connection = "Detected"
           /\ v.connection = "Connected" /\ v.pvConnection = "Connected"
           /\ HasSettings(v) <=> HasSettings(u)
        \/ /\ u.connection # "Disconnected"
           /\ v.connection = "Disconnected" /\ v.pvConnection = "Disconnected"
           /\ ~HasSettings(v)

(* An action takes at most one step of the life cycle.                     *)
LEMMA OutcomeLives ==
    ASSUME NEW u, Ready(u), NEW v, Outcome(u, v)
    PROVE  Lives(u, v)
<1>1. u.connection \in ConnectionStates BY DEF Ready, Sound, Updaters
<1>2. CASE Rests(u, v) BY <1>2 DEF Lives, Rests, SameLife
<1>3. CASE Searches(u, v)
  <2>1. u.connection \in {"Disconnected", "Searched"}
    BY <1>3 DEF Ready, Sound, Searches, IdentifyStates
  <2> QED BY <1>3, <2>1 DEF Lives, Searches
<1>4. CASE Detects(u, v)
  <2>1. u.connection = "Searched" BY <1>4 DEF Ready, Placed, Detects
  <2> QED BY <1>4, <2>1 DEF Lives, Detects
<1>5. CASE Measures(u, v)
  <2>1. u.connection \in {"Detected", "Connected"}
    BY <1>1, <1>5 DEF Ready, Sound, Measures, ConnectionStates
  <2>2. u.connection = "Connected" => u.pvConnection = "Connected" BY DEF Ready, Placed
  <2> QED BY <1>5, <2>1, <2>2 DEF Lives, Measures
<1> QED BY <1>2, <1>3, <1>4, <1>5 DEF Outcome

(* A dropped object stays dropped in the action that follows, whether it   *)
(* waits for its timer or begins the setup that was requested before.      *)
LEMMA DroppedRests ==
    ASSUME NEW y, Ready(y), Drops(y), NEW v, Outcome(SetupDone(y), v)
    PROVE  /\ v.settings = "none"
           /\ v.connection = "Disconnected" /\ v.pvConnection = "Disconnected"
<1> DEFINE z == SetupDone(y)
<1>1. /\ z.settings = "none" /\ z.connection = "Disconnected" /\ z.pvConnection = "Disconnected"
      /\ z.state = "WaitOnConnectionLost" \/ z.state = SetupState(y)
  BY SetupReady DEF Drops
<1>2. z.state \in {"WaitOnConnectionLost", "CheckSetup", "CheckMeasurementMode"}
  BY <1>1 DEF SetupState, Drops
<1> HIDE DEF z
<1>3. Rests(z, v) BY <1>2 DEF Outcome, Searches, Detects, Measures, MeasureStates, z
<1> QED BY <1>1, <1>3 DEF Rests, SameLife

LEMMA ActsFromLives ==
    ASSUME NEW u, Ready(u), NEW y, NEW v, ActsFrom(u, y, v)
    PROVE  Lives(u, v)
<1> DEFINE z == SetupDone(y)
<1>1. Ready(y) /\ (SameLife(u, y) \/ Drops(y)) BY DEF ActsFrom
<1>2. Outcome(z, v) BY NextActionOutcome DEF ActsFrom
<1>3. /\ Ready(z) /\ z.settings = y.settings /\ z.connection = y.connection
      /\ z.pvConnection = y.pvConnection
  BY <1>1, SetupReady
<1> HIDE DEF z
<1>4. CASE SameLife(u, y)
  <2>1. Lives(z, v) BY <1>2, <1>3, OutcomeLives
  <2>2. z.settings = u.settings /\ z.connection = u.connection /\ z.pvConnection = u.pvConnection
    BY <1>3, <1>4 DEF SameLife
  <2> QED BY <2>1, <2>2 DEF Lives
<1>5. CASE Drops(y)
  <2>1. /\ v.settings = "none"
        /\ v.connection = "Disconnected" /\ v.pvConnection = "Disconnected"
    BY <1>1, <1>2, <1>5, DroppedRests DEF z
  <2>2. u.connection = "Disconnected" => u.pvConnection = "Disconnected" /\ u.settings = "none"
    BY DEF Ready, Sound, Placed
  <2> QED BY <2>1, <2>2 DEF Lives
<1> QED BY <1>1, <1>4, <1>5

(* What every handler leaves behind.                                       *)
LEMMA ResultKeeps ==
    ASSUME NEW u, Ready(u), NEW v, Result(u, v)
    PROVE  Placed(v) /\ Requested(v) /\ Lives(u, v)
<1>1. CASE Ends(u, v)
  <2>1. Placed(v)
    BY <1>1 DEF Ready, Ends, Rests, SameLife, SameDevice, SameRegisters, Placed
  <2>2. Requested(v) BY <1>1 DEF Ready, Free, Ends, Requested
  <2>3. Lives(u, v) BY <1>1 DEF Ends, Rests, SameLife, Lives
  <2> QED BY <2>1, <2>2, <2>3
<1>2. CASE Drops(v) /\ Free(v) /\ v.fault = "none"
  <2>1. Placed(v) BY <1>2 DEF Drops, Placed, Em24SetupStates, ModeStates, IdentifyStates
  <2>2. Requested(v) BY <1>2 DEF Free, Requested
  <2>3. u.connection = "Disconnected" => u.pvConnection = "Disconnected" /\ u.settings = "none"
    BY DEF Ready, Sound, Placed
  <2>4. Lives(u, v) BY <1>2, <2>3 DEF Drops, Lives
  <2> QED BY <2>1, <2>2, <2>4
<1>3. CASE \E y \in Updaters : ActsFrom(u, y, v)
  <2>1. PICK y \in Updaters : ActsFrom(u, y, v) BY <1>3
  <2>2. Placed(v) /\ Requested(v) BY <2>1, NextActionOutcome DEF ActsFrom
  <2> QED BY <2>1, <2>2, ActsFromLives
<1> QED BY <1>1, <1>2, <1>3 DEF Result

-----------------------------------------------------------------------------
(* The steps of the specification.                                         *)
RInv == Placed(updater) /\ Requested(updater)

(* An answer finds an object that is ready for it.                         *)
LEMMA AnsweredAnswerable ==
    ASSUME IInv, RInv, Asking
    PROVE  /\ Answerable(Answered)
           /\ Rests(updater, Answered) /\ SameDevice(updater, Answered)
           /\ SameRegisters(updater, Answered) /\ SameCounters(updater, Answered)
           /\ Answered.table = updater.table /\ Answered.commandIndex = updater.commandIndex
           /\ Answered.acquisitionIndex = updater.acquisitionIndex
           /\ Asked(updater) /\ Sent(updater.request)
<1> DEFINE u == Answered
<1>1. Sound(u) /\ Free(u) /\ Sent(updater.request) BY AnsweredFree DEF IInv
<1>2. /\ Rests(updater, u) /\ SameDevice(updater, u) /\ SameRegisters(updater, u)
      /\ SameCounters(updater, u) /\ u.fault = updater.fault
      /\ u.table = updater.table /\ u.commandIndex = updater.commandIndex
      /\ u.acquisitionIndex = updater.acquisitionIndex
  BY DEF IInv, Post, Sound, Updaters, Answered, Rests, SameLife, SameDevice, SameRegisters,
         SameCounters
<1> HIDE DEF u
<1>3. Asked(updater) BY DEF RInv, Requested, Asking
<1>4. Placed(u) BY <1>2 DEF RInv, Placed, Rests, SameLife, SameDevice, SameRegisters
<1>5. Answerable(u)
  BY <1>1, <1>2, <1>3, <1>4 DEF Answerable, Ready, Asking, Running, Asked, AskingStates, Rests, SameLife
<1> QED BY <1>1, <1>2, <1>3, <1>5 DEF u

LEMMA AnswerHandled ==
    ASSUME IInv, RInv, Answer
    PROVE  Answerable(Answered) /\ Result(Answered, updater')
<1>0. Answerable(Answered) /\ Sent(updater.request)
  BY AnsweredAnswerable
     DEF Answer, Reply, BusError, ReadAnswered, ShortSerialAnswered, WriteAnswered, TimedOut,
         CrcErrorReceived, ReadRefused, ExceptionReceived, StaleReplyReceived
<1>a. meter \in MeterModels /\ Sent(late) BY DEF IInv
<1>1. CASE ReadAnswered
  <2>1. PICK overrun \in BOOLEAN :
           updater' = onReadCompleted(Answered, ReadReply(meter, updater.request), overrun)
    BY <1>1 DEF ReadAnswered
  <2> DEFINE registers == ReadReply(meter, updater.request)
  <2>2. registers \in Seq(Nat) /\ Len(registers) > 0
    BY <1>0, <1>1, <1>a, ReplyReadable DEF ReadAnswered
  <2> HIDE DEF registers
  <2>3. Result(Answered, onReadCompleted(Answered, registers, overrun))
    BY <1>0, <2>2, ReadCompletedResult
  <2> QED BY <1>0, <2>1, <2>3 DEF registers
<1>2. CASE ShortSerialAnswered
  <2>1. PICK overrun \in BOOLEAN : updater' = onReadCompleted(Answered, ShortSerial, overrun)
    BY <1>2 DEF ShortSerialAnswered
  <2> QED BY <1>0, <2>1, ShortSerialReadable, ReadCompletedResult
<1>3. CASE WriteAnswered
  BY <1>0, <1>3, WriteCompletedResult DEF WriteAnswered
<1>4. CASE TimedOut \/ CrcErrorReceived \/ ReadRefused \/ ExceptionReceived
  BY <1>0, <1>4, ErrorResult DEF TimedOut, CrcErrorReceived, ReadRefused, ExceptionReceived
<1>5. CASE StaleReplyReceived /\ late.op = "write"
  BY <1>0, <1>5, WriteCompletedResult DEF StaleReplyReceived
<1>6. CASE StaleReplyReceived /\ late.op # "write"
  <2>1. late.op = "read" BY <1>6, <1>a DEF StaleReplyReceived, Sent, Requests
  <2> DEFINE registers == ReadReply(meter, late)
  <2>2. registers \in Seq(Nat) /\ Len(registers) > 0 BY <1>a, <2>1, ReplyReadable
  <2>3. PICK overrun \in BOOLEAN : updater' = onReadCompleted(Answered, registers, overrun)
    BY <1>6 DEF StaleReplyReceived
  <2> HIDE DEF registers
  <2> QED BY <1>0, <2>2, <2>3, ReadCompletedResult
<1> QED BY <1>0, <1>1, <1>2, <1>3, <1>4, <1>5, <1>6 DEF Answer, Reply, BusError

LEMMA WaitHandled ==
    ASSUME IInv, RInv, WaitFinished
    PROVE  LET u == [updater EXCEPT !.timer = FALSE]
           IN  /\ Ready(u) /\ StateMove(updater, u) /\ u.state = updater.state
               /\ u.state \in TimerStates
               /\ \E overrun \in BOOLEAN : updater' = onWaitFinished(u, overrun)
               /\ Result(u, updater')
<1> DEFINE u == [updater EXCEPT !.timer = FALSE]
<1>1. u \in Updaters BY DEF IInv, Post, Sound, Updaters
<1>2. /\ ~u.timer /\ u.request = updater.request /\ u.state = updater.state
      /\ StateMove(updater, u) /\ u.commandIndex = updater.commandIndex
  BY DEF IInv, Post, Sound, Updaters, StateMove, SameLife, SameCounters, SameDevice,
         SameRegisters, WaitFinished, Running
<1>3. updater.request.op = "none" BY DEF WaitFinished, Running, IInv, Post, Busy
<1>4. PICK overrun \in BOOLEAN : updater' = onWaitFinished(u, overrun) BY DEF WaitFinished
<1>5. updater.state \in TimerStates BY DEF WaitFinished, RInv, Requested
<1> HIDE DEF u
<1>6. Sound(u) /\ Free(u)
  BY <1>1, <1>2, <1>3
     DEF IInv, Post, Sound, Free, KnownProtocol, StateMove, SameLife, SameCounters, SameDevice
<1>7. Placed(u)
  BY <1>2 DEF RInv, Placed, StateMove, SameLife, SameDevice, SameRegisters
<1>8. Ready(u) BY <1>2, <1>6, <1>7 DEF Ready, StateMove
<1>9. Result(u, updater')
  <2> DEFINE y == [u EXCEPT !.state = TimerState(u)]
  <2>1. updater' = startNextAction(y, overrun) /\ Ready(y) /\ StateMove(u, y)
    BY <1>2, <1>4, <1>5, <1>8, TimerMoves
  <2> HIDE DEF y
  <2> QED BY <2>1, MoveResult
<1> QED BY <1>2, <1>4, <1>5, <1>8, <1>9 DEF u

LEMMA InitializedHandled ==
    ASSUME IInv, RInv, SettingsInitialized
    PROVE  /\ Ready(updater)
           /\ Result(updater, updater')
<1>1. Ready(updater) BY DEF SettingsInitialized, Running, IInv, RInv, Post, Busy, Ready, Free
<1>2. PICK overrun \in BOOLEAN : updater' = startMeasurements(updater, overrun)
  BY DEF SettingsInitialized
<1> DEFINE y == [updater EXCEPT !.acquisitionIndex = 0, !.commandIndex = 0,
                                !.state = StartState(updater)]
<1>3. updater' = startNextAction(y, overrun) /\ Ready(y) /\ StateMove(updater, y)
  BY <1>1, <1>2, StartMoves DEF SettingsInitialized
<1> HIDE DEF y
<1>4. Result(updater, updater') BY <1>3, MoveResult
<1> QED BY <1>1, <1>4

(* A change of settings touches nothing else.                              *)
LEMMA ChangeKeeps ==
    ASSUME IInv, RInv, SettingsChanged
    PROVE  /\ SameDevice(updater, updater') /\ SameRegisters(updater, updater')
           /\ SameCounters(updater, updater')
           /\ updater'.state = updater.state /\ updater'.settings \in Modes
           /\ updater.settings # "none" /\ updater'.settings # "none"
           /\ updater'.setupRequested /\ updater'.fault = updater.fault
           /\ updater'.connection = updater.connection
           /\ updater'.pvConnection = updater.pvConnection
           /\ updater'.request = updater.request /\ updater'.timer = updater.timer
           /\ updater'.table = updater.table /\ updater'.commandIndex = updater.commandIndex
           /\ updater'.acquisitionIndex = updater.acquisitionIndex
<1>1. PICK mode \in Modes :
         updater' = [updater EXCEPT !.settings = mode, !.setupRequested = TRUE]
  BY UpdaterAssumption DEF SettingsChanged
<1>2. updater.settings # "none" BY DEF SettingsChanged
<1> QED BY <1>1, <1>2
        DEF IInv, Post, Sound, Updaters, Modes, SameDevice, SameRegisters, SameCounters

LEMMA ChangeRequested ==
    ASSUME IInv, RInv, SettingsChanged
    PROVE  Placed(updater') /\ Requested(updater') /\ Lives(updater, updater')
<1>1. Placed(updater')
  BY ChangeKeeps DEF RInv, Placed, SameDevice, SameRegisters
<1>2. Lives(updater, updater') BY ChangeKeeps DEF Lives
<1>3. Requested(updater')
  <2>1. SUFFICES ASSUME updater'.request.op # "none" PROVE Asked(updater')
    BY ChangeKeeps DEF RInv, Requested
  <2>2. Asked(updater) BY <2>1, ChangeKeeps DEF RInv, Requested
  <2>3. StateRequest(updater') = StateRequest(updater)
    BY ChangeKeeps DEF StateRequest, SameDevice, SameRegisters
  <2>4. AsksForMode(updater) => AsksForMode(updater')
    BY ChangeKeeps DEF AsksForMode, DesiredMode, SameDevice
  <2>5. AsksForCommand(updater) => AsksForCommand(updater')
    BY ChangeKeeps DEF AsksForCommand, DueNow, SameDevice
  <2> QED BY <2>2, <2>3, <2>4, <2>5, ChangeKeeps DEF Asked
<1> QED BY <1>1, <1>2, <1>3

(* Every step keeps the state placed and the request fitting, and is a     *)
(* step of the life cycle or none.                                         *)
LEMMA StepKeeps ==
    ASSUME IInv, RInv, [Next]_vars
    PROVE  RInv' /\ Lives(updater, updater')
<1>1. CASE Answer
  <2>1. Ready(Answered) /\ Result(Answered, updater') BY <1>1, AnswerHandled DEF Answerable
  <2>2. Placed(updater') /\ Requested(updater') /\ Lives(Answered, updater')
    BY <2>1, ResultKeeps
  <2>3. Rests(updater, Answered)
    BY <1>1, AnsweredAnswerable
       DEF Answer, Reply, BusError, ReadAnswered, ShortSerialAnswered, WriteAnswered, TimedOut,
           CrcErrorReceived, ReadRefused, ExceptionReceived, StaleReplyReceived
  <2>4. Lives(updater, updater') BY <2>2, <2>3 DEF Lives, Rests, SameLife
  <2> QED BY <2>2, <2>4 DEF RInv
<1>2. CASE WaitFinished
  <2> DEFINE u == [updater EXCEPT !.timer = FALSE]
  <2>1. Ready(u) /\ StateMove(updater, u) /\ Result(u, updater') BY <1>2, WaitHandled
  <2> HIDE DEF u
  <2>2. Placed(updater') /\ Requested(updater') /\ Lives(u, updater') BY <2>1, ResultKeeps
  <2>3. Lives(updater, updater') BY <2>1, <2>2 DEF Lives, StateMove, SameLife
  <2> QED BY <2>2, <2>3 DEF RInv
<1>3. CASE SettingsChanged BY <1>3, ChangeRequested DEF RInv
<1>4. CASE SettingsInitialized BY <1>4, InitializedHandled, ResultKeeps DEF RInv
<1>5. CASE Installer \/ UNCHANGED vars
  <2>1. updater' = updater
    BY <1>5 DEF Installer, FrontSelectorTurned, MeterExchanged, vars
  <2> QED BY <2>1 DEF RInv, Lives
<1> QED BY <1>1, <1>2, <1>3, <1>4, <1>5 DEF Next

(* The object the constructor starts with is ready.                        *)
LEMMA FirstReady ==
    ASSUME NEW garbage \in InitialProtocols
    PROVE  Ready([state |-> "DeviceId", deviceType |-> 0, protocol |-> garbage,
             settings |-> "none", connection |-> "Disconnected",
             pvConnection |-> "Disconnected", errorCode |-> 0,
             timeoutCount |-> 0, errorCount |-> 0, setupRequested |-> FALSE,
             application |-> 0, measuringSystem |-> 0, desiredMeasuringSystem |-> 0,
             table |-> "none", commandIndex |-> 0, acquisitionIndex |-> 0,
             request |-> NoRequest, timer |-> FALSE, fault |-> "none"])
<1> DEFINE u == [state |-> "DeviceId", deviceType |-> 0, protocol |-> garbage,
             settings |-> "none", connection |-> "Disconnected",
             pvConnection |-> "Disconnected", errorCode |-> 0,
             timeoutCount |-> 0, errorCount |-> 0, setupRequested |-> FALSE,
             application |-> 0, measuringSystem |-> 0, desiredMeasuringSystem |-> 0,
             table |-> "none", commandIndex |-> 0, acquisitionIndex |-> 0,
             request |-> NoRequest, timer |-> FALSE, fault |-> "none"]
<1>1. u \in Updaters
  BY DEF Updaters, States, IdentifyStates, ConnectionStates, Requests, NoRequest
<1>2. Sound(u) /\ Free(u)
  BY <1>1, UpdaterAssumption DEF Sound, Free, NoRequest, KnownProtocol
<1>3. Placed(u) BY DEF Placed, Em24SetupStates, ModeStates, IdentifyStates
<1> QED BY <1>2, <1>3 DEF Ready

(* The constructor begins the search.                                      *)
LEMMA BeginsPlaced ==
    ASSUME Init
    PROVE  /\ RInv
           /\ updater.connection = "Searched" /\ updater.pvConnection = "Disconnected"
           /\ updater.settings = "none"
<1>1. PICK garbage \in InitialProtocols :
         updater = startNextAction(
            [state |-> "DeviceId", deviceType |-> 0, protocol |-> garbage,
             settings |-> "none", connection |-> "Disconnected",
             pvConnection |-> "Disconnected", errorCode |-> 0,
             timeoutCount |-> 0, errorCount |-> 0, setupRequested |-> FALSE,
             application |-> 0, measuringSystem |-> 0, desiredMeasuringSystem |-> 0,
             table |-> "none", commandIndex |-> 0, acquisitionIndex |-> 0,
             request |-> NoRequest, timer |-> FALSE, fault |-> "none"], FALSE)
  BY DEF Init
<1> DEFINE u == [state |-> "DeviceId", deviceType |-> 0, protocol |-> garbage,
             settings |-> "none", connection |-> "Disconnected",
             pvConnection |-> "Disconnected", errorCode |-> 0,
             timeoutCount |-> 0, errorCount |-> 0, setupRequested |-> FALSE,
             application |-> 0, measuringSystem |-> 0, desiredMeasuringSystem |-> 0,
             table |-> "none", commandIndex |-> 0, acquisitionIndex |-> 0,
             request |-> NoRequest, timer |-> FALSE, fault |-> "none"]
<1>5. /\ Ready(u) /\ u.state = "DeviceId" /\ ~u.setupRequested /\ u.settings = "none"
      /\ u.pvConnection = "Disconnected"
  BY FirstReady
<1>6. updater = startNextAction(u, FALSE) BY <1>1
<1> HIDE DEF u
<1>7. Outcome(SetupDone(u), updater) /\ Placed(updater) /\ Requested(updater)
  BY <1>5, <1>6, NextActionOutcome
<1>8. SetupDone(u) = u BY <1>5 DEF SetupDone
<1>9. Searches(u, updater)
  BY <1>5, <1>7, <1>8 DEF Outcome, Detects, Measures, MeasureStates
<1> QED BY <1>5, <1>7, <1>9 DEF RInv, Searches

(* In every reachable state, the state of the object fits its protocol,    *)
(* and the request it waits for is that of the state.                      *)
THEOREM RequestInvariant == Spec => []RInv
<1>1. Init => RInv BY BeginsPlaced
<1>2. IInv /\ RInv /\ [Next]_vars => RInv' BY StepKeeps
<1> QED BY <1>1, <1>2, Invariant, PTL DEF Spec

-----------------------------------------------------------------------------
(* A failed request is repeated.                                           *)
(* The least element of a set of numbers is its minimum.                   *)
LEMMA SmallestIs ==
    ASSUME NEW S, NEW i \in S, \A k \in S : k \in Nat /\ i <= k
    PROVE  Min(S) = i
<1> DEFINE IsMin(m) == m \in S /\ \A k \in S : m <= k
<1>1. IsMin(i) OBVIOUS
<1>2. \A m : IsMin(m) => m = i
  <2> SUFFICES ASSUME NEW m \in S, m <= i PROVE m = i OBVIOUS
  <2>1. m \in Nat /\ i \in Nat /\ i <= m OBVIOUS
  <2> QED BY <2>1
<1>3. IsMin(Min(S)) BY <1>1 DEF Min
<1> HIDE DEF IsMin
<1> QED BY <1>2, <1>3

(* A command that is due at the current index is the next due command.     *)
LEMMA DueFirst ==
    ASSUME NEW u, u.table \in TableNames, u.commandIndex \in Nat, u.commandIndex \in DueNow(u)
    PROVE  Min(DueNow(u)) = u.commandIndex
<1>1. DueNow(u) \in SUBSET (0..7) BY DueCommandReadable
<1>2. \A k \in DueNow(u) : k \in Nat /\ u.commandIndex <= k
  BY <1>1 DEF DueNow, DueCommands
<1> QED BY <1>2, SmallestIs

(* An object that has only lost its request makes the same request again.  *)
LEMMA Repeats ==
    ASSUME NEW x, Asked(x), x.request \in Requests, ~x.setupRequested,
           NEW y, Ready(y), Rests(x, y), SameDevice(x, y), SameRegisters(x, y),
           y.table = x.table, y.commandIndex = x.commandIndex,
           y.acquisitionIndex = x.acquisitionIndex, NEW overrun
    PROVE  startNextAction(y, overrun).request = x.request
<1> DEFINE v == startNextAction(y, overrun)
<1>0. v = actInState(y, overrun) BY DEF startNextAction, Rests, SameLife
<1>a. y \in Updaters BY DEF Ready, Sound
<1>1. CASE x.state = "DeviceId"
  <2>1. v = [y EXCEPT !.connection = "Searched", !.request = Read(RegDeviceId, 1)]
    BY <1>0, <1>1 DEF actInState, readRegisters, Read, Rests
  <2>2. v.request = Read(RegDeviceId, 1)
    <3> HIDE DEF v
    <3> QED BY <1>a, <2>1 DEF Updaters
  <2>3. x.request = Read(RegDeviceId, 1)
    BY <1>1 DEF Asked, StateRequest, SingleRequestStates, IdentifyStates
  <2> QED BY <2>2, <2>3
<1>2. CASE x.state \in SingleRequestStates \ {"DeviceId"}
  <2>1. v = [y EXCEPT !.request = StateRequest(y)] BY <1>0, <1>2, SingleRequest DEF Rests
  <2>2. v.request = StateRequest(y)
    <3> HIDE DEF v
    <3> QED BY <1>a, <2>1 DEF Updaters
  <2>3. StateRequest(y) = StateRequest(x) BY DEF StateRequest, Rests, SameDevice, SameRegisters
  <2>4. x.request = StateRequest(x) BY <1>2 DEF Asked
  <2> QED BY <2>2, <2>3, <2>4
<1>3. CASE x.state = "SetMeasurementMode"
  <2> DEFINE mode == DesiredMode(x.protocol, x.settings)
             request == Write(RegEm112MeasurementMode, mode)
  <2>1. /\ x.request.op = "write" /\ x.request.reg = RegEm112MeasurementMode
        /\ x.request.arg = mode
        /\ x.protocol # "Em540" \/ x.settings # "none"
    BY <1>3 DEF Asked, AsksForMode
  <2>2. x.request = request BY <2>1 DEF Requests, Write
  <2>3. v = writeRegister(y, RegEm112MeasurementMode, mode)
    BY <1>0, <1>3, <2>1 DEF actInState, WithSettings, DesiredMode, Rests, SameLife, SameDevice
  <2>4. v = [y EXCEPT !.request = request] BY <2>3 DEF writeRegister, Write
  <2> HIDE DEF request, v
  <2> QED BY <1>a, <2>2, <2>4 DEF Updaters, v
<1>4. CASE x.state = "Acquisition"
  <2> DEFINE w == selectCommands(y)
             request == Read(CommandAt(x.table, x.commandIndex).reg,
                             CommandAt(x.table, x.commandIndex).count)
  <2>1. /\ x.settings # "none" /\ x.table = TableOf(x.protocol, x.settings)
        /\ x.commandIndex \in DueNow(x) /\ x.request = request
    BY <1>4 DEF Asked, AsksForCommand
  <2>2. y.settings = x.settings /\ y.protocol = x.protocol /\ y.state = "Acquisition"
    BY <1>4 DEF Rests, SameLife, SameDevice
  <2>3. /\ w.commandIndex = x.commandIndex /\ w.acquisitionIndex = x.acquisitionIndex
        /\ w.table = x.table /\ Ready(w)
    <3>1. /\ w.commandIndex = y.commandIndex /\ w.acquisitionIndex = y.acquisitionIndex
          /\ w.table = TableOf(w.protocol, w.settings) /\ Ready(w) /\ Carries(y, w)
      BY <2>1, <2>2, SelectionCarries DEF MeasureStates
    <3>2. w.protocol = y.protocol /\ w.settings = y.settings
      BY <3>1 DEF Carries, SameDevice, Measures
    <3> QED BY <2>1, <2>2, <3>1, <3>2
  <2>4. v = startNextAcquisition(w, overrun) BY <1>0, <2>1, <2>2 DEF actInState, WithSettings
  <2> HIDE DEF w
  <2>5. w.table \in TableNames /\ w.commandIndex \in Nat
    <3>1. x.settings \in Modes /\ x.protocol \in Protocols \ {"Unknown"}
      BY <1>a, <2>1, <2>2 DEF Ready, Sound, Updaters, KnownProtocol
    <3>2. w.commandIndex \in Nat BY <2>3 DEF Ready, Sound, Updaters
    <3> QED BY <2>1, <2>3, <3>1, <3>2, TableSelected
  <2>6. w.commandIndex \in DueNow(w) BY <2>1, <2>3 DEF DueNow
  <2>7. Min(DueNow(w)) = w.commandIndex BY <2>5, <2>6, DueFirst
  <2>8. v = readNextCommand(w) BY <2>4, <2>6 DEF startNextAcquisition
  <2>9. v = [w EXCEPT !.commandIndex = w.commandIndex, !.request = request]
    BY <2>3, <2>7, <2>8 DEF readNextCommand, readRegisters, Read
  <2> HIDE DEF request, v
  <2>10. v.request = request BY <2>3, <2>9 DEF Ready, Sound, Updaters
  <2> QED BY <2>1, <2>10 DEF v
<1> QED BY <1>1, <1>2, <1>3, <1>4 DEF Asked

(* A command is asked for from a table that exists.                        *)
LEMMA AskedTable ==
    ASSUME IInv, AsksForCommand(updater)
    PROVE  updater.table \in TableNames
<1>1. PICK mode \in Modes : updater.table = TableOf(updater.protocol, mode)
  BY DEF AsksForCommand
<1>2. updater.protocol \in Protocols \ {"Unknown"}
  BY DEF AsksForCommand, IInv, Post, Sound, KnownProtocol
<1> QED BY <1>1, <1>2, TableSelected

-----------------------------------------------------------------------------
(* The properties.                                                         *)
(* "EM3xx meters do not support MeasurementSystemP1": whatever meter and   *)
(* settings mDesiredMeasuringSystem was computed for, no EM3xx meter is    *)
(* ever set to single phase (ac_sensor_updater.cpp:504).                   *)
THEOREM NoSinglePhaseOnEm300 == Spec => []NeverSinglePhaseOnEm300
<1>1. RInv => NeverSinglePhaseOnEm300
  <2> SUFFICES ASSUME RInv, updater.request.op = "write",
                      updater.request.reg = RegEm300MeasurementSystem
               PROVE  updater.request.arg # MeasurementSystemP1
    BY DEF NeverSinglePhaseOnEm300
  <2>1. Asked(updater) /\ Placed(updater) BY DEF RInv, Requested
  <2>2. updater.state # "Acquisition" BY <2>1 DEF Asked, AsksForCommand, Read
  <2>3. updater.state # "SetMeasurementMode"
    BY <2>1 DEF Asked, AsksForMode, RegEm300MeasurementSystem, RegEm112MeasurementMode
  <2>4. updater.state \in SingleRequestStates /\ updater.request = StateRequest(updater)
    BY <2>1, <2>2, <2>3 DEF Asked
  <2>5. updater.state = "SetMeasuringSystem"
    BY <2>4 DEF SingleRequestStates, IdentifyStates, StateRequest, Read, Write,
                RegEm300MeasurementSystem, RegApplication
  <2>6. updater.protocol # "Em24" /\ updater.request.arg = updater.desiredMeasuringSystem
    BY <2>4, <2>5 DEF StateRequest, Write, RegEm300MeasurementSystem, RegMeasurementSystem
  <2> QED BY <2>1, <2>5, <2>6 DEF Placed
<1> QED BY <1>1, RequestInvariant, PTL

(* While it measures, the index of the command is within the table, and    *)
(* the outstanding request was made from that command: the reply is taken  *)
(* for what it is, across retries, rounds and changes of the table         *)
(* (ac_sensor_updater.cpp:747).                                            *)
THEOREM RepliesFitCommands == Spec => []ReplyFitsCommand
<1>1. IInv /\ RInv => ReplyFitsCommand
  <2> SUFFICES ASSUME IInv, RInv, updater.state = "Acquisition", updater.request.op # "none"
               PROVE  /\ updater.commandIndex \in 0 .. Len(Tables[updater.table]) - 1
                      /\ updater.request =
                           Read(CommandAt(updater.table, updater.commandIndex).reg,
                                CommandAt(updater.table, updater.commandIndex).count)
    BY DEF ReplyFitsCommand, Running, Asks, Read
  <2>1. AsksForCommand(updater) BY DEF RInv, Requested, Asked
  <2>2. updater.table \in TableNames BY <2>1, AskedTable
  <2>3. Len(Tables[updater.table]) \in Nat BY <2>2, TablesReadable DEF Readable
  <2>4. updater.commandIndex \in Nat BY DEF IInv, Post, Sound, Updaters
  <2>5. updater.commandIndex \in updater.commandIndex .. Len(Tables[updater.table]) - 1
    BY <2>1 DEF AsksForCommand, DueNow, DueCommands
  <2> QED BY <2>1, <2>3, <2>4, <2>5 DEF AsksForCommand
<1> QED BY <1>1, Invariant, RequestInvariant, PTL

(* AcSensorUpdater implements AcSensorLifecycle: whatever fails, the       *)
(* sensor is Searched, Detected and Connected in this order, the settings  *)
(* come and go with it, and so does the sensor of the PV inverter          *)
(* (ac_sensor_updater.h:22-72).                                            *)
THEOREM ImplementsLifecycle == Spec => LifecycleSpec
<1>1. Init => Lifecycle!Init BY BeginsPlaced DEF Lifecycle!Init
<1>2. IInv /\ RInv /\ [Next]_vars => [Lifecycle!Next]_(Lifecycle!lifecycleVars)
  <2> SUFFICES ASSUME IInv, RInv, [Next]_vars
               PROVE  [Lifecycle!Next]_(Lifecycle!lifecycleVars)
    OBVIOUS
  <2>1. Lives(updater, updater') BY StepKeeps
  <2>2. SettingsLifetime BY DEF IInv, Post, Sound, SettingsLifetime
  <2> QED BY <2>1, <2>2
          DEF Lives, SettingsLifetime, Lifecycle!Next, Lifecycle!lifecycleVars,
              Lifecycle!Detect, Lifecycle!Connect, Lifecycle!Lose, Lifecycle!Search
<1> QED BY <1>1, <1>2, Invariant, RequestInvariant, PTL DEF Spec, LifecycleSpec, Lifecycle!Spec

(* A failure repeats the request, unless it costs the connection.          *)
LEMMA ErrorRepeats ==
    ASSUME IInv, RInv, Asking, NEW error, NEW overrun \in BOOLEAN,
           updater' = onErrorReceived(Answered, error, overrun),
           updater'.connection # "Disconnected",
           updater.state # "PhaseReverseEnergy", ~updater.setupRequested
    PROVE  updater'.request = updater.request
<1> DEFINE u == Answered
           y == countFailure(u, error)
           z == disconnectSensor(u)
<1>1. /\ Answerable(u) /\ Rests(updater, u) /\ SameDevice(updater, u)
      /\ SameRegisters(updater, u) /\ u.table = updater.table
      /\ u.commandIndex = updater.commandIndex /\ u.acquisitionIndex = updater.acquisitionIndex
      /\ Asked(updater)
  BY AnsweredAnswerable
<1>2. updater.request \in Requests BY DEF IInv, Post, Sound, Updaters
<1> HIDE DEF u
<1>3. Ready(u) /\ u.state # "PhaseReverseEnergy" BY <1>1 DEF Answerable, Rests
<1>4. updater' = startNextAction(IF Exhausted(u) THEN z ELSE y, overrun)
  BY <1>3 DEF onErrorReceived, WithoutReverse, u
<1>5. ~Exhausted(u)
  <2> SUFFICES ASSUME Exhausted(u) PROVE FALSE OBVIOUS
  <2>1. Ready(z) /\ Drops(z) BY <1>3, DisconnectDrops
  <2>2. updater' = startNextAction(z, overrun) BY <1>4
  <2> HIDE DEF z
  <2>3. Outcome(SetupDone(z), updater') BY <2>1, <2>2, NextActionOutcome
  <2> QED BY <2>1, <2>3, DroppedRests
<1>6. /\ Ready(y) /\ Rests(u, y) /\ SameDevice(u, y) /\ SameRegisters(u, y)
      /\ y.table = u.table /\ y.commandIndex = u.commandIndex
      /\ y.acquisitionIndex = u.acquisitionIndex
  BY <1>3, <1>5, CountReady
<1>7. updater' = startNextAction(y, overrun) BY <1>4, <1>5
<1> HIDE DEF y
<1>8. /\ Rests(updater, y) /\ SameDevice(updater, y) /\ SameRegisters(updater, y)
      /\ y.table = updater.table /\ y.commandIndex = updater.commandIndex
      /\ y.acquisitionIndex = updater.acquisitionIndex
  BY <1>1, <1>6 DEF Rests, SameLife, SameDevice, SameRegisters
<1> QED BY <1>1, <1>2, <1>6, <1>7, <1>8, Repeats

(* Everything else counts no failure, or costs the connection.             *)
CountsNone(u, v) ==
    \/ v.connection = "Disconnected"
    \/ v.timeoutCount <= u.timeoutCount /\ v.errorCount <= u.errorCount

LEMMA SameCountsNone ==
    ASSUME NEW u, NEW v, u \in Updaters, SameCounters(u, v)
    PROVE  CountsNone(u, v)
BY DEF CountsNone, SameCounters, Updaters

(* Neither does an action count one.                                       *)
LEMMA ActionCountsNone ==
    ASSUME NEW u, NEW y, Ready(y), NEW overrun,
           y.timeoutCount <= u.timeoutCount, y.errorCount <= u.errorCount
    PROVE  CountsNone(u, startNextAction(y, overrun))
<1> DEFINE v == startNextAction(y, overrun)
           z == SetupDone(y)
<1>1. SameCounters(y, z) BY SetupReady
<1>2. SameCounters(z, v) BY NextActionOutcome DEF Outcome
<1> HIDE DEF v, z
<1>3. CountsNone(u, v) BY <1>1, <1>2 DEF SameCounters, CountsNone
<1> QED BY <1>3 DEF v

(* A reply sets both counters to zero; only a short serial number is taken *)
(* for a timeout.                                                          *)
LEMMA ReplyCountsNone ==
    ASSUME NEW u, Answerable(u), NEW registers \in Seq(Nat), Len(registers) > 0,
           NEW overrun \in BOOLEAN
    PROVE  LET v == onReadCompleted(u, registers, overrun)
           IN  CountsNone(u, v) \/ v = onErrorReceived(u, "Timeout", overrun)
<1> DEFINE w == acceptRead(u, registers)
           v == onReadCompleted(u, registers, overrun)
<1>0. u \in Updaters BY DEF Answerable, Ready, Sound
<1>1. Ends(u, w) \/ ReadMove(u, registers, w) BY ReadMoves
<1>2. CASE Ends(u, w)
  <2>1. v = w BY <1>2 DEF onReadCompleted, Ends
  <2>2. CountsNone(u, w)
    <3> HIDE DEF w
    <3> QED BY <1>0, <1>2, SameCountsNone DEF Ends
  <2> QED BY <2>1, <2>2
<1>3. CASE ReadMove(u, registers, w)
  <2>1. Ready(w) BY <1>3, ReadReady
  <2>2. w.fault = "none" BY <1>3 DEF ReadMove
  <2>3. v = IF u.state = "DeviceId" /\ w.protocol = "Unknown" THEN disconnectSensor(w)
            ELSE IF u.state = "Serial" /\ SerialSize(registers) < 2
            THEN onErrorReceived(u, "Timeout", overrun)
            ELSE startNextAction(CountersZero(w), overrun)
    BY <2>2 DEF onReadCompleted, CountersZero
  <2> HIDE DEF w, v
  <2>4. CountsNone(u, disconnectSensor(w))
    BY <2>1, DisconnectDrops DEF CountsNone, Drops
  <2>5. CountsNone(u, startNextAction(CountersZero(w), overrun))
    <3>1. /\ Ready(CountersZero(w))
          /\ CountersZero(w).timeoutCount <= u.timeoutCount
          /\ CountersZero(w).errorCount <= u.errorCount
      BY <1>0, <2>1, ZeroReady DEF Updaters
    <3> QED BY <3>1, ActionCountsNone
  <2> QED BY <2>3, <2>4, <2>5 DEF v
<1> QED BY <1>1, <1>2, <1>3

LEMMA WrittenCountsNone ==
    ASSUME NEW u, Answerable(u), NEW reg, NEW value, NEW overrun \in BOOLEAN
    PROVE  CountsNone(u, onWriteCompleted(u, reg, value, overrun))
<1> DEFINE w == acceptWrite(u, reg, value)
           v == onWriteCompleted(u, reg, value, overrun)
<1>0. u \in Updaters BY DEF Answerable, Ready, Sound
<1>1. Ends(u, w) \/ (StateMove(u, w) /\ Ready(w)) BY WriteMoves
<1>2. CASE Ends(u, w)
  <2>1. v = w BY <1>2 DEF onWriteCompleted, Ends
  <2>2. CountsNone(u, w)
    <3> HIDE DEF w
    <3> QED BY <1>0, <1>2, SameCountsNone DEF Ends
  <2> QED BY <2>1, <2>2
<1>3. CASE StateMove(u, w) /\ Ready(w)
  <2>1. v = startNextAction(CountersZero(w), overrun)
    BY <1>3 DEF onWriteCompleted, CountersZero, StateMove
  <2> HIDE DEF v, w
  <2>2. /\ Ready(CountersZero(w))
        /\ CountersZero(w).timeoutCount <= u.timeoutCount
        /\ CountersZero(w).errorCount <= u.errorCount
    BY <1>0, <1>3, ZeroReady DEF Updaters
  <2>3. CountsNone(u, v) BY <2>1, <2>2, ActionCountsNone
  <2> QED BY <2>3 DEF v
<1> QED BY <1>1, <1>2, <1>3

(* Answers: an error or a short serial number, or nothing is counted.      *)
LEMMA AnswerCounts ==
    ASSUME IInv, RInv, Answer
    PROVE  \/ CountsNone(Answered, updater')
           \/ \E error \in {"Timeout", "CrcError", "Exception"}, overrun \in BOOLEAN :
                 updater' = onErrorReceived(Answered, error, overrun)
<1>0. Answerable(Answered) /\ Sent(updater.request)
  BY AnsweredAnswerable
     DEF Answer, Reply, BusError, ReadAnswered, ShortSerialAnswered, WriteAnswered, TimedOut,
         CrcErrorReceived, ReadRefused, ExceptionReceived, StaleReplyReceived
<1>a. meter \in MeterModels /\ Sent(late) BY DEF IInv
<1>1. CASE ReadAnswered
  <2>1. PICK overrun \in BOOLEAN :
           updater' = onReadCompleted(Answered, ReadReply(meter, updater.request), overrun)
    BY <1>1 DEF ReadAnswered
  <2> DEFINE registers == ReadReply(meter, updater.request)
  <2>2. registers \in Seq(Nat) /\ Len(registers) > 0
    BY <1>0, <1>1, <1>a, ReplyReadable DEF ReadAnswered
  <2> HIDE DEF registers
  <2> QED BY <1>0, <2>1, <2>2, ReplyCountsNone DEF registers
<1>2. CASE ShortSerialAnswered
  BY <1>0, <1>2, ShortSerialReadable, ReplyCountsNone DEF ShortSerialAnswered
<1>3. CASE WriteAnswered BY <1>0, <1>3, WrittenCountsNone DEF WriteAnswered
<1>4. CASE TimedOut \/ CrcErrorReceived \/ ReadRefused \/ ExceptionReceived
  BY <1>4 DEF TimedOut, CrcErrorReceived, ReadRefused, ExceptionReceived
<1>5. CASE StaleReplyReceived
  <2>1. PICK overrun \in BOOLEAN :
           IF late.op = "write"
           THEN updater' = onWriteCompleted(Answered, late.reg, late.arg, overrun)
           ELSE updater' = onReadCompleted(Answered, ReadReply(meter, late), overrun)
    BY <1>5 DEF StaleReplyReceived
  <2>2. CASE late.op = "write" BY <1>0, <2>1, <2>2, WrittenCountsNone
  <2>3. CASE late.op # "write"
    <3> DEFINE registers == ReadReply(meter, late)
    <3>1. late.op = "read" BY <1>5, <1>a, <2>3 DEF StaleReplyReceived, Sent, Requests
    <3>2. registers \in Seq(Nat) /\ Len(registers) > 0 BY <1>a, <3>1, ReplyReadable
    <3> HIDE DEF registers
    <3> QED BY <1>0, <2>1, <2>3, <3>2, ReplyCountsNone DEF registers
  <2> QED BY <2>2, <2>3
<1> QED BY <1>1, <1>2, <1>3, <1>4, <1>5 DEF Answer, Reply, BusError

(* A failure that does not cost the connection is followed by the same     *)
(* request: no command of the table and no step of the setup is skipped    *)
(* (onErrorReceived, ac_sensor_updater.cpp:310).                           *)
THEOREM RepeatsFailedRequests == Spec => RetriesSameRequest
<1> DEFINE Failed == /\ \/ updater'.timeoutCount > updater.timeoutCount
                        \/ updater'.errorCount > updater.errorCount
                     /\ updater'.connection # "Disconnected"
                     /\ updater.state # "PhaseReverseEnergy"
                     /\ ~updater.setupRequested
           Repeated == Failed => updater'.request = updater.request
<1>1. IInv /\ RInv /\ [Next]_vars => [Repeated]_vars
  <2> SUFFICES ASSUME IInv, RInv, Next, Failed PROVE updater'.request = updater.request
    OBVIOUS
  <2>0. updater \in Updaters BY DEF IInv, Post, Sound
  <2>a. updater' \in Updaters BY Preserved DEF IInv, Post, Sound
  <2>b. ~CountsNone(updater, updater') BY <2>0, <2>a DEF CountsNone, Updaters
  <2>1. CASE Answer
    <3>1. Asking
      BY <2>1 DEF Answer, Reply, BusError, ReadAnswered, ShortSerialAnswered, WriteAnswered,
                  TimedOut, CrcErrorReceived, ReadRefused, ExceptionReceived, StaleReplyReceived
    <3>2. SameCounters(updater, Answered) BY <3>1, AnsweredAnswerable
    <3>3. ~CountsNone(Answered, updater') BY <2>b, <3>2 DEF CountsNone, SameCounters
    <3>4. PICK error \in {"Timeout", "CrcError", "Exception"}, overrun \in BOOLEAN :
             updater' = onErrorReceived(Answered, error, overrun)
      BY <2>1, <3>3, AnswerCounts
    <3> QED BY <3>1, <3>4, ErrorRepeats
  <2>2. CASE WaitFinished
    <3> DEFINE u == [updater EXCEPT !.timer = FALSE]
               y == [u EXCEPT !.state = TimerState(u)]
    <3>1. /\ Ready(u) /\ StateMove(updater, u) /\ u.state \in TimerStates
          /\ \E overrun \in BOOLEAN : updater' = onWaitFinished(u, overrun)
      BY <2>2, WaitHandled
    <3> HIDE DEF u
    <3>2. /\ Ready(y) /\ StateMove(u, y)
          /\ \E overrun \in BOOLEAN : updater' = startNextAction(y, overrun)
      BY <3>1, TimerMoves
    <3> HIDE DEF y
    <3>3. y.timeoutCount <= updater.timeoutCount /\ y.errorCount <= updater.errorCount
      BY <2>0, <3>1, <3>2 DEF StateMove, SameCounters, Updaters
    <3>4. CountsNone(updater, updater') BY <3>2, <3>3, ActionCountsNone
    <3> QED BY <2>b, <3>4
  <2>3. CASE SettingsChanged
    <3>1. CountsNone(updater, updater') BY <2>0, <2>3, ChangeKeeps, SameCountsNone
    <3> QED BY <2>b, <3>1
  <2>4. CASE SettingsInitialized
    <3> DEFINE y == [updater EXCEPT !.acquisitionIndex = 0, !.commandIndex = 0,
                                    !.state = StartState(updater)]
    <3>1. Ready(updater) BY <2>4, InitializedHandled
    <3>2. /\ Ready(y) /\ StateMove(updater, y)
          /\ \E overrun \in BOOLEAN : updater' = startNextAction(y, overrun)
      BY <2>4, <3>1, StartMoves DEF SettingsInitialized
    <3> HIDE DEF y
    <3>3. y.timeoutCount <= updater.timeoutCount /\ y.errorCount <= updater.errorCount
      BY <2>0, <3>2 DEF StateMove, SameCounters, Updaters
    <3>4. CountsNone(updater, updater') BY <3>2, <3>3, ActionCountsNone
    <3> QED BY <2>b, <3>4
  <2>5. CASE Installer
    <3>1. updater' = updater BY <2>5 DEF Installer, FrontSelectorTurned, MeterExchanged
    <3> QED BY <2>0, <2>b, <3>1 DEF CountsNone, Updaters
  <2> QED BY <2>1, <2>2, <2>3, <2>4, <2>5 DEF Next
<1> QED BY <1>1, Invariant, RequestInvariant, PTL DEF Spec, RetriesSameRequest

-----------------------------------------------------------------------------
(* Late replies.                                                           *)
(* Within a table the number of registers of an energy reading tells it    *)
(* from all other readings, and is not that of a check of the setup.       *)
EnergyDistinct(commands) ==
    \A j, k \in 1..Len(commands) :
        IsEnergy(commands[j]) =>
            /\ commands[j].count # 1
            /\ commands[k].count = commands[j].count => commands[k].reg = commands[j].reg

LEMMA Em24Distinct ==
    /\ EnergyDistinct(Em24Commands)
    /\ EnergyDistinct(Em24CommandsP1)
    /\ EnergyDistinct(Em24CommandsP1PV)
<1>1. EnergyDistinct(Em24Commands)
  BY DEF EnergyDistinct, IsEnergy, Em24Commands, Command, On, Total, L12, L123
<1>2. EnergyDistinct(Em24CommandsP1)
  BY DEF EnergyDistinct, Em24CommandsP1, Command
<1>3. EnergyDistinct(Em24CommandsP1PV)
  BY DEF EnergyDistinct, Em24CommandsP1PV, Command
<1> QED BY <1>1, <1>2, <1>3

(* An EM24 reads its configuration in two registers, its energies never.   *)
NoEnergyInTwo(commands) ==
    \A k \in 1..Len(commands) : IsEnergy(commands[k]) => commands[k].count # 2
LEMMA Em24NoEnergyInTwo ==
    /\ NoEnergyInTwo(Em24Commands)
    /\ NoEnergyInTwo(Em24CommandsP1)
    /\ NoEnergyInTwo(Em24CommandsP1PV)
BY DEF NoEnergyInTwo, IsEnergy, Em24Commands, Em24CommandsP1, Em24CommandsP1PV, Command, On,
       Total, L12, L123

LEMMA Et340Distinct ==
    /\ EnergyDistinct(Em112Commands)
    /\ EnergyDistinct(Et340Commands)
    /\ EnergyDistinct(Et340P1Commands)
    /\ EnergyDistinct(Et340CommandsP1PV)
<1>1. EnergyDistinct(Em112Commands) BY DEF EnergyDistinct, Em112Commands, Command
<1>2. EnergyDistinct(Et340Commands) BY DEF EnergyDistinct, Et340Commands, Command
<1>3. EnergyDistinct(Et340P1Commands) BY DEF EnergyDistinct, Et340P1Commands, Command
<1>4. EnergyDistinct(Et340CommandsP1PV) BY DEF EnergyDistinct, Et340CommandsP1PV, Command
<1> QED BY <1>1, <1>2, <1>3, <1>4

LEMMA Em300Distinct ==
    /\ EnergyDistinct(Em300Commands)
    /\ EnergyDistinct(Em300P1Commands)
    /\ EnergyDistinct(Em300CommandsP1PV)
    /\ EnergyDistinct(Em300S27P1Commands)
<1>1. EnergyDistinct(Em300Commands) BY DEF EnergyDistinct, Em300Commands, Command
<1>2. EnergyDistinct(Em300P1Commands) BY DEF EnergyDistinct, Em300P1Commands, Command
<1>3. EnergyDistinct(Em300CommandsP1PV) BY DEF EnergyDistinct, Em300CommandsP1PV, Command
<1>4. EnergyDistinct(Em300S27P1Commands) BY DEF EnergyDistinct, Em300S27P1Commands, Command
<1> QED BY <1>1, <1>2, <1>3, <1>4

LEMMA Em540Distinct ==
    /\ EnergyDistinct(Em540Commands)
    /\ EnergyDistinct(Em540P1Commands)
    /\ EnergyDistinct(Em540CommandsP1PV)
<1>1. EnergyDistinct(Em540Commands) BY DEF EnergyDistinct, Em540Commands, Command
<1>2. EnergyDistinct(Em540P1Commands) BY DEF EnergyDistinct, Em540P1Commands, Command
<1>3. EnergyDistinct(Em540CommandsP1PV) BY DEF EnergyDistinct, Em540CommandsP1PV, Command
<1> QED BY <1>1, <1>2, <1>3

LEMMA TablesDistinct == \A table \in TableNames : EnergyDistinct(Tables[table])
BY Em24Distinct, Et340Distinct, Em300Distinct, Em540Distinct DEF Tables, TableNames

(* Where a command of the table can be asked for after an answer: from a   *)
(* reading of the same table, or from the setup of the same device.        *)
SetupAskingStates == AskingStates \ (IdentifyStates \cup {"Acquisition"})
LEMMA CommandAskedFrom ==
    ASSUME IInv, RInv, Answer, AsksForCommand(updater'), updater'.state = "Acquisition",
           updater'.fault = "none"
    PROVE  /\ Asked(updater)
           /\ \/ updater.state = "Acquisition" /\ updater'.table = updater.table
              \/ updater.state \in SetupAskingStates /\ updater'.protocol = updater.protocol
<1> DEFINE u == Answered
           v == updater'
<1>1. /\ Answerable(u) /\ Rests(updater, u) /\ SameDevice(updater, u) /\ Asked(updater)
  BY AnsweredAnswerable
     DEF Answer, Reply, BusError, ReadAnswered, ShortSerialAnswered, WriteAnswered, TimedOut,
         CrcErrorReceived, ReadRefused, ExceptionReceived, StaleReplyReceived
<1>2. Result(u, v) BY AnswerHandled
<1> HIDE DEF u, v
<1>3. v.state = "Acquisition" /\ AsksForCommand(v) /\ v.fault = "none" BY DEF v
<1>4. PICK y \in Updaters : ActsFrom(u, y, v) BY <1>2, <1>3 DEF Result, Ends, Drops
<1> DEFINE z == SetupDone(y)
<1>5. Outcome(z, v) BY <1>4, NextActionOutcome DEF ActsFrom
<1>6. /\ Ready(z) /\ SameDevice(y, z) /\ z.settings = y.settings /\ z.setupRequested = FALSE
      /\ IF y.setupRequested THEN z.state = SetupState(y) ELSE z.state = y.state
  BY <1>4, SetupReady DEF ActsFrom
<1>7. SameLife(u, y)
  <2>1. ~Drops(y) BY <1>3, <1>4, <1>5, DroppedRests DEF ActsFrom, AsksForCommand
  <2> QED BY <1>4, <2>1 DEF ActsFrom
<1> HIDE DEF z
<1>8. /\ z.state \in MeasureStates /\ v.settings = z.settings /\ v.setupRequested = FALSE
      /\ v.protocol = z.protocol
  BY <1>3, <1>5, <1>6
     DEF Outcome, Rests, Searches, Detects, Measures, SameLife, SameDevice, MeasureStates
<1>9. updater.settings # "none" /\ v.settings = updater.settings
  BY <1>1, <1>3, <1>6, <1>7, <1>8 DEF Rests, SameLife, AsksForCommand
<1>10. updater.state \in AskingStates \ IdentifyStates
  BY <1>1, <1>9 DEF IInv, Post, Sound, Asked, AskingStates
<1>11. v.protocol = updater.protocol
  <2>1. u.state \notin {"DeviceId", "PhaseReverseEnergy"}
    BY <1>1, <1>10 DEF Rests, IdentifyStates
  <2> QED BY <1>1, <1>4, <1>6, <1>8, <2>1 DEF ActsFrom, SameDevice
<1>12. CASE updater.state = "Acquisition"
  <2>1. AsksForCommand(updater) BY <1>1, <1>12 DEF Asked
  <2>2. v.table = TableOf(updater.protocol, updater.settings)
    BY <1>3, <1>8, <1>9, <1>11 DEF AsksForCommand
  <2>3. updater.table = TableOf(updater.protocol, updater.settings)
    <3>1. CASE ~updater.setupRequested BY <2>1, <3>1 DEF AsksForCommand
    <3>2. CASE updater.setupRequested
      <4>1. y.setupRequested /\ y.protocol = updater.protocol
        BY <1>1, <1>6, <1>7, <1>8, <1>11, <3>2 DEF Rests, SameLife, SameDevice
      <4>2. SetupState(y) \in MeasureStates BY <1>6, <1>8, <4>1
      <4>3. updater.protocol \notin Em300Family \cup {"Em24"}
        BY <4>1, <4>2 DEF SetupState, MeasureStates, Em300Family
      <4>4. updater.protocol = "Et112"
        BY <1>9, <4>3 DEF IInv, Post, Sound, KnownProtocol, Protocols, Em300Family
      <4> QED BY <2>1, <4>4 DEF AsksForCommand, TableOf
    <3> QED BY <3>1, <3>2
  <2> QED BY <1>1, <1>12, <2>2, <2>3 DEF v
<1>13. CASE updater.state # "Acquisition"
  BY <1>1, <1>10, <1>11, <1>13 DEF SetupAskingStates, v
<1> QED BY <1>12, <1>13

(* The late reply while a command is asked for: to a check of the setup,   *)
(* or to a command of the same table.                                      *)
LateKnown ==
    updater.state = "Acquisition" /\ updater.request.op # "none" /\ late.op = "read" =>
        \/ late.arg = 1
        \/ late.arg = 2 /\ updater.protocol = "Em24"
        \/ \E k \in 0 .. Len(Tables[updater.table]) - 1 :
              late = Read(CommandAt(updater.table, k).reg, CommandAt(updater.table, k).count)

(* What is read during the setup.                                          *)
LEMMA SetupReads ==
    ASSUME RInv, Asked(updater), updater.state \in SetupAskingStates, updater.request.op = "read"
    PROVE  updater.request.arg = 1 \/ (updater.request.arg = 2 /\ updater.protocol = "Em24")
<1>1. updater.state # "SetMeasurementMode" BY DEF Asked, AsksForMode
<1>2. updater.state \in SingleRequestStates \ IdentifyStates
      /\ updater.request = StateRequest(updater)
  BY <1>1 DEF Asked, SetupAskingStates, AskingStates
<1>3. updater.state \in {"CheckSetup", "CheckFrontSelector", "CheckMeasurementMode",
                         "CheckMeasurementSystem"}
  BY <1>2 DEF SingleRequestStates, StateRequest, Write
<1>4. updater.state = "CheckSetup" => updater.protocol = "Em24"
  BY DEF RInv, Placed, Em24SetupStates
<1> QED BY <1>2, <1>3, <1>4 DEF StateRequest, Read

(* What a late reply may be a reply to, after an answer.                   *)
LEMMA AnswerLeaves ==
    ASSUME IInv, RInv, Answer
    PROVE  late' = NoRequest \/ late' = updater.request
BY DEF Answer, Reply, BusError, ReadAnswered, ShortSerialAnswered, WriteAnswered, TimedOut,
       CrcErrorReceived, ReadRefused, ExceptionReceived, StaleReplyReceived

LEMMA LateStaysKnown ==
    ASSUME IInv, RInv, LateKnown, [Next]_vars
    PROVE  LateKnown'
<1> SUFFICES ASSUME updater'.state = "Acquisition", updater'.request.op # "none",
                    late'.op = "read"
             PROVE  \/ late'.arg = 1
                    \/ late'.arg = 2 /\ updater'.protocol = "Em24"
                    \/ \E k \in 0 .. Len(Tables[updater'.table]) - 1 :
                          late' = Read(CommandAt(updater'.table, k).reg,
                                       CommandAt(updater'.table, k).count)
  BY DEF LateKnown
<1>1. RInv' BY StepKeeps
<1>2. AsksForCommand(updater') /\ updater'.fault = "none"
  BY <1>1 DEF RInv, Requested, Asked
<1>3. CASE Answer
  <2>1. late' = updater.request BY <1>3, AnswerLeaves DEF NoRequest
  <2>2. /\ Asked(updater)
        /\ \/ updater.state = "Acquisition" /\ updater'.table = updater.table
           \/ updater.state \in SetupAskingStates /\ updater'.protocol = updater.protocol
    BY <1>2, <1>3, CommandAskedFrom
  <2>3. CASE updater.state = "Acquisition" /\ updater'.table = updater.table
    <3>1. AsksForCommand(updater) BY <2>2, <2>3 DEF Asked
    <3>2. updater.table \in TableNames BY <3>1, AskedTable
    <3>3. Len(Tables[updater.table]) \in Nat BY <3>2, TablesReadable DEF Readable
    <3>4. updater.commandIndex \in Nat BY DEF IInv, Post, Sound, Updaters
    <3>5. updater.commandIndex \in 0 .. Len(Tables[updater.table]) - 1
      BY <3>1, <3>3, <3>4 DEF AsksForCommand, DueNow, DueCommands
    <3> QED BY <2>1, <2>3, <3>1, <3>5 DEF AsksForCommand
  <2>4. CASE updater.state \in SetupAskingStates /\ updater'.protocol = updater.protocol
    BY <2>1, <2>2, <2>4, SetupReads
  <2> QED BY <2>2, <2>3, <2>4
<1>4. CASE WaitFinished BY <1>4 DEF WaitFinished, NoRequest
<1>5. CASE SettingsChanged
  <2>1. late' = late BY <1>5 DEF SettingsChanged
  <2>2. /\ updater'.state = updater.state /\ updater'.protocol = updater.protocol
        /\ updater'.request = updater.request /\ updater'.table = updater.table
    BY <1>5, ChangeKeeps DEF SameDevice
  <2> QED BY <2>1, <2>2 DEF LateKnown
<1>6. CASE SettingsInitialized
  <2> DEFINE y == [updater EXCEPT !.acquisitionIndex = 0, !.commandIndex = 0,
                                  !.state = StartState(updater)]
             z == SetupDone(y)
  <2>1. Ready(updater) BY <1>6, InitializedHandled
  <2>2. PICK overrun \in BOOLEAN : updater' = startMeasurements(updater, overrun)
    BY <1>6 DEF SettingsInitialized
  <2>3. /\ updater' = startNextAction(y, overrun) /\ Ready(y)
        /\ StateMove(updater, y) /\ y.state = StartState(updater)
    BY <1>6, <2>1, <2>2, StartMoves DEF SettingsInitialized
  <2> HIDE DEF y
  <2>4. Outcome(z, updater') BY <2>3, NextActionOutcome
  <2>5. z.state \in {StartState(updater), "CheckSetup", "CheckMeasurementMode"}
    BY <2>3, SetupReady DEF SetupState
  <2> HIDE DEF z
  <2>6. z.state \in {"CheckSetup", "CheckMeasurementMode"} BY <2>5 DEF StartState
  <2> QED BY <2>4, <2>6 DEF Outcome, Rests, Searches, Detects, Measures, MeasureStates
<1>7. CASE Installer \/ UNCHANGED vars
  <2>1. updater' = updater /\ late' = late
    BY <1>7 DEF Installer, FrontSelectorTurned, MeterExchanged, vars
  <2> QED BY <2>1 DEF LateKnown
<1> QED BY <1>3, <1>4, <1>5, <1>6, <1>7 DEF Next

(* "We do try to make sure energy values are correctly handled"            *)
(* (ac_sensor_updater.cpp:64): with replies that arrive late and are taken *)
(* for others, a reply that is accepted as an energy reading is one: its   *)
(* length tells it from replies to other commands of the table and to the  *)
(* setup, and no table is left for another without a setup in between.     *)
THEOREM EnergyIsNotMistaken == Spec => []EnergyNotMistaken
<1>1. Init => LateKnown BY DEF Init, LateKnown, NoRequest
<1>2. IInv /\ RInv /\ LateKnown /\ [Next]_vars => LateKnown' BY LateStaysKnown
<1>3. IInv /\ RInv /\ LateKnown => EnergyNotMistaken
  <2> SUFFICES ASSUME IInv, RInv, LateKnown, updater.state = "Acquisition",
                      updater.request.op # "none", late.op = "read",
                      IsEnergy(CommandAt(updater.table, updater.commandIndex)),
                      CommandAt(updater.table, updater.commandIndex).count = late.arg
               PROVE  late.reg = CommandAt(updater.table, updater.commandIndex).reg
    BY DEF EnergyNotMistaken, Running, Asks
  <2> DEFINE commands == Tables[updater.table]
             j == updater.commandIndex + 1
  <2>1. AsksForCommand(updater) BY DEF RInv, Requested, Asked
  <2>2. updater.table \in TableNames BY <2>1, AskedTable
  <2>3. Len(commands) \in Nat /\ EnergyDistinct(commands)
    BY <2>2, TablesReadable, TablesDistinct DEF Readable
  <2>4. updater.commandIndex \in Nat BY DEF IInv, Post, Sound, Updaters
  <2>5. j \in 1..Len(commands)
    BY <2>1, <2>3, <2>4 DEF AsksForCommand, DueNow, DueCommands
  <2>6. IsEnergy(commands[j]) /\ commands[j].count = late.arg BY DEF CommandAt
  <2>7. late.arg # 1 BY <2>3, <2>5, <2>6 DEF EnergyDistinct
  <2>8. ~(late.arg = 2 /\ updater.protocol = "Em24")
    <3> SUFFICES ASSUME updater.protocol = "Em24" PROVE late.arg # 2
      OBVIOUS
    <3>1. PICK mode \in Modes : updater.table = TableOf("Em24", mode)
      BY <2>1 DEF AsksForCommand
    <3>2. commands \in {Em24Commands, Em24CommandsP1, Em24CommandsP1PV}
      BY <3>1 DEF TableOf, Tables, Modes
    <3> HIDE DEF commands
    <3>3. NoEnergyInTwo(commands) BY <3>2, Em24NoEnergyInTwo
    <3> QED BY <2>5, <2>6, <3>3 DEF NoEnergyInTwo
  <2>9. PICK k \in 0 .. Len(commands) - 1 :
           late = Read(CommandAt(updater.table, k).reg, CommandAt(updater.table, k).count)
    BY <2>7, <2>8 DEF LateKnown
  <2>10. late.reg = commands[k + 1].reg /\ commands[k + 1].count = late.arg
    BY <2>9 DEF Read, CommandAt
  <2>11. k + 1 \in 1..Len(commands) BY <2>3, <2>9
  <2>12. late.reg = commands[j].reg
    <3> HIDE DEF commands, j
    <3> QED BY <2>3, <2>5, <2>6, <2>10, <2>11 DEF EnergyDistinct
  <2> QED BY <2>12 DEF CommandAt
<1> QED BY <1>1, <1>2, <1>3, Invariant, RequestInvariant, PTL DEF Spec

=============================================================================
