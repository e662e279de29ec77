------------------------- MODULE AcSensorSetupProofs -------------------------
(***************************************************************************)
(* What AcSensorUpdater knows of the meter, as long as every reply is that *)
(* of the request that waits for it (StaleReplies is FALSE): that no       *)
(* assertion of the handlers fails, that the protocol is that of the meter *)
(* on the bus, that the commands are those the meter can answer, and that  *)
(* a meter is measured with the configuration its settings call for.       *)
(*                                                                         *)
(* Fits relates the object to the registers of the meter: what the updater *)
(* has read or written so far is what the meter holds.  Every handler ends *)
(* in startNextAction, which preserves it (ActionFits), so that what is    *)
(* left to prove is that the object each handler calls it with fits the    *)
(* meter the request has left behind.                                      *)
(*                                                                         *)
(* The last part follows the sweeps over the command table (module         *)
(* AcquisitionSweep): Covered is what a sweep should have read when it has *)
(* come to a command, and SweepInv says that it has.                       *)
(***************************************************************************)
EXTENDS AcSensorRequestProofs, AcquisitionSweep

-----------------------------------------------------------------------------
(* The invariant.                                                          *)
(* The protocol is that of the device type last reported, or the one that  *)
(* the probe for reverse energy registers chose.  A new AcSensor has no    *)
(* protocol yet, which setDeviceType(0) does not change.                   *)
KnownType(u) ==
    u.deviceType # 0 =>
        \/ u.protocol = ProtocolOf(u.deviceType)
        \/ u.protocol = "Em300" /\ ProtocolOf(u.deviceType) = "Et340"

(* From its first reply until it is lost, the meter is the one on the bus. *)
Identified(u, m) ==
    u.settings # "none" \/ u.state \in (IdentifyStates \ {"DeviceId"}) \cup {"WaitForStart"}
        => u.deviceType = m.id

(* What the steps of the setup have established, unless another setup has  *)
(* been requested (which the ET112 does not need).                         *)
SetUp(u, m) ==
    u.settings # "none" /\ (~u.setupRequested \/ u.protocol = "Et112") =>
        /\ u.state \in MeasureStates => Configured(m, u.protocol, u.settings)
        /\ u.state = "CheckFrontSelector" => u.application = m.application
        /\ u.state \in {"CheckFrontSelector", "SetApplication"} =>
              /\ u.measuringSystem = m.system
              /\ u.desiredMeasuringSystem = DesiredApplicationSystem(u.settings)
        /\ u.state = "CheckMeasurementSystem" => m.mode = DesiredMode(u.protocol, u.settings)
        /\ u.state = "SetMeasuringSystem" =>
              IF u.protocol = "Em24"
              THEN /\ m.application = ApplicationH
                   /\ u.desiredMeasuringSystem = DesiredApplicationSystem(u.settings)
              ELSE /\ m.mode = DesiredMode(u.protocol, u.settings)
                   /\ u.desiredMeasuringSystem = DesiredSystem(u.protocol, u.settings)

(* No meter has the address of the application register for a value of it. *)
(* The code compares the two, and would take such an EM24 for configured   *)
(* (ac_sensor_updater.cpp:460).                                            *)
PlausibleMeters == \A m \in Meters : m.application # RegApplication

Fits(u, m) ==
    /\ KnownType(u)
    /\ Identified(u, m)
    /\ u.state = "Wait" => u.settings # "none"
    /\ PlausibleMeters => SetUp(u, m) /\ m.application # RegApplication

(* createSettings asserts that there are no settings yet.                  *)
Calm(u) == u.state = "WaitForStart" => u.settings = "none"

SInv == late = NoRequest /\ updater.fault # "assert" /\ Fits(updater, meter)

-----------------------------------------------------------------------------
(* Objects that differ in their request, timer and counters fit alike.     *)
LEMMA RestsFits ==
    ASSUME NEW u, NEW v, NEW m, Rests(u, v), SameDevice(u, v), SameRegisters(u, v), Fits(u, m)
    PROVE  Fits(v, m)
<1>1. KnownType(v) BY DEF Fits, KnownType, SameDevice
<1>2. Identified(v, m) BY DEF Fits, Identified, SameDevice, Rests, SameLife
<1>3. v.state = "Wait" => v.settings # "none" BY DEF Fits, Rests, SameLife
<1>4. SetUp(u, m) => SetUp(v, m) BY DEF SetUp, SameDevice, SameRegisters, Rests, SameLife
<1> QED BY <1>1, <1>2, <1>3, <1>4 DEF Fits

(* Dealing with a requested setup, which begins it anew.                   *)
LEMMA SetupFits ==
    ASSUME NEW u, NEW m, Ready(u), Fits(u, m), Calm(u)
    PROVE  Fits(SetupDone(u), m) /\ Calm(SetupDone(u))
<1> DEFINE v == SetupDone(u)
<1>1. /\ SameDevice(u, v) /\ SameRegisters(u, v) /\ v.settings = u.settings
      /\ IF u.setupRequested THEN v.state = SetupState(u) ELSE v = u
  BY SetupReady
<1> SUFFICES Fits(v, m) /\ Calm(v) OBVIOUS
<1> HIDE DEF v
<1>2. CASE ~u.setupRequested BY <1>1, <1>2
<1>3. CASE u.setupRequested
  <2>1. v.state \in {"CheckSetup", "CheckMeasurementMode"}
        \/ (v.state = u.state /\ v.protocol \notin {"Em24"} \cup Em300Family)
    BY <1>1, <1>3 DEF SetupState, SameDevice
  <2>2. v.settings # "none" => v.protocol \in Protocols \ {"Unknown"}
    BY <1>1 DEF Ready, Sound, KnownProtocol, SameDevice
  <2>3. KnownType(v) BY <1>1 DEF Fits, KnownType, SameDevice
  <2>4. Identified(v, m) BY <1>1, <2>1 DEF Fits, Identified, SameDevice, IdentifyStates
  <2>5. v.state = "Wait" => v.settings # "none" BY <1>1, <2>1 DEF Fits
  <2>6. SetUp(u, m) => SetUp(v, m)
    <3>1. CASE v.state \in {"CheckSetup", "CheckMeasurementMode"}
      BY <3>1 DEF SetUp, MeasureStates
    <3>2. CASE v.state = u.state /\ v.protocol \notin {"Em24"} \cup Em300Family
      <4>1. v.settings # "none" => v.protocol = "Et112"
        BY <2>2, <3>2 DEF Protocols, Em300Family
      <4> QED BY <1>1, <3>2, <4>1 DEF SetUp, SameDevice, SameRegisters
    <3> QED BY <2>1, <3>1, <3>2
  <2>7. Calm(v) BY <1>1, <2>1 DEF Calm
  <2> QED BY <2>3, <2>4, <2>5, <2>6, <2>7 DEF Fits
<1> QED BY <1>2, <1>3

(* What the action in a state makes of the object.                         *)
LEMMA OutcomeFits ==
    ASSUME NEW u, NEW v, NEW m, Fits(u, m), Outcome(u, v)
    PROVE  Fits(v, m)
<1>1. SameDevice(u, v) /\ SameRegisters(u, v) BY DEF Outcome
<1>2. KnownType(v) BY <1>1 DEF Fits, KnownType, SameDevice
<1>3. CASE Rests(u, v) BY <1>1, <1>3, RestsFits
<1>4. CASE Searches(u, v)
  <2>1. Identified(v, m) BY <1>1, <1>4 DEF Fits, Identified, Searches, SameDevice
  <2>2. SetUp(v, m) BY <1>4 DEF SetUp, Searches, MeasureStates
  <2> QED BY <1>2, <1>4, <2>1, <2>2 DEF Fits, Searches
<1>5. CASE Detects(u, v)
  <2>1. Identified(v, m) BY <1>1, <1>5 DEF Fits, Identified, Detects, SameDevice
  <2>2. SetUp(v, m) BY <1>5 DEF SetUp, Detects, MeasureStates
  <2> QED BY <1>2, <1>5, <2>1, <2>2 DEF Fits, Detects
<1>6. CASE Measures(u, v)
  <2>1. Identified(v, m) BY <1>1, <1>6 DEF Fits, Identified, Measures, SameDevice
  <2>2. SetUp(u, m) => SetUp(v, m)
    BY <1>1, <1>6 DEF SetUp, Measures, SameDevice, MeasureStates
  <2>3. v.settings # "none" BY <1>6 DEF Measures
  <2> QED BY <1>2, <2>1, <2>2, <2>3 DEF Fits
<1> QED BY <1>3, <1>4, <1>5, <1>6 DEF Outcome

(* startNextAction keeps what fits, and its assertion does not fail.       *)
LEMMA ActionFits ==
    ASSUME NEW y, NEW m, Ready(y), Calm(y), Fits(y, m), NEW overrun
    PROVE  LET v == startNextAction(y, overrun)
           IN  Fits(v, m) /\ v.fault # "assert"
<1> DEFINE v == startNextAction(y, overrun)
           z == SetupDone(y)
<1>1. Outcome(z, v) BY NextActionOutcome
<1>2. Fits(z, m) /\ Calm(z) BY SetupFits
<1> HIDE DEF v, z
<1>3. Fits(v, m) BY <1>1, <1>2, OutcomeFits
<1>4. v.fault # "assert" BY <1>1, <1>2 DEF Outcome, Calm
<1> QED BY <1>3, <1>4 DEF v

-----------------------------------------------------------------------------
(* Writing to the meter.                                                   *)
(* The three writes of the setup, in the state x that waits for them.      *)
WriteRequest(x) ==
    \/ x.state = "SetApplication" /\ x.request = Write(RegApplication, ApplicationH)
    \/ /\ x.state = "SetMeasuringSystem"
       /\ x.request.reg \in {RegMeasurementSystem, RegEm300MeasurementSystem}
       /\ x.request.arg = x.desiredMeasuringSystem
    \/ x.state = "SetMeasurementMode" /\ AsksForMode(x)

LEMMA WritesOfSetup ==
    ASSUME NEW x, Asked(x), x.request.op = "write"
    PROVE  WriteRequest(x)
<1>1. x.state # "Acquisition" BY DEF Asked, AsksForCommand, Read
<1>2. x.state = "SetMeasurementMode" => AsksForMode(x) BY DEF Asked
<1>3. ASSUME x.state # "SetMeasurementMode"
      PROVE  x.state \in {"SetApplication", "SetMeasuringSystem"} /\ x.request = StateRequest(x)
  BY <1>1, <1>3 DEF Asked, SingleRequestStates, IdentifyStates, StateRequest, Read
<1>4. x.state = "SetApplication" => x.request = Write(RegApplication, ApplicationH)
  BY <1>3 DEF StateRequest
<1>5. x.state = "SetMeasuringSystem" =>
         /\ x.request.reg \in {RegMeasurementSystem, RegEm300MeasurementSystem}
         /\ x.request.arg = x.desiredMeasuringSystem
  BY <1>3 DEF StateRequest, Write
<1> QED BY <1>2, <1>3, <1>4, <1>5 DEF WriteRequest

(* What they leave in the registers of the meter.                          *)
MeterAfter(x, m, w) ==
    /\ w.id = m.id
    /\ \/ /\ x.state = "SetApplication"
          /\ w.application = ApplicationH /\ w.system = m.system /\ w.mode = m.mode
       \/ /\ x.state = "SetMeasuringSystem"
          /\ w.application = m.application /\ w.system = x.desiredMeasuringSystem
          /\ w.mode = m.mode
       \/ /\ x.state = "SetMeasurementMode" /\ AsksForMode(x)
          /\ w.application = m.application /\ w.system = m.system /\ w.mode = x.request.arg

LEMMA WritesMeter ==
    ASSUME NEW x, NEW m \in MeterModels, WriteRequest(x), x.request.op = "write"
    PROVE  MeterAfter(x, m, Written(m, x.request))
<1> DEFINE w == Written(m, x.request)
<1>1. CASE x.state = "SetApplication"
  <2>1. x.request.reg = RegApplication /\ x.request.arg = ApplicationH
    BY <1>1 DEF WriteRequest, Write
  <2>2. w = [m EXCEPT !.application = x.request.arg]
    BY <2>1 DEF Written, RegApplication, RegEm112MeasurementMode
  <2> HIDE DEF w
  <2>3. MeterAfter(x, m, w) BY <1>1, <2>1, <2>2 DEF MeterAfter, MeterModels
  <2> QED BY <2>3 DEF w
<1>2. CASE x.state = "SetMeasuringSystem"
  <2>1. x.request.reg \notin {RegApplication, RegEm112MeasurementMode}
    BY <1>2 DEF WriteRequest, RegMeasurementSystem, RegEm300MeasurementSystem, RegApplication,
                RegEm112MeasurementMode
  <2>2. w = [m EXCEPT !.system = x.desiredMeasuringSystem]
    BY <1>2, <2>1 DEF Written, WriteRequest
  <2> HIDE DEF w
  <2>3. MeterAfter(x, m, w) BY <1>2, <2>2 DEF MeterAfter, MeterModels
  <2> QED BY <2>3 DEF w
<1>3. CASE x.state = "SetMeasurementMode"
  <2>1. x.request.reg = RegEm112MeasurementMode /\ AsksForMode(x)
    BY <1>3 DEF WriteRequest, AsksForMode
  <2>2. x.request.reg # RegApplication
    BY <2>1 DEF RegApplication, RegEm112MeasurementMode
  <2>3. w = [m EXCEPT !.mode = x.request.arg] BY <2>1, <2>2 DEF Written
  <2> HIDE DEF w
  <2>4. MeterAfter(x, m, w) BY <1>3, <2>1, <2>3 DEF MeterAfter, MeterModels
  <2> QED BY <2>4 DEF w
<1> QED BY <1>1, <1>2, <1>3 DEF WriteRequest

(* The meter may have been written to although no reply was received: the  *)
(* object fits it all the same.                                            *)
LEMMA WrittenFits ==
    ASSUME NEW x, NEW m, NEW w, MeterAfter(x, m, w), Fits(x, m)
    PROVE  Fits(x, w)
<1>1. Identified(x, w) BY DEF Fits, Identified, MeterAfter
<1>2. SetUp(x, m) => SetUp(x, w) BY DEF SetUp, MeterAfter, MeasureStates
<1>3. m.application # RegApplication => w.application # RegApplication
  BY DEF MeterAfter, ApplicationH, RegApplication
<1> QED BY <1>1, <1>2, <1>3 DEF Fits

(* The reply to a write: the next step of the setup, or the measurements.  *)
LEMMA WriteFits ==
    ASSUME NEW x, NEW m, NEW w, NEW v, Placed(x), MeterAfter(x, m, w), Fits(x, m),
           StateMove(x, v), v.state = WriteState(x)
    PROVE  Fits(v, w) /\ Calm(v)
<1>0. SameDevice(x, v) /\ SameRegisters(x, v) /\ SameLife(x, v) BY DEF StateMove
<1>1. \/ /\ x.state = "SetApplication"
         /\ v.state = IF x.measuringSystem = x.desiredMeasuringSystem
                      THEN "Acquisition" ELSE "SetMeasuringSystem"
      \/ x.state = "SetMeasuringSystem" /\ v.state = "Acquisition"
      \/ x.state = "SetMeasurementMode" /\ v.state = AfterMeasurementMode(x)
  BY DEF MeterAfter, WriteState
<1>2. v.state \in {"Acquisition", "SetMeasuringSystem", "CheckMeasurementSystem"}
  BY <1>1 DEF AfterMeasurementMode
<1>3. KnownType(v) BY <1>0 DEF Fits, KnownType, SameDevice
<1>4. Identified(v, w)
  BY <1>0, <1>2 DEF Fits, Identified, MeterAfter, SameDevice, SameLife, IdentifyStates
<1>5. m.application # RegApplication => w.application # RegApplication
  BY DEF MeterAfter, ApplicationH, RegApplication
<1>6. ASSUME SetUp(x, m), v.settings # "none", ~v.setupRequested \/ v.protocol = "Et112"
      PROVE  SetUp(v, w)
  <2>0. x.settings = v.settings /\ x.protocol = v.protocol /\ x.setupRequested = v.setupRequested
    BY <1>0 DEF SameLife, SameDevice
  <2>1. CASE x.state = "SetApplication"
    <3>1. x.protocol = "Em24" BY <2>1 DEF Placed, Em24SetupStates
    <3>2. /\ x.measuringSystem = m.system
          /\ x.desiredMeasuringSystem = DesiredApplicationSystem(x.settings)
      BY <1>6, <2>0, <2>1 DEF SetUp
    <3>3. w.application = ApplicationH /\ w.system = m.system BY <2>1 DEF MeterAfter
    <3>4. v.desiredMeasuringSystem = x.desiredMeasuringSystem BY <1>0 DEF SameRegisters
    <3>5. x.measuringSystem = x.desiredMeasuringSystem =>
             v.state = "Acquisition" /\ Configured(w, x.protocol, x.settings)
      BY <1>1, <2>1, <3>1, <3>2, <3>3 DEF Configured, Em300Family
    <3>6. x.measuringSystem # x.desiredMeasuringSystem => v.state = "SetMeasuringSystem"
      BY <1>1, <2>1
    <3> QED BY <2>0, <3>1, <3>2, <3>3, <3>4, <3>5, <3>6 DEF SetUp, MeasureStates
  <2>2. CASE x.state = "SetMeasuringSystem"
    <3>1. w.application = m.application /\ w.system = x.desiredMeasuringSystem /\ w.mode = m.mode
      BY <2>2 DEF MeterAfter
    <3>2. x.protocol = "Em24" \/ x.protocol \in Em300Family BY <2>2 DEF Placed
    <3>3. x.protocol \in Em300Family => x.protocol # "Em24" BY DEF Em300Family
    <3>4. IF x.protocol = "Em24"
          THEN /\ m.application = ApplicationH
               /\ x.desiredMeasuringSystem = DesiredApplicationSystem(x.settings)
          ELSE /\ m.mode = DesiredMode(x.protocol, x.settings)
               /\ x.desiredMeasuringSystem = DesiredSystem(x.protocol, x.settings)
      BY <1>6, <2>0, <2>2 DEF SetUp
    <3>5. Configured(w, x.protocol, x.settings)
      BY <3>1, <3>2, <3>3, <3>4 DEF Configured
    <3> QED BY <1>1, <2>0, <2>2, <3>5 DEF SetUp
  <2>3. CASE x.state = "SetMeasurementMode"
    <3>1. w.mode = x.request.arg /\ AsksForMode(x) BY <2>3 DEF MeterAfter
    <3>2. w.mode = DesiredMode(x.protocol, x.settings) BY <1>6, <2>0, <3>1 DEF AsksForMode
    <3>3. x.protocol \in Em300Family \cup {"Et112"} BY <2>3 DEF Placed, ModeStates
    <3>4. CASE x.protocol \in Em300Family
      <4>1. v.state = "CheckMeasurementSystem" BY <1>1, <2>3, <3>4 DEF AfterMeasurementMode
      <4> QED BY <2>0, <3>2, <4>1 DEF SetUp, MeasureStates
    <3>5. CASE x.protocol = "Et112"
      <4>1. v.state = "Acquisition" BY <1>1, <2>3, <3>5 DEF AfterMeasurementMode, Em300Family
      <4>2. Configured(w, x.protocol, x.settings)
        BY <3>2, <3>5 DEF Configured, DesiredMode, Em300Family
      <4> QED BY <2>0, <4>1, <4>2 DEF SetUp
    <3> QED BY <3>3, <3>4, <3>5
  <2> QED BY <1>1, <2>1, <2>2, <2>3
<1>7. SetUp(x, m) => SetUp(v, w) BY <1>6 DEF SetUp
<1>8. v.state # "Wait" /\ v.state # "WaitForStart" BY <1>2
<1> QED BY <1>3, <1>4, <1>5, <1>7, <1>8 DEF Fits, Calm

-----------------------------------------------------------------------------
(* Reading from the meter.                                                 *)
(* What a reply says of the meter, in the state x that waits for it.       *)
ReadingStates ==
    IdentifyStates \cup {"CheckSetup", "CheckFrontSelector", "CheckMeasurementMode",
                         "CheckMeasurementSystem", "Acquisition"}
Replied(x, m, registers) ==
    /\ x.state \in ReadingStates
    /\ x.state = "DeviceId" => registers = <<m.id>>
    /\ x.state = "Serial" => Len(registers) = 7
    /\ x.state = "CheckSetup" => registers = <<m.application, m.system>>
    /\ x.state = "CheckMeasurementMode" => registers = <<m.mode>>
    /\ x.state = "CheckMeasurementSystem" => registers = <<m.system>>

LEMMA ReadsOfState ==
    ASSUME NEW x, Asked(x), x.request.op = "read"
    PROVE  /\ x.state \in ReadingStates
           /\ x.state # "Acquisition" => x.request = StateRequest(x)
<1>1. x.state # "SetMeasurementMode" BY DEF Asked, AsksForMode
<1>2. x.state # "Acquisition" => x.state \in SingleRequestStates /\ x.request = StateRequest(x)
  BY <1>1 DEF Asked
<1>3. x.state \notin {"SetApplication", "SetMeasuringSystem"}
  BY <1>2 DEF StateRequest, Write, SingleRequestStates
<1> QED BY <1>2, <1>3 DEF ReadingStates, SingleRequestStates

(* The meter replies with the registers the state asks for.                *)
LEMMA MeterReplies ==
    ASSUME NEW x, NEW m, Asked(x), x.request.op = "read"
    PROVE  Replied(x, m, ReadReply(m, x.request))
<1> DEFINE registers == ReadReply(m, x.request)
<1>1. /\ x.state \in ReadingStates
      /\ x.state # "Acquisition" => x.request.reg = StateRequest(x).reg
  BY ReadsOfState
<1>2. ASSUME x.state = "DeviceId" PROVE registers = <<m.id>>
  <2>1. x.request.reg = RegDeviceId BY <1>1, <1>2 DEF StateRequest, Read
  <2> QED BY <2>1
          DEF ReadReply, RegDeviceId, RegEm24Serial, RegEm112Serial, RegEm24FrontSelector,
              RegApplication, RegEm112MeasurementMode, RegMeasurementSystem,
              RegEm300MeasurementSystem
<1>3. ASSUME x.state = "Serial" PROVE Len(registers) = 7
  <2>1. x.request.reg \in {RegEm24Serial, RegEm112Serial}
    BY <1>1, <1>3 DEF StateRequest, Read
  <2>2. registers = GoodSerial
    BY <2>1
       DEF ReadReply, RegDeviceId, RegEm24Serial, RegEm112Serial, RegEm24FrontSelector,
           RegApplication, RegEm112MeasurementMode, RegMeasurementSystem,
           RegEm300MeasurementSystem
  <2> HIDE DEF registers
  <2> QED BY <2>2 DEF GoodSerial
<1>4. ASSUME x.state = "CheckSetup" PROVE registers = <<m.application, m.system>>
  <2>1. x.request.reg = RegApplication BY <1>1, <1>4 DEF StateRequest, Read
  <2> QED BY <2>1
          DEF ReadReply, RegDeviceId, RegEm24Serial, RegEm112Serial, RegEm24FrontSelector,
              RegApplication, RegEm112MeasurementMode, RegMeasurementSystem,
              RegEm300MeasurementSystem
<1>5. ASSUME x.state = "CheckMeasurementMode" PROVE registers = <<m.mode>>
  <2>1. x.request.reg = RegEm112MeasurementMode BY <1>1, <1>5 DEF StateRequest, Read
  <2> QED BY <2>1
          DEF ReadReply, RegDeviceId, RegEm24Serial, RegEm112Serial, RegEm24FrontSelector,
              RegApplication, RegEm112MeasurementMode, RegMeasurementSystem,
              RegEm300MeasurementSystem
<1>6. ASSUME x.state = "CheckMeasurementSystem" PROVE registers = <<m.system>>
  <2>1. x.request.reg \in {RegMeasurementSystem, RegEm300MeasurementSystem}
    BY <1>1, <1>6 DEF StateRequest, Read
  <2> QED BY <2>1
          DEF ReadReply, RegDeviceId, RegEm24Serial, RegEm112Serial, RegEm24FrontSelector,
              RegApplication, RegEm112MeasurementMode, RegMeasurementSystem,
              RegEm300MeasurementSystem
<1> HIDE DEF registers
<1>7. Replied(x, m, registers) BY <1>1, <1>2, <1>3, <1>4, <1>5, <1>6 DEF Replied
<1> QED BY <1>7 DEF registers

(* A short serial number has the length of a serial number.                *)
LEMMA ShortSerialReplies ==
    ASSUME NEW x, NEW m, Asked(x), x.request.op = "read",
           x.request.reg \in {RegEm24Serial, RegEm112Serial}
    PROVE  Replied(x, m, ShortSerial)
<1>1. /\ x.state \in ReadingStates
      /\ x.state # "Acquisition" => x.request.reg = StateRequest(x).reg
  BY ReadsOfState
<1>2. x.state \notin {"DeviceId", "CheckSetup", "CheckMeasurementMode", "CheckMeasurementSystem"}
  BY <1>1 DEF StateRequest, Read, RegDeviceId, RegEm24Serial, RegEm112Serial, RegApplication,
              RegEm112MeasurementMode, RegMeasurementSystem, RegEm300MeasurementSystem
<1>3. Len(ShortSerial) = 7 BY DEF ShortSerial
<1> QED BY <1>1, <1>2, <1>3 DEF Replied

(* No assertion fails.                                                     *)
LEMMA RepliesExpected ==
    ASSUME NEW x, NEW m, NEW registers, Replied(x, m, registers)
    PROVE  ~ReadUnexpected(x, registers)
BY DEF Replied, ReadUnexpected

(* The device type.                                                        *)
LEMMA DeviceFits ==
    ASSUME NEW x, NEW m, NEW v, x.state = "DeviceId", Sound(x), Sound(v), Fits(x, m),
           SameLife(x, v), IdentifiedAs(x, m.id, v)
    PROVE  Fits(v, m) /\ Calm(v)
<1>1. v.settings = "none" BY DEF Sound, SameLife, IdentifyStates
<1>2. KnownType(v) BY DEF Fits, KnownType, IdentifiedAs
<1>3. Identified(v, m) BY DEF Identified, IdentifiedAs
<1>4. v.protocol \in InitialProtocols BY DEF Sound, Updaters
<1>5. v.state \in {"DeviceId", "Serial", "PhaseReverseEnergy"}
  BY <1>4 DEF IdentifiedAs, AfterDeviceId, InitialProtocols, Protocols
<1> QED BY <1>1, <1>2, <1>3, <1>5 DEF Fits, SetUp, Calm

(* The configuration of an EM24.                                           *)
LEMMA SystemReadFits ==
    ASSUME NEW x, NEW m, NEW v, x.state = "CheckSetup", Placed(x), Fits(x, m),
           SameLife(x, v), SameDevice(x, v), SystemRead(x, <<m.application, m.system>>, v)
    PROVE  Fits(v, m) /\ Calm(v)
<1>1. x.protocol = "Em24" /\ v.protocol = "Em24" /\ v.settings = x.settings
  BY DEF Placed, Em24SetupStates, SameDevice, SameLife
<1>2. /\ v.application = m.application /\ v.measuringSystem = m.system
      /\ v.desiredMeasuringSystem = DesiredApplicationSystem(v.settings)
      /\ \/ /\ v.state = "Acquisition"
            /\ m.application = ApplicationH /\ m.system = DesiredApplicationSystem(v.settings)
         \/ v.state = "CheckFrontSelector"
  BY <1>1 DEF SystemRead
<1>3. v.state = "Acquisition" => Configured(m, v.protocol, v.settings)
  BY <1>1, <1>2 DEF Configured, Em300Family
<1>4. KnownType(v) BY DEF Fits, KnownType, SameDevice
<1>5. Identified(v, m) BY <1>1, <1>2 DEF Fits, Identified, SameDevice, IdentifyStates
<1>6. SetUp(v, m) BY <1>2, <1>3 DEF SetUp, MeasureStates
<1> QED BY <1>2, <1>4, <1>5, <1>6 DEF Fits, Calm

(* The measuring system of an EM3xx or EM540.                              *)
LEMMA SystemCheckedFits ==
    ASSUME NEW x, NEW m, NEW v, x.state = "CheckMeasurementSystem", Fits(x, m),
           SameLife(x, v), SameDevice(x, v), SystemChecked(x, <<m.system>>, v)
    PROVE  Fits(v, m) /\ Calm(v)
<1>1. /\ v.protocol \in Em300Family /\ v.protocol # "Em24"
      /\ v.protocol = x.protocol /\ v.settings = x.settings
      /\ v.setupRequested = x.setupRequested
  BY DEF SystemChecked, SameDevice, SameLife, Em300Family
<1>2. /\ v.desiredMeasuringSystem = DesiredSystem(v.protocol, v.settings)
      /\ \/ v.state = "Acquisition" /\ m.system = DesiredSystem(v.protocol, v.settings)
         \/ v.state = "SetMeasuringSystem"
  BY <1>1 DEF SystemChecked
<1>3. KnownType(v) BY DEF Fits, KnownType, SameDevice
<1>4. Identified(v, m) BY <1>1, <1>2 DEF Fits, Identified, SameDevice, IdentifyStates
<1>5. ASSUME SetUp(x, m), v.settings # "none", ~v.setupRequested \/ v.protocol = "Et112"
      PROVE  SetUp(v, m)
  <2>1. m.mode = DesiredMode(v.protocol, v.settings) BY <1>1, <1>5 DEF SetUp
  <2>2. v.state = "Acquisition" => Configured(m, v.protocol, v.settings)
    BY <1>1, <1>2, <2>1 DEF Configured
  <2> QED BY <1>1, <1>2, <2>1, <2>2 DEF SetUp, MeasureStates
<1>6. SetUp(x, m) => SetUp(v, m) BY <1>5 DEF SetUp
<1> QED BY <1>2, <1>3, <1>4, <1>6 DEF Fits, Calm

(* The measurement mode, and the front selector of an EM24.                *)
LEMMA CheckedFits ==
    ASSUME NEW x, NEW m, NEW v, NEW registers, Replied(x, m, registers),
           x.state \in {"CheckMeasurementMode", "CheckFrontSelector"},
           Placed(x), Fits(x, m), SameLife(x, v), SameDevice(x, v), SameRegisters(x, v),
           v.state = ReadState(x, registers)
    PROVE  Fits(v, m) /\ Calm(v)
<1>1. v.protocol = x.protocol /\ v.settings = x.settings /\ v.setupRequested = x.setupRequested
  BY DEF SameDevice, SameLife
<1>2. KnownType(v) BY DEF Fits, KnownType, SameDevice
<1> DEFINE Checked == /\ v.state \notin IdentifyStates \cup {"Wait", "WaitForStart"}
                      /\ PlausibleMeters => SetUp(v, m)
<1>3. ASSUME x.state = "CheckFrontSelector" PROVE Checked
  <2>1. \/ v.state = "WaitFrontSelector"
        \/ v.state = "SetApplication" /\ x.application # RegApplication
        \/ v.state \in {"SetMeasuringSystem", "Acquisition"} /\ x.application = RegApplication
    BY <1>3 DEF ReadState
  <2>2. ASSUME PlausibleMeters, v.settings # "none", ~v.setupRequested \/ v.protocol = "Et112"
        PROVE  SetUp(v, m)
    <3>1. /\ x.application = m.application /\ x.measuringSystem = m.system
          /\ x.desiredMeasuringSystem = DesiredApplicationSystem(x.settings)
          /\ m.application # RegApplication
      BY <1>1, <1>3, <2>2 DEF Fits, SetUp
    <3> QED BY <1>1, <2>1, <3>1 DEF SetUp, SameRegisters, MeasureStates
  <2>3. PlausibleMeters => SetUp(v, m) BY <2>2 DEF SetUp
  <2>4. v.state \notin IdentifyStates \cup {"Wait", "WaitForStart"} BY <2>1 DEF IdentifyStates
  <2> QED BY <2>3, <2>4
<1>4. ASSUME x.state = "CheckMeasurementMode" PROVE Checked
  <2>1. v.state = IF m.mode = DesiredMode(x.protocol, x.settings)
                  THEN AfterMeasurementMode(x) ELSE "SetMeasurementMode"
    BY <1>4 DEF ReadState, Replied
  <2>2. v.state \in {"CheckMeasurementSystem", "Acquisition", "SetMeasurementMode"}
    BY <2>1 DEF AfterMeasurementMode
  <2>3. x.protocol \in Em300Family \cup {"Et112"} BY <1>4 DEF Placed, ModeStates
  <2>4. v.state = "CheckMeasurementSystem" => m.mode = DesiredMode(v.protocol, v.settings)
    BY <1>1, <2>1 DEF AfterMeasurementMode
  <2>5. v.state = "Acquisition" => Configured(m, v.protocol, v.settings)
    <3>1. ASSUME v.state = "Acquisition" PROVE x.protocol = "Et112" /\ m.mode = MeasurementModeB
      BY <2>1, <2>3, <3>1 DEF AfterMeasurementMode, DesiredMode
    <3> QED BY <1>1, <3>1 DEF Configured, Em300Family
  <2>6. SetUp(v, m) BY <2>2, <2>4, <2>5 DEF SetUp, MeasureStates
  <2> QED BY <2>2, <2>6 DEF IdentifyStates
<1>5. Checked BY <1>3, <1>4
<1>6. Identified(v, m) BY <1>1, <1>5 DEF Fits, Identified, SameDevice
<1> QED BY <1>2, <1>5, <1>6 DEF Fits, Calm

(* The reply to a read: what it changes fits the meter it is from.         *)
LEMMA ReadFits ==
    ASSUME NEW x, NEW m, NEW registers, NEW v, Replied(x, m, registers),
           Sound(x), Placed(x), Fits(x, m), Sound(v), ReadMove(x, registers, v)
    PROVE  Fits(v, m) /\ Calm(v)
<1>0. SameLife(x, v) BY DEF ReadMove
<1>1. CASE x.state = "DeviceId"
  <2>1. registers[1] = m.id BY <1>1 DEF Replied
  <2>2. IdentifiedAs(x, m.id, v) BY <1>1, <2>1 DEF ReadMove
  <2> QED BY <1>0, <1>1, <2>2, DeviceFits
<1>2. CASE x.state = "CheckSetup"
  <2>1. SameDevice(x, v) /\ SystemRead(x, <<m.application, m.system>>, v)
    BY <1>2 DEF ReadMove, Replied
  <2> QED BY <1>0, <1>2, <2>1, SystemReadFits
<1>3. CASE x.state = "CheckMeasurementSystem"
  <2>1. SameDevice(x, v) /\ SystemChecked(x, <<m.system>>, v) BY <1>3 DEF ReadMove, Replied
  <2> QED BY <1>0, <1>3, <2>1, SystemCheckedFits
<1>4. CASE x.state \notin {"DeviceId", "CheckSetup", "CheckMeasurementSystem"}
  <2>1. SameDevice(x, v) /\ SameRegisters(x, v) /\ v.state = ReadState(x, registers)
    BY <1>4 DEF ReadMove
  <2>2. CASE x.state \in {"CheckMeasurementMode", "CheckFrontSelector"}
    BY <1>0, <2>1, <2>2, CheckedFits
  <2>3. CASE x.state = "Acquisition"
    <3>1. v.state = "Acquisition" BY <2>1, <2>3 DEF ReadState
    <3>2. Rests(x, v) BY <1>0, <2>3, <3>1 DEF Rests
    <3> QED BY <2>1, <3>1, <3>2, RestsFits DEF Calm
  <2>4. CASE x.state \in IdentifyStates
    <3>1. v.state \in {"Serial", "FirmwareVersion", "PhaseSequence", "WaitForStart"}
      BY <1>4, <2>1, <2>4 DEF ReadState, IdentifyStates
    <3>2. v.settings = "none" BY <1>0, <2>4 DEF Sound, SameLife
    <3>3. KnownType(v) BY <2>1 DEF Fits, KnownType, SameDevice
    <3>4. Identified(v, m) BY <1>4, <2>1, <2>4 DEF Fits, Identified, SameDevice
    <3>5. SetUp(v, m) BY <3>2 DEF SetUp
    <3> QED BY <3>1, <3>2, <3>3, <3>4, <3>5 DEF Fits, Calm
  <2> QED BY <1>4, <2>2, <2>3, <2>4 DEF Replied, ReadingStates
<1> QED BY <1>1, <1>2, <1>3, <1>4

-----------------------------------------------------------------------------
(* The handlers.                                                           *)
(* No device type is that of an EM300: only the probe finds one.           *)
LEMMA NoTypeOfEm300 == \A type : ProtocolOf(type) # "Em300"
BY DEF ProtocolOf

(* A lost sensor fits every meter.                                         *)
LEMMA DropFits ==
    ASSUME NEW u, NEW m, NEW v, Fits(u, m), Drops(v), SameDevice(u, v)
    PROVE  Fits(v, m) /\ Calm(v)
<1>1. KnownType(v) BY DEF Fits, KnownType, SameDevice
<1>2. Identified(v, m) BY DEF Drops, Identified, IdentifyStates
<1>3. SetUp(v, m) BY DEF Drops, SetUp
<1> QED BY <1>1, <1>2, <1>3 DEF Fits, Drops, Calm

(* A meter that seems to have no registers for reverse energy is an EM300. *)
LEMMA WithoutReverseFits ==
    ASSUME NEW u, NEW m, Answerable(u), Fits(u, m)
    PROVE  Fits(WithoutReverse(u), m) /\ Calm(WithoutReverse(u))
<1> DEFINE v == WithoutReverse(u)
<1>1. /\ SameLife(u, v) /\ v.deviceType = u.deviceType
      /\ IF u.state = "PhaseReverseEnergy"
         THEN v.protocol = "Em300" /\ v.state = "Serial" ELSE v = u
  BY WithoutReverseReady
<1> SUFFICES Fits(v, m) /\ Calm(v) OBVIOUS
<1> HIDE DEF v
<1>2. CASE u.state # "PhaseReverseEnergy"
  <2>1. u.state # "WaitForStart"
    BY DEF Answerable, AskingStates, SingleRequestStates, IdentifyStates
  <2> QED BY <1>1, <1>2, <2>1 DEF Calm
<1>3. CASE u.state = "PhaseReverseEnergy"
  <2>1. u.protocol \in {"Et340", "Em300"} /\ u.settings = "none"
    BY <1>3 DEF Answerable, Ready, Sound, Placed, IdentifyStates
  <2>2. KnownType(v) BY <1>1, <1>3, <2>1, NoTypeOfEm300 DEF Fits, KnownType
  <2>3. Identified(v, m) BY <1>1, <1>3 DEF Fits, Identified, IdentifyStates
  <2>4. SetUp(v, m) BY <1>1, <2>1 DEF SetUp, SameLife
  <2> QED BY <1>1, <1>3, <2>2, <2>3, <2>4 DEF Fits, Calm
<1> QED BY <1>2, <1>3

(* onErrorReceived.                                                        *)
LEMMA ErrorFits ==
    ASSUME NEW u, NEW m, Answerable(u), Fits(u, m), NEW error, NEW overrun
    PROVE  LET v == onErrorReceived(u, error, overrun)
           IN  Fits(v, m) /\ v.fault # "assert"
<1> DEFINE w == WithoutReverse(u)
           y == IF Exhausted(w) THEN disconnectSensor(w) ELSE countFailure(w, error)
<1>1. onErrorReceived(u, error, overrun) = startNextAction(y, overrun) BY DEF onErrorReceived
<1>2. Ready(w) /\ Fits(w, m) /\ Calm(w) BY WithoutReverseReady, WithoutReverseFits
<1> HIDE DEF w
<1>3. Ready(y) /\ Fits(y, m) /\ Calm(y)
  <2>1. CASE Exhausted(w)
    <3> DEFINE z == disconnectSensor(w)
    <3>1. Ready(z) /\ Drops(z) /\ SameDevice(w, z) BY <1>2, DisconnectDrops
    <3>2. y = z BY <2>1
    <3> HIDE DEF z
    <3>3. Fits(z, m) /\ Calm(z) BY <1>2, <3>1, DropFits
    <3> QED BY <3>1, <3>2, <3>3
  <2>2. CASE ~Exhausted(w)
    <3> DEFINE z == countFailure(w, error)
    <3>1. Ready(z) /\ Rests(w, z) /\ SameDevice(w, z) /\ SameRegisters(w, z)
      BY <1>2, <2>2, CountReady
    <3>2. y = z BY <2>2
    <3> HIDE DEF z
    <3>3. Fits(z, m) BY <1>2, <3>1, RestsFits
    <3>4. Calm(z) BY <1>2, <3>1 DEF Calm, Rests, SameLife
    <3> QED BY <3>1, <3>2, <3>3, <3>4
  <2> QED BY <2>1, <2>2
<1> HIDE DEF y
<1>4. Fits(startNextAction(y, overrun), m) /\ startNextAction(y, overrun).fault # "assert"
  BY <1>3, ActionFits
<1> QED BY <1>1, <1>4

(* The counters are reset, and the next action follows.                    *)
LEMMA SuccessFits ==
    ASSUME NEW u, NEW m, Ready(u), Fits(u, m), Calm(u), NEW overrun
    PROVE  LET v == startNextAction(CountersZero(u), overrun)
           IN  Fits(v, m) /\ v.fault # "assert"
<1> DEFINE y == CountersZero(u)
<1>1. Ready(y) /\ Rests(u, y) /\ SameDevice(u, y) /\ SameRegisters(u, y) BY ZeroReady
<1> HIDE DEF y
<1>2. Fits(y, m) BY <1>1, RestsFits
<1>3. Calm(y) BY <1>1 DEF Calm, Rests, SameLife
<1>4. Fits(startNextAction(y, overrun), m) /\ startNextAction(y, overrun).fault # "assert"
  BY <1>1, <1>2, <1>3, ActionFits
<1> QED BY <1>4 DEF y

(* onReadCompleted.                                                        *)
LEMMA ReadCompletedFits ==
    ASSUME NEW u, NEW m, Answerable(u), Fits(u, m), NEW overrun,
           NEW registers \in Seq(Nat), Len(registers) > 0, Replied(u, m, registers)
    PROVE  LET v == onReadCompleted(u, registers, overrun)
           IN  Fits(v, m) /\ v.fault # "assert"
<1> DEFINE w == acceptRead(u, registers)
           v == onReadCompleted(u, registers, overrun)
           Kept(x) == Fits(x, m) /\ x.fault # "assert"
<1> SUFFICES Kept(v) OBVIOUS
<1>1. \/ Ends(u, w) /\ w.fault # "assert"
      \/ ReadMove(u, registers, w)
  BY ReadMoves, RepliesExpected
<1>2. CASE Ends(u, w) /\ w.fault # "assert"
  <2>1. v = w BY <1>2 DEF onReadCompleted, Ends
  <2> HIDE DEF v, w
  <2>2. Fits(w, m) BY <1>2, RestsFits DEF Ends
  <2> QED BY <1>2, <2>1, <2>2
<1>3. CASE ReadMove(u, registers, w)
  <2>1. Ready(w) /\ w.fault = "none" BY <1>3, ReadReady DEF ReadMove
  <2>2. v = IF u.state = "DeviceId" /\ w.protocol = "Unknown" THEN disconnectSensor(w)
            ELSE IF u.state = "Serial" /\ SerialSize(registers) < 2
            THEN onErrorReceived(u, "Timeout", overrun)
            ELSE startNextAction(CountersZero(w), overrun)
    BY <2>1 DEF onReadCompleted, CountersZero
  <2> HIDE DEF w, v
  <2>3. Fits(w, m) /\ Calm(w) BY <1>3, <2>1, ReadFits DEF Answerable, Ready
  <2>4. Kept(disconnectSensor(w))
    <3>1. /\ Drops(disconnectSensor(w)) /\ SameDevice(w, disconnectSensor(w))
          /\ Ready(disconnectSensor(w))
      BY <2>1, DisconnectDrops
    <3>2. Fits(disconnectSensor(w), m) BY <2>3, <3>1, DropFits
    <3> QED BY <3>1, <3>2 DEF Ready
  <2>5. Kept(onErrorReceived(u, "Timeout", overrun)) BY ErrorFits
  <2>6. Kept(startNextAction(CountersZero(w), overrun)) BY <2>1, <2>3, SuccessFits
  <2> HIDE DEF Kept
  <2> QED BY <2>2, <2>4, <2>5, <2>6
<1> QED BY <1>1, <1>2, <1>3

(* onWriteCompleted, for the write that the object x waited for.           *)
LEMMA WriteCompletedFits ==
    ASSUME NEW x, NEW u, NEW m, NEW after, Answerable(u), Placed(x), Fits(x, m),
           Rests(x, u), SameDevice(x, u), SameRegisters(x, u), SameCounters(x, u),
           WriteRequest(x), MeterAfter(x, m, after), NEW overrun
    PROVE  LET v == onWriteCompleted(u, x.request.reg, x.request.arg, overrun)
           IN  Fits(v, after) /\ v.fault # "assert"
<1> DEFINE reg == x.request.reg
           value == x.request.arg
           w == acceptWrite(u, reg, value)
           v == onWriteCompleted(u, reg, value, overrun)
<1>1. ~WriteUnexpected(u, reg, value)
  BY DEF WriteUnexpected, WriteRequest, Write, Rests, SameRegisters
<1>2. StateMove(u, w) /\ w.state = WriteState(u) /\ Ready(w) BY <1>1, WriteMoves
<1>3. v = startNextAction(CountersZero(w), overrun)
  BY <1>2 DEF onWriteCompleted, CountersZero, StateMove
<1> HIDE DEF w, v
<1>4. StateMove(x, w)
  BY <1>2 DEF StateMove, Rests, SameLife, SameCounters, SameDevice, SameRegisters
<1>5. WriteState(u) = WriteState(x)
  BY DEF WriteState, AfterMeasurementMode, RestartState, Rests, SameDevice, SameRegisters
<1>6. Fits(w, after) /\ Calm(w) BY <1>2, <1>4, <1>5, WriteFits
<1>7. Fits(v, after) /\ v.fault # "assert" BY <1>2, <1>3, <1>6, SuccessFits
<1> QED BY <1>7 DEF v

-----------------------------------------------------------------------------
(* The steps.                                                              *)
(* Whether or not the request has reached the meter, the object fits it.   *)
LEMMA RequestFits ==
    ASSUME IInv, RInv, SInv, Asking
    PROVE  Fits(updater, Written(meter, updater.request))
<1>1. Asked(updater) BY AnsweredAnswerable
<1>2. CASE updater.request.op = "write"
  <2>1. MeterAfter(updater, meter, Written(meter, updater.request))
    BY <1>1, <1>2, WritesOfSetup, WritesMeter DEF IInv
  <2> QED BY <2>1, WrittenFits DEF SInv
<1>3. CASE updater.request.op # "write"
  <2>1. Written(meter, updater.request) = meter BY <1>3 DEF Written
  <2> QED BY <2>1 DEF SInv
<1> QED BY <1>2, <1>3

(* Every answer: one case for each handler it reaches.                     *)
LEMMA AnswerFits ==
    ASSUME StaleReplies = FALSE, IInv, RInv, SInv, Answer
    PROVE  Fits(updater', meter') /\ updater'.fault # "assert"
<1> DEFINE u == Answered
           Kept == Fits(updater', meter') /\ updater'.fault # "assert"
<1>0. Asking
  BY DEF Answer, Reply, BusError, ReadAnswered, ShortSerialAnswered, WriteAnswered, TimedOut,
         CrcErrorReceived, ReadRefused, ExceptionReceived, StaleReplyReceived
<1>1. /\ Answerable(u) /\ Rests(updater, u) /\ SameDevice(updater, u)
      /\ SameRegisters(updater, u) /\ SameCounters(updater, u)
      /\ Asked(updater) /\ Sent(updater.request)
  BY <1>0, AnsweredAnswerable
<1>2. meter \in MeterModels /\ Placed(updater) /\ Fits(updater, meter)
  BY DEF IInv, RInv, SInv
<1> HIDE DEF u
<1>3. Fits(u, meter) /\ u.state = updater.state BY <1>1, <1>2, RestsFits DEF Rests
<1>4. ASSUME ReadAnswered PROVE Kept
  <2> DEFINE registers == ReadReply(meter, updater.request)
  <2>1. /\ updater.request.op = "read" /\ meter' = meter
        /\ \E overrun \in BOOLEAN : updater' = onReadCompleted(u, registers, overrun)
    BY <1>4 DEF ReadAnswered, u
  <2>2. registers \in Seq(Nat) /\ Len(registers) > 0 BY <1>1, <1>2, <2>1, ReplyReadable
  <2>3. Replied(updater, meter, registers) BY <1>1, <2>1, MeterReplies
  <2> HIDE DEF registers
  <2>4. Replied(u, meter, registers) BY <1>3, <2>3 DEF Replied
  <2> QED BY <1>1, <1>3, <2>1, <2>2, <2>4, ReadCompletedFits
<1>5. ASSUME ShortSerialAnswered PROVE Kept
  <2>1. /\ updater.request.op = "read" /\ meter' = meter
        /\ updater.request.reg \in {RegEm24Serial, RegEm112Serial}
        /\ \E overrun \in BOOLEAN : updater' = onReadCompleted(u, ShortSerial, overrun)
    BY <1>5 DEF ShortSerialAnswered, u
  <2>2. Replied(updater, meter, ShortSerial) BY <1>1, <2>1, ShortSerialReplies
  <2>3. Replied(u, meter, ShortSerial) BY <1>3, <2>2 DEF Replied
  <2> QED BY <1>1, <1>3, <2>1, <2>3, ShortSerialReadable, ReadCompletedFits
<1>6. ASSUME WriteAnswered PROVE Kept
  <2>1. /\ updater.request.op = "write" /\ meter' = Written(meter, updater.request)
        /\ \E overrun \in BOOLEAN :
             updater' = onWriteCompleted(u, updater.request.reg, updater.request.arg, overrun)
    BY <1>6 DEF WriteAnswered, u
  <2>2. WriteRequest(updater) BY <1>1, <2>1, WritesOfSetup
  <2>3. MeterAfter(updater, meter, meter') BY <1>2, <2>1, <2>2, WritesMeter
  <2> QED BY <1>1, <1>2, <2>1, <2>2, <2>3, WriteCompletedFits
<1>7. ASSUME TimedOut \/ CrcErrorReceived \/ ReadRefused \/ ExceptionReceived PROVE Kept
  <2>1. PICK error, overrun : updater' = onErrorReceived(u, error, overrun)
    BY <1>7 DEF TimedOut, CrcErrorReceived, ReadRefused, ExceptionReceived, u
  <2>2. meter' \in {meter, Written(meter, updater.request)}
    BY <1>7 DEF TimedOut, CrcErrorReceived, ReadRefused, ExceptionReceived
  <2>3. Fits(updater, meter') BY <1>0, <1>2, <2>2, RequestFits
  <2>4. Fits(u, meter') BY <1>1, <2>3, RestsFits
  <2> QED BY <1>1, <2>1, <2>4, ErrorFits
<1>8. ~StaleReplyReceived BY DEF SInv, StaleReplyReceived, NoRequest
<1> QED BY <1>4, <1>5, <1>6, <1>7, <1>8 DEF Answer, Reply, BusError

(* A step that only moves to another state, and then acts.                 *)
LEMMA MoveFits ==
    ASSUME NEW u, NEW m, NEW y, Fits(u, m), StateMove(u, y), Ready(y), NEW overrun,
           y.state \notin (IdentifyStates \ {"DeviceId"}) \cup {"WaitForStart", "Wait"},
           PlausibleMeters => SetUp(y, m)
    PROVE  LET v == startNextAction(y, overrun)
           IN  Fits(v, m) /\ v.fault # "assert"
<1>1. KnownType(y) BY DEF Fits, KnownType, StateMove, SameDevice
<1>2. Identified(y, m) BY DEF Fits, Identified, StateMove, SameDevice, SameLife
<1>3. Fits(y, m) /\ Calm(y) BY <1>1, <1>2 DEF Fits, Calm
<1> QED BY <1>3, ActionFits

LEMMA WaitFits ==
    ASSUME IInv, RInv, SInv, WaitFinished
    PROVE  Fits(updater', meter') /\ updater'.fault # "assert"
<1> DEFINE u == [updater EXCEPT !.timer = FALSE]
           y == [u EXCEPT !.state = TimerState(u)]
<1>1. /\ Ready(u) /\ StateMove(updater, u) /\ u.state = updater.state /\ u.state \in TimerStates
      /\ \E overrun \in BOOLEAN : updater' = onWaitFinished(u, overrun)
  BY WaitHandled
<1> HIDE DEF u
<1>2. /\ Ready(y) /\ StateMove(u, y) /\ y.state = TimerState(u)
      /\ \E overrun \in BOOLEAN : updater' = startNextAction(y, overrun)
  BY <1>1, TimerMoves
<1> HIDE DEF y
<1>3. \/ u.state = "Wait" /\ y.state = "Acquisition"
      \/ y.state \in {"CheckSetup", "DeviceId"}
  BY <1>1, <1>2 DEF TimerState, TimerStates
<1>4. Fits(u, meter)
  <2>1. Rests(updater, u) BY <1>1 DEF StateMove, Rests
  <2> QED BY <1>1, <2>1, RestsFits DEF StateMove, SInv
<1>5. SetUp(u, meter) => SetUp(y, meter)
  <2>1. CASE u.state = "Wait" /\ y.state = "Acquisition"
    BY <1>2, <2>1 DEF SetUp, StateMove, SameLife, SameDevice, SameRegisters, MeasureStates
  <2>2. CASE y.state \in {"CheckSetup", "DeviceId"} BY <2>2 DEF SetUp, MeasureStates
  <2> QED BY <1>3, <2>1, <2>2
<1>6. y.state \notin (IdentifyStates \ {"DeviceId"}) \cup {"WaitForStart", "Wait"}
  BY <1>3 DEF IdentifyStates
<1>7. meter' = meter BY DEF WaitFinished
<1> QED BY <1>2, <1>4, <1>5, <1>6, <1>7, MoveFits DEF Fits

LEMMA InitializedFits ==
    ASSUME IInv, RInv, SInv, SettingsInitialized
    PROVE  Fits(updater', meter') /\ updater'.fault # "assert"
<1> DEFINE y == [updater EXCEPT !.acquisitionIndex = 0, !.commandIndex = 0,
                                !.state = StartState(updater)]
<1>1. Ready(updater) BY InitializedHandled
<1>2. /\ Ready(y) /\ StateMove(updater, y) /\ y.state = StartState(updater)
      /\ \E overrun \in BOOLEAN : updater' = startNextAction(y, overrun)
  BY <1>1, StartMoves DEF SettingsInitialized
<1> HIDE DEF y
<1>3. y.state \in {"CheckSetup", "CheckMeasurementMode"} BY <1>2 DEF StartState
<1>4. SetUp(y, meter) BY <1>3 DEF SetUp, MeasureStates
<1>5. y.state \notin (IdentifyStates \ {"DeviceId"}) \cup {"WaitForStart", "Wait"}
  BY <1>3 DEF IdentifyStates
<1>6. meter' = meter BY DEF SettingsInitialized
<1> QED BY <1>2, <1>4, <1>5, <1>6, MoveFits DEF SInv

(* After a change of settings only the ET112 stays set up: its measurement *)
(* mode does not depend on them.                                           *)
LEMMA ChangeFits ==
    ASSUME IInv, RInv, SInv, SettingsChanged
    PROVE  Fits(updater', meter') /\ updater'.fault # "assert"
<1>1. KnownType(updater') BY ChangeKeeps DEF SInv, Fits, KnownType, SameDevice
<1>2. meter' = meter BY DEF SettingsChanged
<1>3. Identified(updater', meter') BY <1>2, ChangeKeeps DEF SInv, Fits, Identified, SameDevice
<1>4. SetUp(updater, meter) => SetUp(updater', meter')
  <2> SUFFICES ASSUME SetUp(updater, meter), updater'.protocol = "Et112"
               PROVE  SetUp(updater', meter')
    BY ChangeKeeps DEF SetUp
  <2>1. updater.protocol = "Et112" BY ChangeKeeps DEF SameDevice
  <2>2. updater.state \notin {"CheckFrontSelector", "SetApplication", "SetMeasuringSystem",
                              "CheckMeasurementSystem"}
    BY <2>1 DEF RInv, Placed, Em24SetupStates, Em300Family
  <2>3. updater.state \in MeasureStates => meter.mode = MeasurementModeB
    BY <2>1, ChangeKeeps DEF SetUp, Configured, Em300Family
  <2> QED BY <1>2, <2>2, <2>3, ChangeKeeps DEF SetUp, Configured, Em300Family
<1>5. updater'.state = "Wait" => updater'.settings # "none" BY ChangeKeeps
<1>6. updater'.fault # "assert" BY ChangeKeeps DEF SInv
<1> QED BY <1>1, <1>2, <1>3, <1>4, <1>5, <1>6 DEF SInv, Fits

(* The installer: nothing that has been read or written changes, unless    *)
(* the sensor is lost.                                                     *)
LEMMA InstallerFits ==
    ASSUME IInv, RInv, SInv, Installer
    PROVE  Fits(updater', meter') /\ updater'.fault # "assert"
<1>1. updater' = updater BY DEF Installer, FrontSelectorTurned, MeterExchanged
<1>2. CASE FrontSelectorTurned
  <2>1. /\ meter'.id = meter.id /\ meter'.application = meter.application
        /\ meter'.system = meter.system /\ meter'.mode = meter.mode
    BY <1>2 DEF FrontSelectorTurned, IInv, MeterModels
  <2>2. SetUp(updater, meter) => SetUp(updater', meter')
    BY <1>1, <2>1 DEF SetUp, Configured
  <2> QED BY <1>1, <2>1, <2>2 DEF SInv, Fits, Identified
<1>3. CASE MeterExchanged
  <2>1. updater.state = "WaitOnConnectionLost" /\ meter' \in Meters BY <1>3 DEF MeterExchanged
  <2>2. updater.settings = "none" BY <2>1 DEF IInv, Post, Sound
  <2>3. Identified(updater', meter') BY <1>1, <2>1, <2>2 DEF Identified, IdentifyStates
  <2>4. SetUp(updater', meter') BY <1>1, <2>2 DEF SetUp
  <2>5. PlausibleMeters => meter'.application # RegApplication BY <2>1 DEF PlausibleMeters
  <2> QED BY <1>1, <2>3, <2>4, <2>5 DEF SInv, Fits
<1> QED BY <1>2, <1>3 DEF Installer

(* No reply is late.                                                       *)
LEMMA NothingLate ==
    ASSUME StaleReplies = FALSE, SInv, [Next]_vars
    PROVE  late' = NoRequest
<1>1. CASE Answer
  <2>1. ~StaleReplyReceived BY DEF SInv, StaleReplyReceived, NoRequest
  <2>2. CASE TimedOut BY <2>2 DEF TimedOut
  <2>3. CASE ~TimedOut
    BY <1>1, <2>1, <2>3
       DEF SInv, Answer, Reply, BusError, ReadAnswered, ShortSerialAnswered, WriteAnswered,
           CrcErrorReceived, ReadRefused, ExceptionReceived
  <2> QED BY <2>2, <2>3
<1>2. CASE WaitFinished BY <1>2 DEF WaitFinished
<1>3. CASE SettingsChanged \/ SettingsInitialized \/ Installer \/ UNCHANGED vars
  BY <1>3 DEF SInv, SettingsChanged, SettingsInitialized, Installer, FrontSelectorTurned,
              MeterExchanged, vars
<1> QED BY <1>1, <1>2, <1>3 DEF Next

LEMMA StepFits ==
    ASSUME StaleReplies = FALSE, IInv, RInv, SInv, [Next]_vars
    PROVE  SInv'
<1>1. Fits(updater', meter') /\ updater'.fault # "assert"
  <2>1. CASE UNCHANGED vars BY <2>1 DEF SInv, vars
  <2> QED BY <2>1, AnswerFits, WaitFits, InitializedFits, ChangeFits, InstallerFits DEF Next
<1> QED BY <1>1, NothingLate DEF SInv

(* The constructor: nothing is known of the meter.                         *)
LEMMA BeginsFit ==
    ASSUME Init
    PROVE  SInv
<1>1. PICK garbage \in InitialProtocols :
         updater = startNextAction(
            [state |-> "DeviceId", deviceType |-> 0, protocol |-> garbage,
             settings |-> "none", connection |-> "Disconnected",
             pvConnection |-> "Disconnected", errorCode |-> 0,
             timeoutCount |-> 0, errorCount |-> 0, setupRequested |-> FALSE,
             application |-> 0, measuringSystem |-> 0, desiredMeasuringSystem |-> 0,
             table |-> "none", commandIndex |-> 0, acquisitionIndex |-> 0,
             request |-> NoRequest, timer |-> FALSE, fault |-> "none"], FALSE)
  BY DEF Init
<1> DEFINE u == [state |-> "DeviceId", deviceType |-> 0, protocol |-> garbage,
             settings |-> "none", connection |-> "Disconnected",
             pvConnection |-> "Disconnected", errorCode |-> 0,
             timeoutCount |-> 0, errorCount |-> 0, setupRequested |-> FALSE,
             application |-> 0, measuringSystem |-> 0, desiredMeasuringSystem |-> 0,
             table |-> "none", commandIndex |-> 0, acquisitionIndex |-> 0,
             request |-> NoRequest, timer |-> FALSE, fault |-> "none"]
<1>2. Ready(u) BY FirstReady
<1>3. u.state = "DeviceId" /\ u.settings = "none" /\ u.deviceType = 0 OBVIOUS
<1>4. updater = startNextAction(u, FALSE) BY <1>1
<1>5. PlausibleMeters => meter.application # RegApplication
  BY DEF Init, PlausibleMeters
<1> HIDE DEF u
<1>6. Fits(u, meter) /\ Calm(u)
  BY <1>3, <1>5 DEF Fits, KnownType, Identified, SetUp, Calm, IdentifyStates
<1>7. Fits(updater, meter) /\ updater.fault # "assert" BY <1>2, <1>4, <1>6, ActionFits
<1> QED BY <1>7 DEF Init, SInv

(* As long as no reply is taken for another, what the updater believes of  *)
(* the meter holds of it.                                                  *)
THEOREM SetupInvariant == ASSUME StaleReplies = FALSE PROVE Spec => []SInv
<1>1. Init => SInv BY BeginsFit
<1>2. IInv /\ RInv /\ SInv /\ [Next]_vars => SInv' BY StepFits
<1> QED BY <1>1, <1>2, Invariant, RequestInvariant, PTL DEF Spec

-----------------------------------------------------------------------------
(* The properties.                                                         *)
(* No assertion of the handlers fails, whatever the order of errors,       *)
(* changes of settings and meters: replies have the length and writes the  *)
(* register and value the state expects (ac_sensor_updater.cpp:384-548),   *)
(* and there are no settings when they are created (:733).                 *)
THEOREM NoAssertionFails == ASSUME StaleReplies = FALSE PROVE Spec => []AssertionsHold
<1>1. SInv => AssertionsHold BY DEF SInv, AssertionsHold
<1> QED BY <1>1, SetupInvariant, PTL

(* A sensor that is present has the protocol of the meter on the bus, also *)
(* after the meter has been exchanged (setDeviceType, ac_sensor.cpp:32).   *)
THEOREM MeterIdentified == ASSUME StaleReplies = FALSE PROVE Spec => []IdentifiedMeter
<1>1. SInv => IdentifiedMeter BY DEF SInv, Fits, Identified, KnownType, IdentifiedMeter
<1> QED BY <1>1, SetupInvariant, PTL

(* While it measures, the object has settings.                             *)
LEMMA MeasuresWithSettings ==
    ASSUME IInv, RInv, SInv, Running, updater.state \in MeasureStates
    PROVE  updater.settings # "none"
<1>1. CASE updater.state = "Wait" BY <1>1 DEF SInv, Fits
<1>2. CASE updater.state = "Acquisition"
  <2>1. ~updater.timer BY <1>2 DEF RInv, Requested, TimerStates
  <2>2. updater.request.op # "none" BY <1>2, <2>1 DEF IInv, Post, Busy, Running
  <2>3. Asked(updater) BY <2>2 DEF RInv, Requested
  <2> QED BY <1>2, <2>3 DEF Asked, AsksForCommand
<1> QED BY <1>1, <1>2 DEF MeasureStates

(* A meter is measured only with the configuration its settings call for:  *)
(* whatever timeouts, lost writes, changes of settings and exchanges came  *)
(* before, application, measurement mode and measuring system have been    *)
(* verified or written (the states CheckSetup to SetMeasurementMode).      *)
THEOREM MeasuredAsConfigured ==
    ASSUME StaleReplies = FALSE, PlausibleMeters PROVE Spec => []MeterConfigured
<1>1. IInv /\ RInv /\ SInv => MeterConfigured
  <2> SUFFICES ASSUME IInv, RInv, SInv, Running, updater.state \in MeasureStates,
                      ~updater.setupRequested
               PROVE  Configured(meter, updater.protocol, updater.settings)
    BY DEF MeterConfigured
  <2>1. updater.settings # "none" BY MeasuresWithSettings
  <2> QED BY <2>1 DEF SInv, Fits, SetUp
<1> QED BY <1>1, Invariant, RequestInvariant, SetupInvariant, PTL

(* The tables: each command asks for no more registers than the meter      *)
(* allows, and contains all of the values it is read for.                  *)
Contains(protocol, command) ==
    \A action \in command.actions :
        /\ action[1] + Width(protocol, action[2]) <= command.count
        /\ action[2] = "Frequency" /\ protocol # "Em540" => action[1] = 0
TableFits(protocol, limit, commands) ==
    \A k \in 1..Len(commands) :
        commands[k].count <= limit /\ Contains(protocol, commands[k])

LEMMA Em24Fits ==
    ASSUME NEW protocol \in {"Em24", "Em300S27"}
    PROVE  /\ TableFits(protocol, 12, Em24Commands)
           /\ TableFits(protocol, 12, Em24CommandsP1)
           /\ TableFits(protocol, 12, Em24CommandsP1PV)
<1>1. TableFits(protocol, 12, Em24Commands)
  BY DEF TableFits, Contains, Width, Em24Commands, Command, On, Total, L12, L123
<1>2. TableFits(protocol, 12, Em24CommandsP1)
  BY DEF TableFits, Contains, Width, Em24CommandsP1, Command, On, Total, L12, L123
<1>3. TableFits(protocol, 12, Em24CommandsP1PV)
  BY DEF TableFits, Contains, Width, Em24CommandsP1PV, Command, On, Total, L12, L123
<1> QED BY <1>1, <1>2, <1>3

LEMMA Em112Fits == TableFits("Et112", 20, Em112Commands)
BY DEF TableFits, Contains, Width, Em112Commands, Command, On, Total, L12, L123

LEMMA Et340Fits ==
    /\ TableFits("Et340", 20, Et340Commands)
    /\ TableFits("Et340", 20, Et340P1Commands)
    /\ TableFits("Et340", 20, Et340CommandsP1PV)
<1>1. TableFits("Et340", 20, Et340Commands)
  BY DEF TableFits, Contains, Width, Et340Commands, Command, On, Total, L12, L123
<1>2. TableFits("Et340", 20, Et340P1Commands)
  BY DEF TableFits, Contains, Width, Et340P1Commands, Command, On, Total, L12, L123
<1>3. TableFits("Et340", 20, Et340CommandsP1PV)
  BY DEF TableFits, Contains, Width, Et340CommandsP1PV, Command, On, Total, L12, L123
<1> QED BY <1>1, <1>2, <1>3

LEMMA Em300Fits ==
    /\ TableFits("Em300", 20, Em300Commands)
    /\ TableFits("Em300", 20, Em300P1Commands)
    /\ TableFits("Em300", 20, Em300CommandsP1PV)
    /\ TableFits("Em300S27", 20, Em300S27P1Commands)
<1>1. TableFits("Em300", 20, Em300Commands)
  BY DEF TableFits, Contains, Width, Em300Commands, Command, On, Total, L12, L123
<1>2. TableFits("Em300", 20, Em300P1Commands)
  BY DEF TableFits, Contains, Width, Em300P1Commands, Command, On, Total, L12, L123
<1>3. TableFits("Em300", 20, Em300CommandsP1PV)
  BY DEF TableFits, Contains, Width, Em300CommandsP1PV, Command, On, Total, L12, L123
<1>4. TableFits("Em300S27", 20, Em300S27P1Commands)
  BY DEF TableFits, Contains, Width, Em300S27P1Commands, Command, On, Total, L12, L123
<1> QED BY <1>1, <1>2, <1>3, <1>4

LEMMA Em540Fits ==
    /\ TableFits("Em540", 20, Em540Commands)
    /\ TableFits("Em540", 20, Em540P1Commands)
    /\ TableFits("Em540", 20, Em540CommandsP1PV)
<1>1. TableFits("Em540", 20, Em540Commands)
  BY DEF TableFits, Contains, Width, Em540Commands, Command, On, Total, L12, L123
<1>2. TableFits("Em540", 20, Em540P1Commands)
  BY DEF TableFits, Contains, Width, Em540P1Commands, Command, On, Total, L12, L123
<1>3. TableFits("Em540", 20, Em540CommandsP1PV)
  BY DEF TableFits, Contains, Width, Em540CommandsP1PV, Command, On, Total, L12, L123
<1> QED BY <1>1, <1>2, <1>3

(* The table that is selected for a protocol and a mode.                   *)
LEMMA SelectedFits ==
    ASSUME NEW protocol \in Protocols \ {"Unknown"}, NEW mode \in Modes
    PROVE  TableFits(protocol, IF protocol = "Em24" THEN 12 ELSE 20,
                     Tables[TableOf(protocol, mode)])
<1> DEFINE commands == Tables[TableOf(protocol, mode)]
<1>0. /\ \A k \in 1..Len(commands) : commands[k].count \in Nat
      /\ TableFits(protocol, 12, commands) => TableFits(protocol, 20, commands)
  <2>1. Readable(commands) BY TableSelected, TablesReadable
  <2> HIDE DEF commands
  <2> QED BY <2>1 DEF TableFits, Readable
<1>1. CASE protocol \in {"Em24", "Em300S27"} /\ mode \in {"multi", "piggy"}
  <2>1. commands \in {Em24Commands, Em24CommandsP1PV} BY <1>1 DEF TableOf, Tables
  <2> HIDE DEF commands
  <2>2. TableFits(protocol, 12, commands) BY <1>1, <2>1, Em24Fits
  <2> QED BY <1>0, <2>2 DEF commands
<1>2. CASE protocol = "Em24" /\ mode = "single"
  <2>1. commands = Em24CommandsP1 BY <1>2 DEF TableOf, Tables
  <2> QED BY <1>2, <2>1, Em24Fits
<1>3. CASE protocol = "Em300S27" /\ mode = "single"
  <2>1. commands = Em300S27P1Commands BY <1>3 DEF TableOf, Tables
  <2> QED BY <1>3, <2>1, Em300Fits
<1>4. CASE protocol = "Et112"
  <2>1. commands = Em112Commands BY <1>4 DEF TableOf, Tables
  <2> QED BY <1>4, <2>1, Em112Fits
<1>5. CASE protocol = "Et340"
  <2>1. commands \in {Et340Commands, Et340P1Commands, Et340CommandsP1PV}
    BY <1>5 DEF TableOf, Tables, Modes
  <2> HIDE DEF commands
  <2>2. TableFits(protocol, 20, commands) BY <1>5, <2>1, Et340Fits
  <2> QED BY <1>5, <2>2 DEF commands
<1>6. CASE protocol = "Em300"
  <2>1. commands \in {Em300Commands, Em300P1Commands, Em300CommandsP1PV}
    BY <1>6 DEF TableOf, Tables, Modes
  <2> HIDE DEF commands
  <2>2. TableFits(protocol, 20, commands) BY <1>6, <2>1, Em300Fits
  <2> QED BY <1>6, <2>2 DEF commands
<1>7. CASE protocol = "Em540"
  <2>1. commands \in {Em540Commands, Em540P1Commands, Em540CommandsP1PV}
    BY <1>7 DEF TableOf, Tables, Modes
  <2> HIDE DEF commands
  <2>2. TableFits(protocol, 20, commands) BY <1>7, <2>1, Em540Fits
  <2> QED BY <1>7, <2>2 DEF commands
<1> QED BY <1>1, <1>2, <1>3, <1>4, <1>5, <1>6, <1>7 DEF Protocols, Modes

(* "EM24 doesn't want us to fetch more than 12 registers at a time.  The   *)
(* others allow max 20" (ac_sensor_updater.cpp:68): no meter is asked for  *)
(* more, because the table is that of the meter on the bus, and every      *)
(* value is found within the reply (processAcquisitionData).               *)
THEOREM CommandsAreReadable == ASSUME StaleReplies = FALSE PROVE Spec => []CommandsReadable
<1>1. IInv /\ RInv /\ SInv => CommandsReadable
  <2> SUFFICES ASSUME IInv, RInv, SInv, updater.state = "Acquisition", updater.request.op # "none"
               PROVE  LET command == CommandAt(updater.table, updater.commandIndex)
                      IN  /\ command.count <= IF ProtocolOf(meter.id) = "Em24" THEN 12 ELSE 20
                          /\ Contains(updater.protocol, command)
    BY DEF CommandsReadable, Running, Asks, Contains
  <2>1. AsksForCommand(updater) BY DEF RInv, Requested, Asked
  <2>2. PICK mode \in Modes : updater.table = TableOf(updater.protocol, mode)
    BY <2>1 DEF AsksForCommand
  <2>3. updater.protocol \in Protocols \ {"Unknown"}
    BY <2>1 DEF AsksForCommand, IInv, Post, Sound, KnownProtocol
  <2> DEFINE limit == IF updater.protocol = "Em24" THEN 12 ELSE 20
             commands == Tables[updater.table]
             k == updater.commandIndex + 1
  <2>4. TableFits(updater.protocol, limit, commands) BY <2>2, <2>3, SelectedFits
  <2>5. k \in 1..Len(commands)
    <3>1. updater.table \in TableNames BY <2>1, AskedTable
    <3>2. Len(commands) \in Nat BY <3>1, TablesReadable DEF Readable
    <3>3. updater.commandIndex \in Nat BY DEF IInv, Post, Sound, Updaters
    <3>4. updater.commandIndex \in updater.commandIndex .. Len(commands) - 1
      BY <2>1 DEF AsksForCommand, DueNow, DueCommands
    <3> QED BY <3>2, <3>3, <3>4
  <2>6. commands[k].count \in Nat
    <3>1. updater.table \in TableNames BY <2>1, AskedTable
    <3> QED BY <2>5, <3>1, TablesReadable DEF Readable
  <2>7. ProtocolOf(meter.id) = "Em24" => updater.protocol = "Em24"
    <3>1. updater.deviceType = meter.id BY <2>1 DEF AsksForCommand, SInv, Fits, Identified
    <3>2. ProtocolOf(meter.id) = "Em24" => meter.id # 0 BY DEF ProtocolOf
    <3> QED BY <3>1, <3>2 DEF SInv, Fits, KnownType
  <2>8. CommandAt(updater.table, updater.commandIndex) = commands[k] BY DEF CommandAt
  <2> HIDE DEF commands, k
  <2> QED BY <2>4, <2>5, <2>6, <2>7, <2>8 DEF TableFits
<1> QED BY <1>1, Invariant, RequestInvariant, SetupInvariant, PTL

-----------------------------------------------------------------------------
(* The sweeps (AcquisitionSweep).                                          *)
(* The commands that a sweep which has come to command i of a round has    *)
(* read: those of the rounds before, and those of this round before i.     *)
Covered(table, round, i) ==
    {k \in 0 .. Len(Tables[table]) - 1 :
        \/ CommandAt(table, k).interval < round
        \/ k < i /\ CommandAt(table, k).interval \in {0, round}}

(* All of them.                                                            *)
AllOf(table) == 0 .. Len(Tables[table]) - 1

(* The last command of a table has the longest interval, and it has one.   *)
(* None of them reads a serial number.                                     *)
SerialRegisters == {RegEm24Serial, RegEm112Serial}
Rounds(commands) ==
    LET last == commands[Len(commands)].interval
    IN  /\ last > 0
        /\ \A k \in 1..Len(commands) :
              commands[k].interval \in 0..last /\ commands[k].reg \notin SerialRegisters

LEMMA Em24Rounds ==
    Rounds(Em24Commands) /\ Rounds(Em24CommandsP1) /\ Rounds(Em24CommandsP1PV)
BY DEF Rounds, SerialRegisters, RegEm24Serial, RegEm112Serial, Em24Commands, Em24CommandsP1, Em24CommandsP1PV, Command

LEMMA Et340Rounds ==
    Rounds(Em112Commands) /\ Rounds(Et340Commands) /\ Rounds(Et340P1Commands)
        /\ Rounds(Et340CommandsP1PV)
BY DEF Rounds, SerialRegisters, RegEm24Serial, RegEm112Serial, Em112Commands, Et340Commands, Et340P1Commands, Et340CommandsP1PV, Command

LEMMA Em300Rounds ==
    Rounds(Em300Commands) /\ Rounds(Em300P1Commands) /\ Rounds(Em300CommandsP1PV)
        /\ Rounds(Em300S27P1Commands)
BY DEF Rounds, SerialRegisters, RegEm24Serial, RegEm112Serial, Em300Commands, Em300P1Commands, Em300CommandsP1PV, Em300S27P1Commands, Command

LEMMA Em540Rounds ==
    Rounds(Em540Commands) /\ Rounds(Em540P1Commands) /\ Rounds(Em540CommandsP1PV)
<1>1. Rounds(Em540Commands) BY DEF Rounds, SerialRegisters, RegEm24Serial, RegEm112Serial, Em540Commands, Command
<1>2. Rounds(Em540P1Commands) BY DEF Rounds, SerialRegisters, RegEm24Serial, RegEm112Serial, Em540P1Commands, Command
<1>3. Rounds(Em540CommandsP1PV) BY DEF Rounds, SerialRegisters, RegEm24Serial, RegEm112Serial, Em540CommandsP1PV, Command
<1> QED BY <1>1, <1>2, <1>3

LEMMA TablesRounds == \A table \in TableNames : Rounds(Tables[table])
BY Em24Rounds, Et340Rounds, Em300Rounds, Em540Rounds DEF Tables, TableNames

(* The interval of a command of a table.                                   *)
LEMMA IntervalWithin ==
    ASSUME NEW table \in TableNames
    PROVE  /\ MaxInterval(table) \in Nat \ {0}
           /\ \A k \in AllOf(table) :
                 /\ k \in 0..7
                 /\ CommandAt(table, k).interval \in 0..MaxInterval(table)
                 /\ CommandAt(table, k).reg \notin SerialRegisters
<1> DEFINE commands == Tables[table]
           n == Len(commands)
<1>1. Rounds(commands) /\ n \in 1..8 BY TablesRounds, TablesReadable DEF Readable
<1>2. MaxInterval(table) = commands[n].interval BY DEF MaxInterval
<1>3. \A k : CommandAt(table, k) = commands[k + 1] BY DEF CommandAt
<1>4. AllOf(table) = 0 .. n - 1 BY DEF AllOf
<1> HIDE DEF commands
<1>5. n \in 1..n BY <1>1
<1>6. commands[n].interval \in Nat \ {0} BY <1>1, <1>5 DEF Rounds
<1>7. ASSUME NEW k \in 0 .. n - 1
      PROVE  /\ k \in 0..7 /\ commands[k + 1].interval \in 0 .. commands[n].interval
             /\ commands[k + 1].reg \notin SerialRegisters
  <2> HIDE DEF n
  <2>1. k \in 0..7 /\ k + 1 \in 1..n BY <1>1
  <2> QED BY <1>1, <2>1 DEF Rounds, n
<1> QED BY <1>2, <1>3, <1>4, <1>6, <1>7

(* Before the first command nothing is covered.                            *)
LEMMA CoveredNothing ==
    ASSUME NEW table \in TableNames
    PROVE  Covered(table, 0, 0) = {}
BY IntervalWithin DEF Covered, AllOf

(* A reading adds its command.                                             *)
LEMMA CoveredByReading ==
    ASSUME NEW table \in TableNames, NEW round \in Nat, NEW i \in AllOf(table),
           CommandAt(table, i).interval \in {0, round}
    PROVE  Covered(table, round, i + 1) = Covered(table, round, i) \cup {i}
<1>1. \A k \in AllOf(table) : k \in Nat /\ (k < i + 1 <=> k < i \/ k = i)
  BY IntervalWithin
<1> QED BY <1>1 DEF Covered, AllOf

(* Skipping what is not due in this round adds none.                       *)
LEMMA CoveredBySkipping ==
    ASSUME NEW u, u.table \in TableNames, u.commandIndex \in Nat, DueNow(u) # {}
    PROVE  Covered(u.table, u.acquisitionIndex, Min(DueNow(u)))
               = Covered(u.table, u.acquisitionIndex, u.commandIndex)
<1> DEFINE next == Min(DueNow(u))
           i == u.commandIndex
           round == u.acquisitionIndex
<1>1. DueNow(u) \in SUBSET (0..7) BY DueCommandReadable
<1>2. next \in DueNow(u) /\ \A k \in DueNow(u) : next <= k BY <1>1, SmallestCommand
<1>3. next \in Nat /\ i <= next BY <1>1, <1>2 DEF DueNow, DueCommands
<1> HIDE DEF next
<1>4. ASSUME NEW k \in AllOf(u.table), CommandAt(u.table, k).interval \in {0, round}
      PROVE  k < next <=> k < i
  <2>1. k \in Nat BY IntervalWithin
  <2>2. CASE k < i BY <1>3, <2>1, <2>2
  <2>3. CASE ~(k < i)
    <3>1. k \in DueNow(u) BY <1>4, <2>1, <2>3 DEF DueNow, DueCommands, AllOf
    <3> QED BY <1>2, <1>3, <2>1, <2>3, <3>1
  <2> QED BY <2>2, <2>3
<1>5. Covered(u.table, round, next) = Covered(u.table, round, i)
  BY <1>4 DEF Covered, AllOf
<1> QED BY <1>5 DEF next

(* A round that has no more due commands has read all of its commands.     *)
LEMMA CoveredByRound ==
    ASSUME NEW u, u.table \in TableNames, u.commandIndex \in Nat, u.acquisitionIndex \in Nat,
           DueNow(u) = {}
    PROVE  Covered(u.table, u.acquisitionIndex, u.commandIndex)
               = Covered(u.table, u.acquisitionIndex + 1, 0)
<1> DEFINE i == u.commandIndex
           round == u.acquisitionIndex
<1>1. ASSUME NEW k \in AllOf(u.table)
      PROVE  LET interval == CommandAt(u.table, k).interval
             IN  interval < round \/ (k < i /\ interval \in {0, round})
                 <=> interval < round + 1 \/ (k < 0 /\ interval \in {0, round + 1})
  <2> DEFINE interval == CommandAt(u.table, k).interval
  <2>1. k \in Nat /\ interval \in Nat BY IntervalWithin
  <2>2. k < i \/ interval \notin {0, round}
    BY <2>1 DEF DueNow, DueCommands, AllOf
  <2> HIDE DEF interval
  <2>3. interval < round \/ (k < i /\ interval \in {0, round})
            <=> interval < round + 1 \/ (k < 0 /\ interval \in {0, round + 1})
    BY <2>1, <2>2
  <2> QED BY <2>3 DEF interval
<1> QED BY <1>1 DEF Covered, AllOf

(* After the last round the whole table has been read.                     *)
LEMMA CoveredByAll ==
    ASSUME NEW table \in TableNames, NEW round \in Nat, round > MaxInterval(table)
    PROVE  Covered(table, round, 0) = AllOf(table)
<1>1. \A k \in AllOf(table) : CommandAt(table, k).interval < round BY IntervalWithin
<1> QED BY <1>1 DEF Covered, AllOf

(* What an action does to the sweep: it stays where it is, skipping what   *)
(* is not due, or ends it when all of the table has been read.             *)
Stays(table, u, v) ==
    /\ Covered(table, v.acquisitionIndex, v.commandIndex)
           = Covered(table, u.acquisitionIndex, u.commandIndex)
    /\ v.acquisitionIndex = 0 => u.acquisitionIndex = 0
Completes(table, u, v) ==
    /\ v.acquisitionIndex = 0 /\ u.acquisitionIndex # 0 /\ u.commandIndex # 0
    /\ Covered(table, u.acquisitionIndex, u.commandIndex) = AllOf(table)
    /\ Covered(table, v.acquisitionIndex, v.commandIndex) = {}
Advance(u, v) ==
    LET table == TableOf(u.protocol, u.settings)
    IN  Stays(table, u, v) \/ Completes(table, u, v)

(* Nothing but the two indices matters.                                    *)
LEMMA SameIndexStays ==
    ASSUME NEW table, NEW u, NEW v,
           v.acquisitionIndex = u.acquisitionIndex, v.commandIndex = u.commandIndex
    PROVE  Stays(table, u, v)
BY DEF Stays

LEMMA NextStays ==
    ASSUME NEW u, Ready(u), u.table \in TableNames, DueNow(u) # {}
    PROVE  /\ Stays(u.table, u, readNextCommand(u))
           /\ readNextCommand(u).acquisitionIndex = u.acquisitionIndex
<1> DEFINE next == Min(DueNow(u))
           request == Read(CommandAt(u.table, next).reg, CommandAt(u.table, next).count)
           v == readNextCommand(u)
<1>1. u.commandIndex \in Nat /\ u \in Updaters BY DEF Ready, Sound, Updaters
<1>2. v = [u EXCEPT !.commandIndex = next, !.request = request]
  BY DEF readNextCommand, readRegisters, Read
<1>3. Covered(u.table, u.acquisitionIndex, next)
          = Covered(u.table, u.acquisitionIndex, u.commandIndex)
  BY <1>1, CoveredBySkipping
<1> HIDE DEF next, request
<1>4. v.acquisitionIndex = u.acquisitionIndex /\ v.commandIndex = next
  BY <1>1, <1>2 DEF Updaters
<1> HIDE DEF v
<1> QED BY <1>3, <1>4 DEF Stays, v

(* The next round begins with its first due command, or with the timer.    *)
LEMMA WaitStays ==
    ASSUME NEW u, Ready(u), u.state = "Wait", u.settings # "none", NEW overrun
    PROVE  /\ Stays(TableOf(u.protocol, u.settings), u, waitForNextRound(u, overrun))
           /\ waitForNextRound(u, overrun).acquisitionIndex = u.acquisitionIndex
<1> DEFINE v == waitForNextRound(u, overrun)
           table == TableOf(u.protocol, u.settings)
<1>0. u \in Updaters BY DEF Ready, Sound
<1>1. CASE ~(SupportFastloop(u.protocol) \/ overrun)
  <2>1. v = startTimer(u) BY <1>1 DEF waitForNextRound
  <2>2. v.acquisitionIndex = u.acquisitionIndex /\ v.commandIndex = u.commandIndex
    BY <1>0, <2>1 DEF startTimer, Updaters
  <2> QED BY <2>2, SameIndexStays
<1>2. CASE SupportFastloop(u.protocol) \/ overrun
  <2> DEFINE x == [u EXCEPT !.state = "Acquisition"]
             w == selectCommands(x)
  <2>1. v = readNextCommand(w) BY <1>2 DEF waitForNextRound, WithSettings
  <2>2. /\ Ready(x) /\ x.state = "Acquisition" /\ x.settings = u.settings
        /\ x.protocol = u.protocol
        /\ x.acquisitionIndex = u.acquisitionIndex /\ x.commandIndex = u.commandIndex
    <3>1. Sound(x) /\ Free(x) /\ x.fault = "none"
      BY DEF Ready, Sound, Free, Updaters, KnownProtocol, States, MeasureStates, IdentifyStates
    <3>2. /\ x.state = "Acquisition" /\ x.settings = u.settings /\ x.protocol = u.protocol
          /\ x.acquisitionIndex = u.acquisitionIndex /\ x.commandIndex = u.commandIndex
          /\ x.connection = u.connection /\ x.pvConnection = u.pvConnection
      BY <1>0 DEF Updaters
    <3> HIDE DEF x
    <3>3. Placed(x)
      BY <3>2 DEF Ready, Placed, Em24SetupStates, ModeStates, IdentifyStates
    <3> QED BY <3>1, <3>2, <3>3 DEF Ready
  <2> HIDE DEF x
  <2>3. /\ Ready(w) /\ w.commandIndex = x.commandIndex /\ w.table = table
        /\ w.acquisitionIndex = x.acquisitionIndex
    <3>1. /\ Ready(w) /\ Carries(x, w) /\ w.commandIndex = x.commandIndex
          /\ w.table = TableOf(w.protocol, w.settings)
          /\ w.acquisitionIndex = x.acquisitionIndex
      BY <2>2, SelectionCarries DEF MeasureStates
    <3> QED BY <2>2, <3>1 DEF Carries, SameDevice, Measures
  <2> HIDE DEF w
  <2>4. table \in TableNames
    BY TableSelected DEF Ready, Sound, Updaters, KnownProtocol
  <2>5. w.commandIndex = 0 BY <2>2, <2>3 DEF Ready, Sound
  <2>6. DueNow(w) # {} BY <2>3, <2>4, <2>5, FirstCommandDue
  <2>7. Stays(table, w, v) /\ v.acquisitionIndex = w.acquisitionIndex
    BY <2>1, <2>3, <2>4, <2>6, NextStays
  <2>8. Stays(table, u, v) BY <2>2, <2>3, <2>7 DEF Stays
  <2> QED BY <2>2, <2>3, <2>7, <2>8
<1> QED BY <1>1, <1>2

(* A round ends, the sweep with it if it is the last.                      *)
LEMMA RoundAdvances ==
    ASSUME NEW u, Ready(u), u.table \in TableNames, DueNow(u) = {}
    PROVE  Stays(u.table, u, endRound(u)) \/ Completes(u.table, u, endRound(u))
<1> DEFINE v == endRound(u)
           i == u.commandIndex
           round == u.acquisitionIndex
<1>1. i \in Nat /\ round \in Nat /\ u \in Updaters BY DEF Ready, Sound, Updaters
<1>2. Covered(u.table, round, i) = Covered(u.table, round + 1, 0) BY <1>1, CoveredByRound
<1>3. MaxInterval(u.table) \in Nat \ {0} BY IntervalWithin
<1>4. /\ v.commandIndex = 0
      /\ v.acquisitionIndex = IF round + 1 > MaxInterval(u.table) THEN 0 ELSE round + 1
  BY <1>1 DEF endRound, Updaters
<1> HIDE DEF v
<1>5. CASE round + 1 > MaxInterval(u.table)
  <2>1. Covered(u.table, round + 1, 0) = AllOf(u.table) BY <1>1, <1>5, CoveredByAll
  <2>2. Covered(u.table, 0, 0) = {} BY CoveredNothing
  <2>3. round # 0 BY <1>1, <1>3, <1>5
  <2>4. i # 0 BY FirstCommandDue
  <2> QED BY <1>2, <1>4, <1>5, <2>1, <2>2, <2>3, <2>4 DEF Completes, v
<1>6. CASE ~(round + 1 > MaxInterval(u.table))
  <2>1. round + 1 # 0 BY <1>1
  <2> QED BY <1>2, <1>4, <1>6, <2>1 DEF Stays, v
<1> QED BY <1>5, <1>6

(* State Acquisition of startNextAction.                                   *)
LEMMA AcquisitionAdvances ==
    ASSUME NEW u, Ready(u), u.state = "Acquisition", u.settings # "none", NEW overrun
    PROVE  Advance(u, actInState(u, overrun))
<1> DEFINE w == selectCommands(u)
           v == actInState(u, overrun)
           table == TableOf(u.protocol, u.settings)
<1>1. v = startNextAcquisition(w, overrun) BY DEF actInState, WithSettings
<1>2. /\ Ready(w) /\ w.commandIndex = u.commandIndex /\ w.table = table
      /\ w.acquisitionIndex = u.acquisitionIndex /\ w.state = "Acquisition"
      /\ w.settings = u.settings /\ w.protocol = u.protocol
  <2>1. /\ Ready(w) /\ Carries(u, w) /\ w.commandIndex = u.commandIndex
        /\ w.table = TableOf(w.protocol, w.settings) /\ w.state = "Acquisition"
        /\ w.acquisitionIndex = u.acquisitionIndex
    BY SelectionCarries DEF MeasureStates
  <2> QED BY <2>1 DEF Carries, SameDevice, Measures
<1>3. table \in TableNames BY TableSelected DEF Ready, Sound, Updaters, KnownProtocol
<1> HIDE DEF w, v
<1>4. CASE DueNow(w) # {}
  <2>1. v = readNextCommand(w) BY <1>1, <1>4 DEF startNextAcquisition
  <2>2. Stays(table, w, v) BY <1>2, <1>3, <1>4, <2>1, NextStays
  <2>3. Stays(table, u, v) BY <1>2, <2>2 DEF Stays
  <2> QED BY <2>3 DEF Advance, v
<1>5. CASE DueNow(w) = {}
  <2> DEFINE x == endRound(w)
  <2>1. v = waitForNextRound(x, overrun) BY <1>1, <1>5 DEF startNextAcquisition
  <2>2. Stays(table, w, x) \/ Completes(table, w, x) BY <1>2, <1>3, <1>5, RoundAdvances
  <2>3. Ready(x) /\ x.state = "Wait" /\ Carries(w, x) BY <1>2, RoundCarries
  <2> HIDE DEF x
  <2>4. x.settings = u.settings /\ x.protocol = u.protocol
    BY <1>2, <2>3 DEF Carries, SameDevice, Measures
  <2>5. Stays(table, x, v) /\ v.acquisitionIndex = x.acquisitionIndex
    BY <2>1, <2>3, <2>4, WaitStays
  <2>6. Stays(table, u, v) \/ Completes(table, u, v)
    BY <1>2, <2>2, <2>5 DEF Stays, Completes
  <2> QED BY <2>6 DEF Advance, v
<1> QED BY <1>4, <1>5

(* Every other state leaves the sweep alone.                               *)
LEMMA OtherStatesStay ==
    ASSUME NEW z, Ready(z), z.state \notin MeasureStates \/ z.settings = "none", NEW overrun
    PROVE  LET v == actInState(z, overrun)
           IN  v.acquisitionIndex = z.acquisitionIndex /\ v.commandIndex = z.commandIndex
<1> DEFINE v == actInState(z, overrun)
           Same(x) == x.acquisitionIndex = z.acquisitionIndex /\ x.commandIndex = z.commandIndex
<1>0. z \in Updaters BY DEF Ready, Sound
<1>1. CASE z.state \in SingleRequestStates \ {"DeviceId"}
  <2>1. v = [z EXCEPT !.request = StateRequest(z)] BY <1>1, SingleRequest
  <2> QED BY <1>0, <2>1 DEF Updaters
<1>2. CASE z.state = "DeviceId"
  <2>1. v = readRegisters([z EXCEPT !.connection = "Searched"], RegDeviceId, 1)
    BY <1>2 DEF actInState
  <2>2. v = [z EXCEPT !.connection = "Searched",
                      !.request = [op |-> "read", reg |-> RegDeviceId, arg |-> 1]]
    BY <1>0, <2>1 DEF readRegisters, Updaters
  <2> HIDE DEF v
  <2>3. Same(v) BY <1>0, <2>2 DEF Updaters
  <2> QED BY <2>3 DEF v
<1>3. CASE z.state \in {"WaitFrontSelector", "WaitOnConnectionLost"}
  <2>1. v = startTimer(z) BY <1>3 DEF actInState
  <2> QED BY <1>0, <2>1 DEF startTimer, Updaters
<1>4. CASE z.state = "SetMeasurementMode"
  <2> DEFINE w == writeRegister(z, RegEm112MeasurementMode, DesiredMode(z.protocol, z.settings))
             x == writeRegister(z, RegEm112MeasurementMode, MeasurementModeB)
             f == [z EXCEPT !.fault = "nullSettings"]
  <2>1. v \in {w, x, f} BY <1>4 DEF actInState, WithSettings
  <2>2. Same(w) BY <1>0 DEF writeRegister, Updaters
  <2>3. Same(x) BY <1>0 DEF writeRegister, Updaters
  <2>4. Same(f) BY <1>0 DEF Updaters
  <2> HIDE DEF v, w, x, f, Same
  <2>5. Same(v) BY <2>1, <2>2, <2>3, <2>4
  <2> QED BY <2>5 DEF Same, v
<1>5. CASE z.state = "WaitForStart"
  <2>1. v = createSettings(z) BY <1>5 DEF actInState
  <2> QED BY <1>0, <2>1 DEF createSettings, Asserting, Updaters
<1>6. CASE z.state \in MeasureStates /\ z.settings = "none"
  <2> DEFINE f == [z EXCEPT !.fault = "nullSettings"]
             t == startTimer(z)
  <2>1. v \in {f, t}
    BY <1>6 DEF actInState, waitForNextRound, WithSettings, MeasureStates
  <2>2. Same(f) BY <1>0 DEF Updaters
  <2>3. Same(t) BY <1>0 DEF startTimer, Updaters
  <2> HIDE DEF v, f, t, Same
  <2>4. Same(v) BY <2>1, <2>2, <2>3
  <2> QED BY <2>4 DEF Same, v
<1> QED BY <1>0, <1>1, <1>2, <1>3, <1>4, <1>5, <1>6
        DEF Updaters, States, SetupStates, MeasureStates, SingleRequestStates, IdentifyStates

(* startNextAction: what it makes of the sweep of the object z that the    *)
(* action starts from.  A sweep ends only while measuring.                 *)
LEMMA ActionAdvances ==
    ASSUME NEW z, Ready(z), NEW overrun
    PROVE  LET v == actInState(z, overrun)
           IN  \/ /\ z.state \in MeasureStates /\ z.settings # "none"
                  /\ Advance(z, v)
               \/ /\ z.state \notin MeasureStates \/ z.settings = "none"
                  /\ v.acquisitionIndex = z.acquisitionIndex /\ v.commandIndex = z.commandIndex
<1>1. CASE z.state = "Acquisition" /\ z.settings # "none"
  BY <1>1, AcquisitionAdvances DEF MeasureStates
<1>2. CASE z.state = "Wait" /\ z.settings # "none"
  <2>1. actInState(z, overrun) = waitForNextRound(z, overrun) BY <1>2 DEF actInState
  <2>2. Advance(z, actInState(z, overrun)) BY <1>2, <2>1, WaitStays DEF Advance
  <2> QED BY <1>2, <2>2 DEF MeasureStates
<1>3. CASE z.state \notin MeasureStates \/ z.settings = "none"
  BY <1>3, OtherStatesStay
<1> QED BY <1>1, <1>2, <1>3 DEF MeasureStates

(* Dealing with a requested setup leaves the sweep alone.                  *)
LEMMA SetupStays ==
    ASSUME NEW u, Ready(u)
    PROVE  /\ SetupDone(u).acquisitionIndex = u.acquisitionIndex
           /\ SetupDone(u).commandIndex = u.commandIndex
           /\ \A overrun : startNextAction(u, overrun) = actInState(SetupDone(u), overrun)
<1>1. u \in Updaters BY DEF Ready, Sound
<1>2. \A overrun : startNextAction(u, overrun) = actInState(SetupDone(u), overrun)
  BY DEF startNextAction, SetupDone
<1>3. CASE u.setupRequested
  <2> DEFINE state == SetupState(u)
  <2>1. SetupDone(u) = [u EXCEPT !.setupRequested = FALSE, !.state = state]
    BY <1>3 DEF SetupDone
  <2> HIDE DEF state
  <2> QED BY <1>1, <1>2, <2>1 DEF Updaters
<1>4. CASE ~u.setupRequested BY <1>2, <1>4 DEF SetupDone
<1> QED BY <1>3, <1>4

-----------------------------------------------------------------------------
(* The handlers: where in the sweep they leave the object.                 *)
SameIndex(u, v) ==
    v.acquisitionIndex = u.acquisitionIndex /\ v.commandIndex = u.commandIndex

(* disconnectSensor, countFailure, WithoutReverse and the reset of the     *)
(* counters leave it where it was.                                         *)
LEMMA CountersKeepIndex ==
    ASSUME NEW u, Ready(u), NEW error
    PROVE  /\ SameIndex(u, CountersZero(u)) /\ SameIndex(u, disconnectSensor(u))
           /\ SameIndex(u, countFailure(u, error)) /\ SameIndex(u, WithoutReverse(u))
<1>0. u \in Updaters BY DEF Ready, Sound
<1>1. SameIndex(u, CountersZero(u)) BY <1>0 DEF SameIndex, CountersZero, Updaters
<1>2. SameIndex(u, disconnectSensor(u)) BY <1>0 DEF SameIndex, disconnectSensor, Updaters
<1>3. SameIndex(u, countFailure(u, error)) BY <1>0 DEF SameIndex, countFailure, Updaters
<1>4. SameIndex(u, WithoutReverse(u)) BY <1>0 DEF SameIndex, WithoutReverse, Updaters
<1> QED BY <1>1, <1>2, <1>3, <1>4

(* A reply to a read counts as one command, when it measures.              *)
LEMMA ReadKeepsIndex ==
    ASSUME NEW u, Answerable(u), NEW registers
    PROVE  LET v == acceptRead(u, registers)
           IN  \/ SameIndex(u, v) /\ (v.fault # "none" \/ u.state # "Acquisition")
               \/ /\ u.state = "Acquisition"
                  /\ v.acquisitionIndex = u.acquisitionIndex
                  /\ v.commandIndex = u.commandIndex + 1
<1> DEFINE v == acceptRead(u, registers)
           fault == [u EXCEPT !.fault = "nullSettings"]
           assert == [u EXCEPT !.fault = "assert"]
<1>0. u \in Updaters BY DEF Answerable, Ready, Sound
<1>a. /\ SameIndex(u, fault) /\ fault.fault = "nullSettings"
      /\ SameIndex(u, assert) /\ assert.fault = "assert"
  BY <1>0 DEF SameIndex, Updaters
<1>b. ASSUME NEW state PROVE SameIndex(u, [u EXCEPT !.state = state])
  BY <1>0 DEF SameIndex, Updaters
<1>1. CASE u.state = "DeviceId"
  <2> DEFINE w == setDeviceType(u, registers[1])
             state == AfterDeviceId(w)
  <2>1. v = [w EXCEPT !.state = state] BY <1>1 DEF acceptRead
  <2>2. w \in {u, [u EXCEPT !.deviceType = registers[1], !.protocol = ProtocolOf(registers[1])]}
    BY DEF setDeviceType
  <2> HIDE DEF state
  <2>3. SameIndex(u, v)
    <3>1. CASE w = u BY <1>b, <2>1, <3>1
    <3>2. CASE w = [u EXCEPT !.deviceType = registers[1], !.protocol = ProtocolOf(registers[1])]
      <4> DEFINE type == registers[1]
                 protocol == ProtocolOf(type)
      <4>1. v = [u EXCEPT !.deviceType = type, !.protocol = protocol, !.state = state]
        BY <1>0, <2>1, <3>2 DEF Updaters
      <4> HIDE DEF v, type, protocol
      <4>2. SameIndex(u, v) BY <1>0, <4>1 DEF SameIndex, Updaters
      <4> QED BY <4>2
    <3> QED BY <2>2, <3>1, <3>2
  <2> QED BY <1>1, <2>3
<1>2. CASE u.state \in {"PhaseReverseEnergy", "Serial", "FirmwareVersion", "PhaseSequence"}
  <2>1. v = assert \/ \E state : v = [u EXCEPT !.state = state]
    BY <1>2 DEF acceptRead, Asserting
  <2> QED BY <1>2, <1>a, <1>b, <2>1
<1>3. CASE u.state = "CheckSetup"
  <2> DEFINE desired == DesiredApplicationSystem(u.settings)
             state == IF registers[1] = ApplicationH /\ registers[2] = desired
                      THEN "Acquisition" ELSE "CheckFrontSelector"
             w == [u EXCEPT !.application = registers[1], !.measuringSystem = registers[2],
                            !.desiredMeasuringSystem = desired, !.state = state]
  <2>1. v \in {assert, fault, w}
    BY <1>3 DEF acceptRead, checkSetup, Asserting, WithSettings
  <2> HIDE DEF desired, state
  <2>2. SameIndex(u, w) BY <1>0 DEF SameIndex, Updaters
  <2> HIDE DEF w, v
  <2>3. SameIndex(u, v) BY <1>a, <2>1, <2>2
  <2> QED BY <1>3, <2>3 DEF v
<1>4. CASE u.state = "CheckFrontSelector"
  <2>1. v = checkFrontSelector(u, registers) BY <1>4 DEF acceptRead
  <2>2. \E state, code : v = [u EXCEPT !.state = state, !.errorCode = code]
    <3>1. CASE registers[1] = 3
      <4>1. v = [u EXCEPT !.state = "WaitFrontSelector", !.errorCode = 1]
        BY <2>1, <3>1 DEF checkFrontSelector
      <4> QED BY <4>1
    <3>2. CASE registers[1] # 3
      <4> DEFINE state == IF u.application # RegApplication THEN "SetApplication"
                          ELSE IF u.measuringSystem # u.desiredMeasuringSystem
                          THEN "SetMeasuringSystem" ELSE "Acquisition"
      <4>1. v = [u EXCEPT !.state = state, !.errorCode = 0]
        BY <2>1, <3>2 DEF checkFrontSelector
      <4> HIDE DEF v, state
      <4> QED BY <4>1
    <3> QED BY <3>1, <3>2
  <2>3. SameIndex(u, v) BY <1>0, <2>2 DEF SameIndex, Updaters
  <2> QED BY <1>4, <2>3
<1>5. CASE u.state = "CheckMeasurementMode"
  <2> DEFINE state == IF registers[1] = DesiredMode(u.protocol, u.settings)
                      THEN AfterMeasurementMode(u) ELSE "SetMeasurementMode"
             w == [u EXCEPT !.state = state]
  <2>1. v \in {assert, fault, w}
    BY <1>5 DEF acceptRead, checkMeasurementMode, Asserting, WithSettings
  <2> HIDE DEF state
  <2>2. SameIndex(u, w) BY <1>b
  <2> HIDE DEF w, v
  <2>3. SameIndex(u, v) BY <1>a, <2>1, <2>2
  <2> QED BY <1>5, <2>3 DEF v
<1>6. CASE u.state = "CheckMeasurementSystem"
  <2> DEFINE desired == DesiredSystem(u.protocol, u.settings)
             state == IF registers[1] = desired THEN "Acquisition" ELSE "SetMeasuringSystem"
             w == [u EXCEPT !.desiredMeasuringSystem = desired, !.state = state]
  <2>1. v \in {assert, fault, w}
    BY <1>6 DEF acceptRead, checkMeasurementSystem, Asserting, WithSettings
  <2> HIDE DEF state, desired
  <2>2. SameIndex(u, w) BY <1>0 DEF SameIndex, Updaters
  <2> HIDE DEF w, v
  <2>3. SameIndex(u, v) BY <1>a, <2>1, <2>2
  <2> QED BY <1>6, <2>3 DEF v
<1>7. CASE u.state = "Acquisition"
  <2> DEFINE w == [u EXCEPT !.commandIndex = u.commandIndex + 1]
  <2>1. v \in {fault, w}
    BY <1>7 DEF acceptRead, processAcquisitionData, WithSettings
  <2>2. w.acquisitionIndex = u.acquisitionIndex /\ w.commandIndex = u.commandIndex + 1
    BY <1>0 DEF Updaters
  <2> HIDE DEF w, v, fault
  <2>3. CASE v = fault BY <1>a, <2>3 DEF v
  <2>4. CASE v = w BY <1>7, <2>2, <2>4 DEF v
  <2> QED BY <2>1, <2>3, <2>4
<1>8. CASE u.state \in {"SetApplication", "SetMeasuringSystem", "SetMeasurementMode"}
  <2>1. \E state : v = [u EXCEPT !.state = state] BY <1>8 DEF acceptRead
  <2> QED BY <1>8, <1>b, <2>1
<1> QED BY <1>1, <1>2, <1>3, <1>4, <1>5, <1>6, <1>7, <1>8
        DEF Answerable, AskingStates, SingleRequestStates, IdentifyStates

(* The reply to a write, the end of the timer, and a probe.                *)
LEMMA WriteKeepsIndex ==
    ASSUME NEW u, Ready(u), NEW reg, NEW value
    PROVE  SameIndex(u, acceptWrite(u, reg, value))
<1>0. u \in Updaters BY DEF Ready, Sound
<1>1. ASSUME NEW state PROVE SameIndex(u, [u EXCEPT !.state = state])
  BY <1>0 DEF SameIndex, Updaters
<1>2. SameIndex(u, [u EXCEPT !.fault = "assert"]) BY <1>0 DEF SameIndex, Updaters
<1>3. \/ acceptWrite(u, reg, value) = [u EXCEPT !.fault = "assert"]
      \/ \E state : acceptWrite(u, reg, value) = [u EXCEPT !.state = state]
  BY DEF acceptWrite, Asserting
<1> QED BY <1>1, <1>2, <1>3

-----------------------------------------------------------------------------
(* The steps.                                                              *)
SweepStates == SetupStates \cup MeasureStates
CommandRead == updater.state = "Acquisition" /\ ReadAnswered

(* The sweep goes on from the object y, with which the handler of the step *)
(* calls startNextAction; or the process or the connection has ended.      *)
Continues(y) ==
    /\ SameLife(updater, y)
    /\ updater.state \in SweepStates =>
          /\ y.protocol = updater.protocol /\ y.state \in SweepStates
          /\ updater.state \in MeasureStates => y.state \in MeasureStates
          /\ y.commandIndex = updater.commandIndex + IF CommandRead THEN 1 ELSE 0
Proceeds(y) ==
    /\ Ready(y) /\ y.acquisitionIndex = updater.acquisitionIndex
    /\ \E overrun : updater' = startNextAction(y, overrun)
    /\ Drops(y) \/ Continues(y)
Ended ==
    /\ updater'.acquisitionIndex = updater.acquisitionIndex
    /\ updater'.fault # "none" \/ updater'.settings = "none"

(* onErrorReceived: the same place of the sweep, or the end of it.         *)
LEMMA ErrorProceeds ==
    ASSUME IInv, RInv, Asking, ~CommandRead, NEW error, NEW overrun,
           updater' = onErrorReceived(Answered, error, overrun)
    PROVE  \E y : Proceeds(y)
<1> DEFINE u == Answered
           w == WithoutReverse(u)
           y == IF Exhausted(w) THEN disconnectSensor(w) ELSE countFailure(w, error)
<1>1. /\ Answerable(u) /\ Rests(updater, u) /\ SameDevice(updater, u)
      /\ u.commandIndex = updater.commandIndex
      /\ u.acquisitionIndex = updater.acquisitionIndex
  BY AnsweredAnswerable
<1>2. updater' = startNextAction(y, overrun) BY DEF onErrorReceived
<1>3. updater.commandIndex \in Nat BY DEF IInv, Post, Sound, Updaters
<1> HIDE DEF u
<1>4. /\ Ready(w) /\ SameLife(u, w)
      /\ IF u.state = "PhaseReverseEnergy" THEN TRUE ELSE w = u
  BY <1>1, WithoutReverseReady
<1>5. SameIndex(u, w) BY <1>1, CountersKeepIndex DEF Answerable
<1> HIDE DEF w
<1>6. SameIndex(w, y) BY <1>4, CountersKeepIndex
<1>7. Ready(y) /\ (Drops(y) \/ (Rests(w, y) /\ SameDevice(w, y)))
  <2>1. CASE Exhausted(w) BY <1>4, <2>1, DisconnectDrops
  <2>2. CASE ~Exhausted(w) BY <1>4, <2>2, CountReady
  <2> QED BY <2>1, <2>2
<1> HIDE DEF y
<1>8. ASSUME Rests(w, y), SameDevice(w, y) PROVE Continues(y)
  <2>1. SameLife(updater, y) BY <1>1, <1>4, <1>8 DEF Rests, SameLife
  <2>2. ASSUME updater.state \in SweepStates
        PROVE  y.state = updater.state /\ y.protocol = updater.protocol
    <3>1. u.state = updater.state /\ u.state # "PhaseReverseEnergy"
      BY <1>1, <2>2 DEF Rests, SweepStates, SetupStates, MeasureStates
    <3> QED BY <1>1, <1>4, <1>8, <3>1 DEF Rests, SameDevice
  <2>3. y.commandIndex = updater.commandIndex + 0 BY <1>1, <1>3, <1>5, <1>6 DEF SameIndex
  <2> QED BY <2>1, <2>2, <2>3 DEF Continues
<1>9. Proceeds(y) BY <1>1, <1>2, <1>5, <1>6, <1>7, <1>8 DEF Proceeds, SameIndex
<1> QED BY <1>9

(* onReadCompleted: while measuring, one command further.                  *)
LEMMA ReadProceeds ==
    ASSUME IInv, RInv, Asking, updater.request.op = "read",
           NEW registers \in Seq(Nat), Len(registers) > 0, NEW overrun,
           updater' = onReadCompleted(Answered, registers, overrun),
           updater.state = "Acquisition" => ReadAnswered
    PROVE  Ended \/ \E y : Proceeds(y)
<1> DEFINE u == Answered
           w == acceptRead(u, registers)
           y == CountersZero(w)
<1>1. /\ Answerable(u) /\ Rests(updater, u) /\ SameDevice(updater, u)
      /\ u.commandIndex = updater.commandIndex
      /\ u.acquisitionIndex = updater.acquisitionIndex /\ updater.state \in ReadingStates
  BY AnsweredAnswerable, ReadsOfState
<1>2. updater' = IF w.fault # "none" THEN w
                 ELSE IF u.state = "DeviceId" /\ w.protocol = "Unknown" THEN disconnectSensor(w)
                 ELSE IF u.state = "Serial" /\ SerialSize(registers) < 2
                 THEN onErrorReceived(u, "Timeout", overrun)
                 ELSE startNextAction(y, overrun)
  BY DEF onReadCompleted, CountersZero
<1>3. updater.commandIndex \in Nat BY DEF IInv, Post, Sound, Updaters
<1>4. u.state = updater.state BY <1>1 DEF Rests
<1>5. ASSUME u.state = "Serial", updater' = onErrorReceived(u, "Timeout", overrun)
      PROVE  \E x : Proceeds(x)
  <2>1. ~CommandRead BY <1>4, <1>5 DEF CommandRead
  <2> QED BY <1>5, <2>1, ErrorProceeds
<1> HIDE DEF u
<1>6. Ends(u, w) \/ ReadMove(u, registers, w) BY <1>1, ReadMoves
<1>7. \/ SameIndex(u, w) /\ (w.fault # "none" \/ u.state # "Acquisition")
      \/ /\ u.state = "Acquisition"
         /\ w.acquisitionIndex = u.acquisitionIndex
         /\ w.commandIndex = u.commandIndex + 1
  BY <1>1, ReadKeepsIndex
<1>8. CASE w.fault # "none"
  <2>1. updater' = w BY <1>2, <1>8
  <2> HIDE DEF w
  <2> QED BY <1>1, <1>7, <1>8, <2>1 DEF Ended, SameIndex
<1>9. CASE w.fault = "none"
  <2>1. ReadMove(u, registers, w) BY <1>6, <1>9 DEF Ends
  <2>2. Ready(w) BY <1>1, <2>1, ReadReady
  <2>3. /\ u.state \in SweepStates => w.state \in SweepStates /\ w.protocol = u.protocol
        /\ u.state \in MeasureStates => w.state \in MeasureStates
    <3>1. u.state \in ReadingStates BY <1>1, <1>4
    <3>2. u.state \in SweepStates => w.protocol = u.protocol
      BY <2>1 DEF ReadMove, SameDevice, SweepStates, SetupStates, MeasureStates
    <3>3. CASE u.state = "CheckSetup"
      BY <2>1, <3>2, <3>3 DEF ReadMove, SystemRead, SweepStates, SetupStates, MeasureStates
    <3>4. CASE u.state = "CheckMeasurementSystem"
      BY <2>1, <3>2, <3>4 DEF ReadMove, SystemChecked, SweepStates, SetupStates, MeasureStates
    <3>5. CASE u.state \notin {"CheckSetup", "CheckMeasurementSystem"}
               /\ u.state \in SweepStates
      <4>1. w.state = ReadState(u, registers)
        BY <2>1, <3>5 DEF ReadMove, SweepStates, SetupStates, MeasureStates
      <4>2. u.state = "Acquisition" => w.state = "Acquisition" BY <4>1 DEF ReadState
      <4>3. u.state \in {"CheckFrontSelector", "CheckMeasurementMode", "Acquisition"}
        BY <3>1, <3>5
           DEF ReadingStates, IdentifyStates, SweepStates, SetupStates, MeasureStates
      <4>4. w.state \in SweepStates
        BY <4>1, <4>3 DEF ReadState, AfterMeasurementMode, SweepStates, SetupStates, MeasureStates
      <4> QED BY <3>2, <4>2, <4>3, <4>4 DEF MeasureStates
    <3> QED BY <3>3, <3>4, <3>5 DEF SweepStates, SetupStates, MeasureStates
  <2>4. SameLife(u, w) BY <2>1 DEF ReadMove
  <2> HIDE DEF w
  <2>5. /\ Ready(y) /\ Rests(w, y) /\ SameDevice(w, y) /\ SameIndex(w, y)
    BY <2>2, ZeroReady, CountersKeepIndex
  <2>6. CASE updater' = disconnectSensor(w)
    <3>1. Drops(updater') /\ SameIndex(w, updater')
      BY <2>2, <2>6, DisconnectDrops, CountersKeepIndex
    <3>2. updater'.acquisitionIndex = updater.acquisitionIndex
      BY <1>1, <1>7, <3>1 DEF SameIndex
    <3> QED BY <3>1, <3>2 DEF Ended, Drops
  <2>7. CASE updater' = startNextAction(y, overrun)
    <3> HIDE DEF y
    <3>1. SameLife(updater, y) BY <1>1, <2>4, <2>5 DEF Rests, SameLife
    <3>2. y.acquisitionIndex = updater.acquisitionIndex BY <1>1, <1>7, <2>5 DEF SameIndex
    <3>3. y.commandIndex = updater.commandIndex + IF CommandRead THEN 1 ELSE 0
      <4>1. CASE updater.state = "Acquisition"
        BY <1>1, <1>4, <1>7, <1>9, <2>5, <4>1 DEF SameIndex, CommandRead
      <4>2. CASE updater.state # "Acquisition"
        <5>1. ~CommandRead BY <4>2 DEF CommandRead
        <5>2. y.commandIndex = updater.commandIndex
          BY <1>1, <1>4, <1>7, <2>5, <4>2 DEF SameIndex
        <5> QED BY <1>3, <5>1, <5>2
      <4> QED BY <4>1, <4>2
    <3>4. Continues(y)
      BY <1>1, <1>4, <2>3, <2>5, <3>1, <3>3 DEF Continues, Rests, SameDevice
    <3>5. Proceeds(y) BY <2>5, <2>7, <3>2, <3>4 DEF Proceeds
    <3> QED BY <3>5
  <2>8. CASE u.state = "Serial" /\ updater' = onErrorReceived(u, "Timeout", overrun)
    BY <1>5, <2>8
  <2> QED BY <1>2, <1>9, <2>6, <2>7, <2>8
<1> QED BY <1>8, <1>9

(* onWriteCompleted: a step of the setup.                                  *)
LEMMA WriteProceeds ==
    ASSUME IInv, RInv, WriteAnswered
    PROVE  Ended \/ \E y : Proceeds(y)
<1> DEFINE u == Answered
           reg == updater.request.reg
           value == updater.request.arg
           w == acceptWrite(u, reg, value)
           y == CountersZero(w)
<1>0. Asking /\ updater.request.op = "write" BY DEF WriteAnswered
<1>1. /\ Answerable(u) /\ Rests(updater, u) /\ SameDevice(updater, u)
      /\ u.commandIndex = updater.commandIndex
      /\ u.acquisitionIndex = updater.acquisitionIndex /\ Asked(updater)
  BY <1>0, AnsweredAnswerable
<1>2. PICK overrun \in BOOLEAN : updater' = IF w.fault # "none" THEN w
                                            ELSE startNextAction(y, overrun)
  BY DEF WriteAnswered, onWriteCompleted, CountersZero
<1>3. updater.commandIndex \in Nat BY DEF IInv, Post, Sound, Updaters
<1>4. u.state = updater.state BY <1>1 DEF Rests
<1>5. WriteRequest(updater) BY <1>0, <1>1, WritesOfSetup
<1>6. ~CommandRead BY <1>0 DEF CommandRead, ReadAnswered
<1> HIDE DEF u
<1>7. \/ Ends(u, w)
      \/ StateMove(u, w) /\ w.state = WriteState(u) /\ Ready(w)
  BY <1>1, WriteMoves
<1>8. SameIndex(u, w) BY <1>1, WriteKeepsIndex DEF Answerable
<1> HIDE DEF w
<1>9. CASE Ends(u, w)
  <2>1. updater' = w /\ w.fault # "none" BY <1>2, <1>9 DEF Ends
  <2> QED BY <1>1, <1>8, <2>1 DEF Ended, SameIndex
<1>10. CASE StateMove(u, w) /\ w.state = WriteState(u) /\ Ready(w)
  <2>1. /\ Ready(y) /\ Rests(w, y) /\ SameDevice(w, y) /\ SameIndex(w, y)
    BY <1>10, ZeroReady, CountersKeepIndex
  <2>2. updater' = startNextAction(y, overrun) BY <1>2, <1>10 DEF StateMove
  <2> HIDE DEF y
  <2>3. w.state \in SweepStates /\ updater.state \notin MeasureStates
    BY <1>4, <1>5, <1>10 DEF WriteRequest, WriteState, AfterMeasurementMode, SweepStates, SetupStates, MeasureStates
  <2>4. SameLife(updater, y) BY <1>1, <1>10, <2>1 DEF Rests, SameLife, StateMove
  <2>5. y.commandIndex = updater.commandIndex + 0 /\ y.acquisitionIndex = updater.acquisitionIndex
    BY <1>1, <1>3, <1>8, <2>1 DEF SameIndex
  <2>6. y.protocol = updater.protocol BY <1>1, <1>10, <2>1 DEF StateMove, SameDevice
  <2>7. Continues(y) BY <1>6, <2>1, <2>3, <2>4, <2>5, <2>6 DEF Continues, Rests
  <2>8. Proceeds(y) BY <2>1, <2>2, <2>5, <2>7 DEF Proceeds
  <2> QED BY <2>8
<1> QED BY <1>7, <1>9, <1>10

(* No command of a table reads a serial number.                            *)
LEMMA CommandsReadNoSerial ==
    ASSUME IInv, RInv, Asking, updater.state = "Acquisition"
    PROVE  /\ updater.request.reg \notin SerialRegisters
           /\ updater.table \in TableNames
           /\ updater.commandIndex \in AllOf(updater.table)
           /\ CommandAt(updater.table, updater.commandIndex).interval
                  \in {0, updater.acquisitionIndex}
<1>1. AsksForCommand(updater) BY AnsweredAnswerable DEF Asked
<1>2. updater.table \in TableNames BY <1>1, AskedTable
<1>3. updater.commandIndex \in Nat BY DEF IInv, Post, Sound, Updaters
<1>4. /\ updater.commandIndex \in updater.commandIndex .. Len(Tables[updater.table]) - 1
      /\ CommandAt(updater.table, updater.commandIndex).interval \in {0, updater.acquisitionIndex}
  BY <1>1 DEF AsksForCommand, DueNow, DueCommands
<1>5. updater.commandIndex \in AllOf(updater.table)
  <2>1. Len(Tables[updater.table]) \in Nat BY <1>2, TablesReadable DEF Readable
  <2> QED BY <1>3, <1>4, <2>1 DEF AllOf
<1>6. updater.request.reg = CommandAt(updater.table, updater.commandIndex).reg
  BY <1>1 DEF AsksForCommand, Read
<1> QED BY <1>2, <1>4, <1>5, <1>6, IntervalWithin

(* The answers: none of them ends the wait for the settings.               *)
LEMMA AnswerProceeds ==
    ASSUME IInv, RInv, SInv, Answer
    PROVE  /\ Running /\ updater.state # "WaitForStart"
           /\ Ended \/ \E y : Proceeds(y)
<1>0. Asking
  BY DEF Answer, Reply, BusError, ReadAnswered, ShortSerialAnswered, WriteAnswered, TimedOut,
         CrcErrorReceived, ReadRefused, ExceptionReceived, StaleReplyReceived
<1>1. Asked(updater) /\ Sent(updater.request) BY <1>0, AnsweredAnswerable
<1>2. updater.state # "WaitForStart" BY <1>1 DEF Asked, SingleRequestStates, IdentifyStates
<1>3. meter \in MeterModels BY DEF IInv
<1>4. CASE ReadAnswered
  <2>1. /\ updater.request.op = "read"
        /\ \E overrun \in BOOLEAN :
             updater' = onReadCompleted(Answered, ReadReply(meter, updater.request), overrun)
    BY <1>4 DEF ReadAnswered
  <2>2. /\ ReadReply(meter, updater.request) \in Seq(Nat)
        /\ Len(ReadReply(meter, updater.request)) > 0
    BY <1>1, <1>3, <2>1, ReplyReadable
  <2>3. Ended \/ \E y : Proceeds(y) BY <1>0, <1>4, <2>1, <2>2, ReadProceeds
  <2> QED BY <1>0, <1>2, <2>3 DEF Asking
<1>5. CASE ShortSerialAnswered
  <2>1. /\ updater.request.op = "read" /\ updater.request.reg \in SerialRegisters
        /\ \E overrun \in BOOLEAN : updater' = onReadCompleted(Answered, ShortSerial, overrun)
    BY <1>5 DEF ShortSerialAnswered, SerialRegisters
  <2>2. updater.state # "Acquisition" BY <1>0, <2>1, CommandsReadNoSerial
  <2>3. Ended \/ \E y : Proceeds(y) BY <1>0, <2>1, <2>2, ShortSerialReadable, ReadProceeds
  <2> QED BY <1>0, <1>2, <2>3 DEF Asking
<1>6. CASE WriteAnswered BY <1>0, <1>2, <1>6, WriteProceeds DEF Asking
<1>7. CASE ~ReadAnswered /\ (TimedOut \/ CrcErrorReceived \/ ReadRefused \/ ExceptionReceived)
  <2>1. ~CommandRead BY <1>7 DEF CommandRead
  <2>2. \E error, overrun : updater' = onErrorReceived(Answered, error, overrun)
    BY <1>7 DEF TimedOut, CrcErrorReceived, ReadRefused, ExceptionReceived
  <2>3. \E y : Proceeds(y) BY <1>0, <2>1, <2>2, ErrorProceeds
  <2> QED BY <1>0, <1>2, <2>3 DEF Asking
<1>8. ~StaleReplyReceived BY DEF SInv, StaleReplyReceived, NoRequest
<1> QED BY <1>4, <1>5, <1>6, <1>7, <1>8 DEF Answer, Reply, BusError

(* The timer: the next round, the front selector, another search.          *)
LEMMA WaitProceeds ==
    ASSUME IInv, RInv, WaitFinished
    PROVE  /\ Running /\ updater.state # "WaitForStart"
           /\ \E y : Proceeds(y)
<1> DEFINE u == [updater EXCEPT !.timer = FALSE]
           state == TimerState(u)
           y == [u EXCEPT !.state = state]
<1>1. /\ Ready(u) /\ StateMove(updater, u) /\ u.state = updater.state /\ u.state \in TimerStates
      /\ \E overrun \in BOOLEAN : updater' = onWaitFinished(u, overrun)
  BY WaitHandled
<1>2. u.commandIndex = updater.commandIndex /\ u.acquisitionIndex = updater.acquisitionIndex
      /\ updater.commandIndex \in Nat
  BY DEF IInv, Post, Sound, Updaters
<1> HIDE DEF u
<1>3. /\ Ready(y) /\ StateMove(u, y) /\ y.state = state
      /\ \E overrun \in BOOLEAN : updater' = startNextAction(y, overrun)
  BY <1>1, TimerMoves
<1>4. y.commandIndex = u.commandIndex /\ y.acquisitionIndex = u.acquisitionIndex
  <2> HIDE DEF state
  <2> QED BY <1>1 DEF Ready, Sound, Updaters
<1>5. updater.state \in SweepStates =>
        /\ state \in SweepStates
        /\ updater.state \in MeasureStates => state \in MeasureStates
  BY <1>1 DEF TimerState, TimerStates, SweepStates, SetupStates, MeasureStates
<1>6. ~CommandRead BY <1>1 DEF CommandRead, TimerStates
<1> HIDE DEF y, state
<1>7. y.commandIndex = updater.commandIndex + 0 BY <1>2, <1>4
<1>8. SameLife(updater, y) /\ y.protocol = updater.protocol
  BY <1>1, <1>3 DEF StateMove, SameLife, SameDevice
<1>9. Continues(y) BY <1>3, <1>5, <1>6, <1>7, <1>8 DEF Continues
<1>10. Proceeds(y) BY <1>2, <1>3, <1>4, <1>9 DEF Proceeds
<1>11. updater.state # "WaitForStart" BY <1>1 DEF TimerStates
<1> QED BY <1>10, <1>11 DEF WaitFinished

-----------------------------------------------------------------------------
(* The invariant: what has been read in a sweep that nothing interrupts is *)
(* what lies before the command that the sweep has come to.                *)
Sweeping(u, read) ==
    /\ u.settings # "none" /\ ~u.setupRequested
    /\ u.state \in SweepStates
    /\ u.state \in SetupStates => u.acquisitionIndex = 0 /\ u.commandIndex = 0
    /\ read = Covered(TableOf(u.protocol, u.settings), u.acquisitionIndex, u.commandIndex)
SweepInv == whole /\ Running => Sweeping(updater, answered)

SweptAll == SweepEnds /\ whole => AnsweredNow = AllOf(updater.table)

(* What has been read after the step, before the next action.              *)
LEMMA ReadSoFar ==
    ASSUME IInv, RInv, Sweeping(updater, answered), Running, NEW y, Continues(y),
           y.acquisitionIndex = updater.acquisitionIndex
    PROVE  LET table == TableOf(updater.protocol, updater.settings)
           IN  /\ table \in TableNames
               /\ y.protocol = updater.protocol /\ y.settings = updater.settings
               /\ ~y.setupRequested /\ y.state \in SweepStates
               /\ updater.state \in MeasureStates => y.state \in MeasureStates
               /\ AnsweredNow = Covered(table, y.acquisitionIndex, y.commandIndex)
               /\ updater.state = "Acquisition" => updater.table = table
               /\ updater.state # "Acquisition" => y.commandIndex = 0
<1> DEFINE table == TableOf(updater.protocol, updater.settings)
<1>1. /\ updater.commandIndex \in Nat /\ updater.acquisitionIndex \in Nat
      /\ updater.state = "Wait" => updater.commandIndex = 0
  BY DEF IInv, Post, Sound, Updaters
<1>2. table \in TableNames
  BY TableSelected DEF IInv, Post, Sound, Updaters, KnownProtocol, Sweeping
<1>3. ASSUME updater.state = "Acquisition" PROVE updater.table = table /\ Asking
  <2>1. ~updater.timer BY <1>3 DEF RInv, Requested, TimerStates
  <2>2. updater.request.op # "none" BY <1>3, <2>1 DEF IInv, Post, Busy, Running
  <2>3. AsksForCommand(updater) BY <1>3, <2>2 DEF RInv, Requested, Asked
  <2> QED BY <2>2, <2>3 DEF AsksForCommand, Sweeping, Asking
<1>4. answered = Covered(table, updater.acquisitionIndex, updater.commandIndex)
  BY DEF Sweeping
<1>5. y.commandIndex = updater.commandIndex + IF CommandRead THEN 1 ELSE 0
  BY DEF Continues, Sweeping
<1>6. AnsweredNow = IF CommandRead THEN answered \cup {updater.commandIndex} ELSE answered
  BY DEF AnsweredNow, CommandRead
<1>7. ASSUME CommandRead
      PROVE  Covered(table, updater.acquisitionIndex, updater.commandIndex + 1)
                 = answered \cup {updater.commandIndex}
  <2>1. Asking /\ updater.state = "Acquisition" BY <1>7 DEF CommandRead, ReadAnswered
  <2>2. updater.table = table BY <1>3, <2>1
  <2>3. /\ updater.commandIndex \in AllOf(table)
        /\ CommandAt(table, updater.commandIndex).interval \in {0, updater.acquisitionIndex}
    BY <2>1, <2>2, CommandsReadNoSerial
  <2> HIDE DEF table
  <2> QED BY <1>1, <1>2, <1>4, <2>3, CoveredByReading
<1>8. updater.state # "Acquisition" => ~CommandRead /\ updater.commandIndex = 0
  BY <1>1 DEF CommandRead, Sweeping, SweepStates, MeasureStates
<1>9. /\ y.protocol = updater.protocol /\ y.settings = updater.settings
      /\ ~y.setupRequested /\ y.state \in SweepStates
      /\ updater.state \in MeasureStates => y.state \in MeasureStates
  BY DEF Continues, Sweeping, SameLife
<1> HIDE DEF table
<1>10. AnsweredNow = Covered(table, y.acquisitionIndex, y.commandIndex)
  <2>1. CASE CommandRead
    <3>1. y.commandIndex = updater.commandIndex + 1 BY <1>5, <2>1
    <3>2. AnsweredNow = answered \cup {updater.commandIndex} BY <1>6, <2>1
    <3> QED BY <1>7, <2>1, <3>1, <3>2
  <2>2. CASE ~CommandRead
    <3>1. y.commandIndex = updater.commandIndex BY <1>1, <1>5, <2>2
    <3>2. AnsweredNow = answered BY <1>6, <2>2
    <3> QED BY <1>4, <3>1, <3>2
  <2> QED BY <2>1, <2>2
<1>11. updater.state # "Acquisition" => y.commandIndex = 0 BY <1>5, <1>8
<1> QED BY <1>2, <1>3, <1>9, <1>10, <1>11 DEF table

(* A step that goes on with the sweep, or ends it.                         *)
LEMMA ProceedsSweeps ==
    ASSUME IInv, RInv, SInv, SweepInv, SweepNext, Running, updater.state # "WaitForStart",
           NEW y, Proceeds(y)
    PROVE  SweepInv' /\ SweptAll
<1> DEFINE z == SetupDone(y)
           v == updater'
           table == TableOf(z.protocol, z.settings)
<1>1. PICK overrun : v = startNextAction(y, overrun) BY DEF Proceeds
<1>2. Ready(y) /\ y.acquisitionIndex = updater.acquisitionIndex BY DEF Proceeds
<1>3. /\ Ready(z) /\ z.settings = y.settings /\ z.protocol = y.protocol
      /\ ~z.setupRequested
      /\ ~y.setupRequested => z = y
  BY <1>2, SetupReady DEF SameDevice
<1>4. /\ z.acquisitionIndex = y.acquisitionIndex /\ z.commandIndex = y.commandIndex
      /\ v = actInState(z, overrun)
  BY <1>1, <1>2, SetupStays
<1>5. Outcome(z, v) BY <1>1, <1>2, NextActionOutcome
<1>6. ~SweepBegins BY DEF SweepBegins
<1> HIDE DEF z, v
<1>7. \/ z.state \in MeasureStates /\ z.settings # "none" /\ Advance(z, v)
      \/ SameIndex(z, v)
  BY <1>3, <1>4, ActionAdvances DEF SameIndex
<1>8. v.protocol = z.protocol BY <1>5 DEF Outcome, SameDevice
<1>9. CASE SweepEnds
  <2>1. v.acquisitionIndex = 0 /\ z.acquisitionIndex # 0
    BY <1>2, <1>4, <1>9 DEF SweepEnds, v
  <2>2. z.state \in MeasureStates /\ z.settings # "none" /\ Completes(table, z, v)
    BY <1>7, <2>1 DEF SameIndex, Advance, Stays
  <2>3. /\ v.state \in MeasureStates /\ v.settings = z.settings
        /\ v.setupRequested = z.setupRequested
    BY <1>5, <2>2 DEF Outcome, Rests, SameLife, Searches, Detects, Measures, MeasureStates
  <2>4. answered' = {} BY <1>9 DEF SweepNext
  <2>5. Sweeping(v, answered')
    BY <1>3, <1>8, <2>2, <2>3, <2>4
       DEF Sweeping, Completes, SweepStates, MeasureStates, SetupStates
  <2>6. SweepInv' BY <2>5 DEF SweepInv, v
  <2>7. ASSUME whole PROVE AnsweredNow = AllOf(updater.table)
    <3>1. Sweeping(updater, answered) BY <2>7 DEF SweepInv
    <3>2. ~Drops(y) BY <1>3, <2>2 DEF Drops
    <3>3. Continues(y) BY <3>2 DEF Proceeds
    <3>4. /\ y.protocol = updater.protocol /\ y.settings = updater.settings /\ ~y.setupRequested
          /\ AnsweredNow = Covered(TableOf(updater.protocol, updater.settings),
                                   y.acquisitionIndex, y.commandIndex)
          /\ updater.state = "Acquisition" =>
                updater.table = TableOf(updater.protocol, updater.settings)
          /\ updater.state # "Acquisition" => y.commandIndex = 0
      BY <1>2, <3>1, <3>3, ReadSoFar
    <3>5. table = TableOf(updater.protocol, updater.settings) BY <1>3, <3>4
    <3>6. Covered(table, z.acquisitionIndex, z.commandIndex) = AllOf(table) /\ z.commandIndex # 0
      BY <2>2 DEF Completes
    <3> HIDE DEF table
    <3> QED BY <1>4, <3>4, <3>5, <3>6
  <2> QED BY <2>6, <2>7 DEF SweptAll
<1>10. CASE ~SweepEnds
  <2> SUFFICES ASSUME whole', Running'
               PROVE  Sweeping(updater', answered')
    BY <1>10 DEF SweptAll, SweepInv
  <2>1. whole /\ v.settings # "none" /\ answered' = AnsweredNow
    BY <1>6, <1>10 DEF SweepNext, v
  <2>2. Sweeping(updater, answered) BY <2>1 DEF SweepInv
  <2>3. ~Drops(y) BY <1>2, <1>5, <2>1, DroppedRests DEF z
  <2>4. Continues(y) BY <2>3 DEF Proceeds
  <2>5. /\ y.protocol = updater.protocol /\ y.settings = updater.settings
        /\ ~y.setupRequested /\ y.state \in SweepStates
        /\ updater.state \in MeasureStates => y.state \in MeasureStates
        /\ AnsweredNow = Covered(TableOf(updater.protocol, updater.settings),
                                 y.acquisitionIndex, y.commandIndex)
    BY <1>2, <2>2, <2>4, ReadSoFar
  <2>6. z = y /\ table = TableOf(updater.protocol, updater.settings) BY <1>3, <2>5
  <2>7. /\ v.state = y.state \/ (y.state \in MeasureStates /\ v.state \in MeasureStates)
        /\ v.settings = y.settings /\ ~v.setupRequested
    BY <1>5, <2>5, <2>6
       DEF Outcome, Rests, SameLife, Searches, Detects, Measures, SweepStates, SetupStates,
           MeasureStates
  <2>8. Covered(table, v.acquisitionIndex, v.commandIndex)
            = Covered(table, z.acquisitionIndex, z.commandIndex)
    <3>1. ~Completes(table, z, v)
      BY <1>2, <1>4, <1>10 DEF Completes, SweepEnds, v
    <3>2. SameIndex(z, v) \/ Stays(table, z, v) BY <1>7, <3>1 DEF Advance
    <3> QED BY <3>2 DEF SameIndex, Stays
  <2>9. ASSUME v.state \in SetupStates
        PROVE  v.acquisitionIndex = 0 /\ v.commandIndex = 0
    <3>1. y.state \in SetupStates /\ y.state \notin MeasureStates
      BY <2>7, <2>9 DEF SetupStates, MeasureStates
    <3>2. updater.state \in SetupStates BY <2>2, <2>5, <3>1 DEF Sweeping, SweepStates
    <3>3. updater.acquisitionIndex = 0 /\ updater.commandIndex = 0
      BY <2>2, <3>2 DEF Sweeping
    <3>4. ~CommandRead BY <3>2 DEF CommandRead, SetupStates
    <3>5. y.commandIndex = 0
      BY <2>2, <2>4, <3>3, <3>4 DEF Continues, Sweeping
    <3>6. SameIndex(z, v) BY <1>7, <2>6, <3>1
    <3> QED BY <1>2, <1>4, <3>3, <3>5, <3>6 DEF SameIndex
  <2>10. v.settings = updater.settings /\ v.protocol = updater.protocol /\ v.state \in SweepStates
    BY <1>8, <2>5, <2>6, <2>7 DEF SweepStates
  <2>11. answered' = Covered(TableOf(v.protocol, v.settings), v.acquisitionIndex, v.commandIndex)
    BY <1>4, <2>1, <2>5, <2>6, <2>8, <2>10
  <2> QED BY <2>1, <2>7, <2>9, <2>10, <2>11 DEF Sweeping, v
<1> QED BY <1>9, <1>10

(* The measurements begin: with the first command of the first round.      *)
LEMMA InitializedSweeps ==
    ASSUME IInv, RInv, SweepNext, SettingsInitialized
    PROVE  SweepInv' /\ SweptAll
<1> DEFINE state == StartState(updater)
           y == [updater EXCEPT !.acquisitionIndex = 0, !.commandIndex = 0, !.state = state]
           z == SetupDone(y)
           v == updater'
<1>1. Ready(updater) BY InitializedHandled
<1>2. updater.state = "WaitForStart" /\ updater.settings # "none" BY DEF SettingsInitialized
<1>3. PICK overrun \in BOOLEAN : v = startMeasurements(updater, overrun)
  BY DEF SettingsInitialized
<1>4. Ready(y) /\ StateMove(updater, y) /\ y.state = state /\ v = startNextAction(y, overrun)
  BY <1>1, <1>2, <1>3, StartMoves
<1>5. y.acquisitionIndex = 0 /\ y.commandIndex = 0
  <2> HIDE DEF state
  <2> QED BY <1>1 DEF Ready, Sound, Updaters
<1>6. state \in {"CheckSetup", "CheckMeasurementMode"} BY DEF StartState
<1> HIDE DEF y, state
<1>7. /\ Ready(z) /\ z.settings = y.settings /\ ~z.setupRequested
      /\ z.state = y.state \/ z.state = SetupState(y)
  BY <1>4, SetupReady
<1>8. /\ z.acquisitionIndex = 0 /\ z.commandIndex = 0 /\ v = actInState(z, overrun)
  BY <1>4, <1>5, SetupStays
<1>9. Outcome(z, v) BY <1>4, NextActionOutcome
<1>10. z.state \in {"CheckSetup", "CheckMeasurementMode"}
  BY <1>4, <1>6, <1>7 DEF SetupState
<1> HIDE DEF z, v
<1>11. z.state \in SetupStates /\ z.state \notin MeasureStates
  BY <1>10 DEF SetupStates, MeasureStates
<1>12. v.acquisitionIndex = 0 /\ v.commandIndex = 0
  BY <1>7, <1>8, <1>11, OtherStatesStay
<1>13. Rests(z, v) /\ v.protocol = z.protocol
  BY <1>9, <1>10 DEF Outcome, Searches, Detects, Measures, MeasureStates, SameDevice
<1>14. SweepBegins BY <1>2, <1>10, <1>13 DEF SweepBegins, Rests, v
<1>15. answered' = {} BY <1>14 DEF SweepNext
<1>16. v.settings # "none" BY <1>2, <1>4, <1>7, <1>13 DEF StateMove, SameLife, Rests
<1>17. TableOf(v.protocol, v.settings) \in TableNames
  BY <1>7, <1>13, <1>16, TableSelected DEF Ready, Sound, Updaters, KnownProtocol, Rests, SameLife
<1>18. Sweeping(v, answered')
  BY <1>7, <1>11, <1>12, <1>13, <1>15, <1>16, <1>17, CoveredNothing
     DEF Sweeping, SweepStates, Rests, SameLife
<1>19. SweepInv' BY <1>18 DEF SweepInv, v
<1>20. ~SweepEnds BY <1>2 DEF SweepEnds
<1> QED BY <1>19, <1>20 DEF SweptAll

(* Every step.                                                             *)
LEMMA StepSweeps ==
    ASSUME IInv, RInv, SInv, SweepInv, [SweepNext]_sweepVars
    PROVE  SweepInv' /\ SweptAll
<1>1. CASE UNCHANGED sweepVars
  <2>1. ~SweepEnds BY <1>1 DEF sweepVars, SweepEnds
  <2>2. SweepInv' BY <1>1 DEF sweepVars, SweepInv, Sweeping, Running
  <2> QED BY <2>1, <2>2 DEF SweptAll
<1>2. CASE SweepNext /\ Answer
  <2>1. Running /\ updater.state # "WaitForStart" /\ (Ended \/ \E y : Proceeds(y))
    BY <1>2, AnswerProceeds
  <2>2. CASE Ended
    <3>1. ~SweepEnds BY <2>2 DEF Ended, SweepEnds
    <3>2. updater'.settings = "none" => ~whole' BY <1>2 DEF SweepNext
    <3>3. SweepInv' BY <2>2, <3>2 DEF Ended, SweepInv, Running
    <3> QED BY <3>1, <3>3 DEF SweptAll
  <2>3. CASE \E y : Proceeds(y) BY <1>2, <2>1, <2>3, ProceedsSweeps
  <2> QED BY <2>1, <2>2, <2>3
<1>3. CASE SweepNext /\ WaitFinished BY <1>3, WaitProceeds, ProceedsSweeps
<1>4. CASE SweepNext /\ SettingsInitialized BY <1>4, InitializedSweeps
<1>5. CASE SweepNext /\ SettingsChanged
  <2>1. ~SweepEnds BY <1>5, ChangeKeeps DEF SweepEnds
  <2>2. ~whole' BY <1>5, ChangeKeeps DEF SweepNext
  <2> QED BY <2>1, <2>2 DEF SweptAll, SweepInv
<1>6. CASE SweepNext /\ Installer /\ ~Answer
  <2>1. updater' = updater BY <1>6 DEF Installer, FrontSelectorTurned, MeterExchanged
  <2>2. ~SweepEnds /\ ~SweepBegins BY <2>1 DEF SweepEnds, SweepBegins
  <2>3. AnsweredNow = answered BY <1>6 DEF AnsweredNow, Answer, Reply
  <2>4. whole' => whole /\ answered' = answered BY <1>6, <2>2, <2>3 DEF SweepNext
  <2>5. Running' => Running BY <2>1 DEF Running
  <2>6. SweepInv' BY <2>1, <2>4, <2>5 DEF SweepInv, Sweeping
  <2> QED BY <2>2, <2>6 DEF SweptAll
<1> QED BY <1>1, <1>2, <1>3, <1>4, <1>5, <1>6 DEF SweepNext, Next

(* A sweep that no setup and no loss of the sensor interrupts has read     *)
(* what lies before the command it has come to, whatever errors, retries   *)
(* and rounds without the timer were on its way (startNextAcquisition).    *)
THEOREM SweepInvariant ==
    ASSUME StaleReplies = FALSE PROVE SweepSpec => Spec /\ []SweepInv
<1>1. SweepInit => Init /\ SweepInv BY DEF SweepInit, SweepInv
<1>2. [SweepNext]_sweepVars => [Next]_vars BY DEF SweepNext, sweepVars, vars
<1>3. SweepSpec => Spec BY <1>1, <1>2, PTL DEF SweepSpec, Spec
<1>4. IInv /\ RInv /\ SInv /\ SweepInv /\ [SweepNext]_sweepVars => SweepInv' BY StepSweeps
<1> QED BY <1>1, <1>3, <1>4, Invariant, RequestInvariant, SetupInvariant, PTL DEF SweepSpec

(* When a sweep that nothing has interrupted ends, and with it the sensor  *)
(* becomes Connected, every command of its table has been read in it.      *)
THEOREM SweepsAreFull == ASSUME StaleReplies = FALSE PROVE SweepSpec => FullSweep
<1>1. IInv /\ RInv /\ SInv /\ SweepInv /\ [SweepNext]_sweepVars
        => [SweepEnds /\ whole => AnsweredNow = 0 .. Len(Tables[updater.table]) - 1]_sweepVars
  BY StepSweeps DEF SweptAll, AllOf
<1> QED BY <1>1, SweepInvariant, Invariant, RequestInvariant, SetupInvariant, PTL
        DEF SweepSpec, FullSweep
=============================================================================
