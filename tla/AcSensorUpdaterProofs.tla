------------------------ MODULE AcSensorUpdaterProofs ------------------------
(***************************************************************************)
(* What AcSensorUpdater guarantees for every limit, set of meters and mode *)
(* of the user, with and without stale replies: type correctness, the      *)
(* lifetime of the settings, one activity at a time, and bounded failure   *)
(* counters.                                                               *)
(*                                                                         *)
(* The four are conjuncts of one inductive invariant.  Each handler takes  *)
(* an object that waits for nothing (Free) and ends in startNextAction;    *)
(* so the proof shows that startNextAction turns every Sound and Free      *)
(* object into one that is Sound and Busy, and then that each handler      *)
(* calls it with such an object.                                           *)
(***************************************************************************)
EXTENDS AcSensorUpdater, TLAPS

-----------------------------------------------------------------------------
(* The command tables: what the proofs need to know of one.                *)
Readable(commands) ==
    /\ Len(commands) \in 1..8
    /\ commands[1].interval = 0
    /\ \A k \in 1..Len(commands) :
          commands[k].reg \in Nat /\ commands[k].count \in Nat \ {0}

(* The tables of the EM24 are readable.                                    *)
LEMMA Em24Readable ==
    Readable(Em24Commands) /\ Readable(Em24CommandsP1) /\ Readable(Em24CommandsP1PV)
BY DEF Readable, Em24Commands, Em24CommandsP1, Em24CommandsP1PV, Command

(* The tables of the ET112 and the ET340 are readable.                     *)
LEMMA Et340Readable ==
    Readable(Em112Commands) /\ Readable(Et340Commands) /\ Readable(Et340P1Commands)
        /\ Readable(Et340CommandsP1PV)
BY DEF Readable, Em112Commands, Et340Commands, Et340P1Commands, Et340CommandsP1PV, Command

(* The tables of the EM300, and the one of its S27 variant, are readable.  *)
LEMMA Em300Readable ==
    Readable(Em300Commands) /\ Readable(Em300P1Commands) /\ Readable(Em300CommandsP1PV)
        /\ Readable(Em300S27P1Commands)
BY DEF Readable, Em300Commands, Em300P1Commands, Em300CommandsP1PV, Em300S27P1Commands, Command

(* The tables of the EM540 are readable.                                   *)
LEMMA Em540Readable ==
    Readable(Em540Commands) /\ Readable(Em540P1Commands) /\ Readable(Em540CommandsP1PV)
<1>1. Readable(Em540Commands) BY DEF Readable, Em540Commands, Command
<1>2. Readable(Em540P1Commands) BY DEF Readable, Em540P1Commands, Command
<1>3. Readable(Em540CommandsP1PV) BY DEF Readable, Em540CommandsP1PV, Command
<1> QED BY <1>1, <1>2, <1>3

(* Every table selectCommands can choose is readable.                      *)
LEMMA TablesReadable == \A table \in TableNames : Readable(Tables[table])
BY Em24Readable, Et340Readable, Em300Readable, Em540Readable DEF Tables, TableNames

(* A set of command indices that is not empty has a smallest member: the   *)
(* scan of startNextAction finds the next due command.                     *)
LEMMA SmallestCommand ==
    ASSUME NEW S \in SUBSET (0..7), S # {}
    PROVE  Min(S) \in S /\ \A y \in S : Min(S) <= y
<1>1. \E x \in S : \A y \in S : x <= y
  <2>1. CASE 0 \in S \/ 1 \in S BY <2>1
  <2>2. CASE 0 \notin S /\ 1 \notin S /\ (2 \in S \/ 3 \in S) BY <2>2
  <2>3. CASE S \subseteq 4..7 /\ (4 \in S \/ 5 \in S) BY <2>3
  <2>4. CASE S \subseteq 6..7
    <3>1. CASE 6 \in S BY <2>4, <3>1
    <3>2. CASE 6 \notin S
      <4>1. PICK x \in S : TRUE OBVIOUS
      <4>2. \A y \in S : y = 7 BY <2>4, <3>2
      <4> QED BY <4>1, <4>2
    <3> QED BY <3>1, <3>2
  <2>5. S \subseteq 4..7 \/ 0 \in S \/ 1 \in S \/ 2 \in S \/ 3 \in S OBVIOUS
  <2>6. S \subseteq 4..7 => S \subseteq 6..7 \/ 4 \in S \/ 5 \in S OBVIOUS
  <2> QED BY <2>1, <2>2, <2>3, <2>4, <2>5, <2>6
<1> QED BY <1>1 DEF Min
-----------------------------------------------------------------------------
(* The invariant, as a predicate of the object.  Sound says what holds     *)
(* throughout a handler: beside the properties themselves, that the        *)
(* settings belong to a sensor of a known protocol, that they are gone     *)
(* while the meter is being identified (so createSettings finds none), and *)
(* that Wait always starts at command 0.                                   *)
KnownProtocol(u) == u.protocol \in Protocols \ {"Unknown"}

Sound(u) ==
    /\ u \in Updaters
    /\ u.request.op = "read" => u.request.arg > 0
    /\ u.settings = "none" <=> u.connection \in {"Disconnected", "Searched"}
    /\ u.settings # "none" => KnownProtocol(u)
    /\ u.state \in (IdentifyStates \ {"DeviceId"}) \cup {"WaitForStart"} => KnownProtocol(u)
    /\ u.state \in IdentifyStates \cup {"WaitOnConnectionLost"} => u.settings = "none"
    /\ u.state = "Wait" => u.commandIndex = 0
    /\ u.timeoutCount <= MaxTimeoutCount
    /\ u.errorCount <= MaxErrorCount

(* What a handler starts from: the answer or the timeout has been consumed.*)
Free(u) == u.request.op = "none" /\ ~u.timer

(* What it must end with: OneActivity, as a predicate of the object.       *)
Busy(u) ==
    u.fault = "none" =>
        /\ ~(u.request.op # "none" /\ u.timer)
        /\ u.state = "WaitForStart" => u.request.op = "none" /\ ~u.timer
        /\ \/ u.request.op # "none"
           \/ u.timer
           \/ u.state = "WaitForStart"
           \/ u.state = "WaitOnConnectionLost" /\ u.protocol = "Unknown"

Post(u) == Sound(u) /\ Busy(u)

(* A read request ends a handler properly, in every state that is not      *)
(* waiting for the settings.                                               *)
LEMMA ReadPosts ==
    ASSUME NEW u, Sound(u), Free(u), u.state # "WaitForStart",
           NEW reg \in Nat, NEW count \in Nat \ {0}
    PROVE  Post(readRegisters(u, reg, count))
BY DEF Post, Sound, Free, Busy, readRegisters, Updaters, Requests, KnownProtocol

(* So does a write request.                                                *)
LEMMA WritePosts ==
    ASSUME NEW u, Sound(u), Free(u), u.state # "WaitForStart",
           NEW reg \in Nat, NEW value \in Nat
    PROVE  Post(writeRegister(u, reg, value))
BY DEF Post, Sound, Free, Busy, writeRegister, Updaters, Requests, KnownProtocol

(* So does starting the acquisition timer.                                 *)
LEMMA TimerPosts ==
    ASSUME NEW u, Sound(u), Free(u), u.state # "WaitForStart"
    PROVE  Post(startTimer(u))
<1>1. startTimer(u) \in Updaters BY DEF Sound, startTimer, Updaters
<1>2. startTimer(u) = [u EXCEPT !.timer = TRUE] BY DEF startTimer
<1> QED BY <1>1, <1>2 DEF Post, Sound, Free, Busy, Updaters, NoRequest, KnownProtocol

(* A handler that the process does not survive leaves nothing to be kept.  *)
LEMMA FaultPosts ==
    ASSUME NEW u, Sound(u), NEW fault \in {"nullSettings", "assert"}
    PROVE  Post([u EXCEPT !.fault = fault])
BY DEF Post, Sound, Busy, Updaters, KnownProtocol

-----------------------------------------------------------------------------
(* Acquisition.                                                            *)
(* There is a table for each protocol and mode, so mCommands is never null *)
(* when measuring.                                                         *)
LEMMA TableSelected ==
    ASSUME NEW protocol \in Protocols \ {"Unknown"}, NEW mode \in Modes
    PROVE  TableOf(protocol, mode) \in TableNames
BY DEF TableOf, TableNames, Tables, Protocols, Modes

(* A due command is within its table, and reads at least one register.     *)
LEMMA DueCommandReadable ==
    ASSUME NEW u, u.table \in TableNames, u.commandIndex \in Nat, NEW k \in DueNow(u)
    PROVE  /\ k \in 0..7
           /\ CommandAt(u.table, k).reg \in Nat
           /\ CommandAt(u.table, k).count \in Nat \ {0}
<1>1. Readable(Tables[u.table]) BY TablesReadable
<1>2. k \in u.commandIndex .. Len(Tables[u.table]) - 1 BY DEF DueNow, DueCommands
<1>3. k \in 0..7 /\ k + 1 \in 1 .. Len(Tables[u.table])
  <2> DEFINE n == Len(Tables[u.table])
  <2>1. n \in 1..8 BY <1>1 DEF Readable
  <2>2. k \in u.commandIndex .. n - 1 BY <1>2
  <2> HIDE DEF n
  <2>3. k \in 0..7 /\ k + 1 \in 1..n BY <2>1, <2>2
  <2> QED BY <2>3 DEF n
<1> QED BY <1>1, <1>3 DEF Readable, CommandAt

(* Command 0 is due in every round: the recursion of startNextAction from  *)
(* Wait ends after one step.                                               *)
LEMMA FirstCommandDue ==
    ASSUME NEW u, u.table \in TableNames, u.commandIndex = 0
    PROVE  DueNow(u) # {}
<1>1. Readable(Tables[u.table]) BY TablesReadable
<1>2. 0 \in 0 .. Len(Tables[u.table]) - 1 BY <1>1 DEF Readable
<1>3. CommandAt(u.table, 0).interval = 0 BY <1>1 DEF Readable, CommandAt
<1>4. 0 \in DueNow(u) BY <1>2, <1>3 DEF DueNow, DueCommands
<1> QED BY <1>4

(* Reading the next due command ends a handler properly.                   *)
LEMMA NextCommandPosts ==
    ASSUME NEW u, Sound(u), Free(u), u.state = "Acquisition",
           u.table \in TableNames, DueNow(u) # {}
    PROVE  Post(readNextCommand(u))
<1> DEFINE next == Min(DueNow(u))
           v == [u EXCEPT !.commandIndex = next]
<1>1. u.commandIndex \in Nat BY DEF Sound, Updaters
<1>2. DueNow(u) \in SUBSET (0..7) BY <1>1, DueCommandReadable
<1>3. next \in DueNow(u) BY <1>2, SmallestCommand
<1>4. /\ next \in Nat
      /\ CommandAt(u.table, next).reg \in Nat
      /\ CommandAt(u.table, next).count \in Nat \ {0}
  BY <1>1, <1>3, DueCommandReadable
<1>5. Sound(v) /\ Free(v) /\ v.state = "Acquisition"
  <2> HIDE DEF next
  <2> QED BY <1>4 DEF Sound, Free, Updaters, KnownProtocol
<1>6. readNextCommand(u) =
        readRegisters(v, CommandAt(u.table, next).reg, CommandAt(u.table, next).count)
  BY DEF readNextCommand
<1> HIDE DEF v, next
<1> QED BY <1>4, <1>5, <1>6, ReadPosts

(* Selecting the table changes nothing but the table.                      *)
LEMMA CommandsSelected ==
    ASSUME NEW u, Sound(u), Free(u), u.settings # "none"
    PROVE  /\ Sound(selectCommands(u))
           /\ Free(selectCommands(u))
           /\ selectCommands(u).table \in TableNames
           /\ selectCommands(u).state = u.state
           /\ selectCommands(u).settings = u.settings
           /\ selectCommands(u).commandIndex = u.commandIndex
<1>1. u.protocol \in Protocols \ {"Unknown"} /\ u.settings \in Modes
  BY DEF Sound, KnownProtocol, Updaters
<1>2. TableOf(u.protocol, u.settings) \in TableNames BY <1>1, TableSelected
<1> QED BY <1>2 DEF selectCommands, Sound, Free, Updaters, KnownProtocol

(* After a round the updater starts its timer or reads the first command.  *)
LEMMA WaitPosts ==
    ASSUME NEW u, Sound(u), Free(u), u.state = "Wait", NEW overrun
    PROVE  Post(waitForNextRound(u, overrun))
<1> DEFINE v == [u EXCEPT !.state = "Acquisition"]
<1>1. CASE ~(SupportFastloop(u.protocol) \/ overrun)
  BY <1>1, TimerPosts DEF waitForNextRound
<1>2. CASE (SupportFastloop(u.protocol) \/ overrun) /\ u.settings = "none"
  <2>1. waitForNextRound(u, overrun) = [u EXCEPT !.fault = "nullSettings"]
    BY <1>2 DEF waitForNextRound, WithSettings
  <2> QED BY <2>1, FaultPosts
<1>3. CASE (SupportFastloop(u.protocol) \/ overrun) /\ u.settings # "none"
  <2>1. Sound(v) /\ Free(v) /\ v.state = "Acquisition" /\ v.settings # "none" /\ v.commandIndex = 0
    BY <1>3 DEF Sound, Free, Updaters, KnownProtocol, States, MeasureStates, IdentifyStates
  <2>2. waitForNextRound(u, overrun) = readNextCommand(selectCommands(v))
    BY <1>3 DEF waitForNextRound, WithSettings
  <2> HIDE DEF v
  <2>3. /\ Sound(selectCommands(v)) /\ Free(selectCommands(v))
        /\ selectCommands(v).table \in TableNames
        /\ selectCommands(v).state = "Acquisition"
        /\ selectCommands(v).commandIndex = 0
    BY <2>1, CommandsSelected
  <2>4. DueNow(selectCommands(v)) # {} BY <2>3, FirstCommandDue
  <2> QED BY <2>2, <2>3, <2>4, NextCommandPosts
<1> QED BY <1>1, <1>2, <1>3

(* The end of a round leads to Wait with command index 0, and may make the *)
(* sensor Connected.                                                       *)
LEMMA RoundEnds ==
    ASSUME NEW u, Sound(u), Free(u), u.settings # "none"
    PROVE  Sound(endRound(u)) /\ Free(endRound(u)) /\ endRound(u).state = "Wait"
<1> DEFINE v == endRound(u)
<1>1. u.acquisitionIndex + 1 \in Nat BY DEF Sound, Updaters
<1>2. v \in Updaters
  BY <1>1, ZenonT(40) DEF endRound, Sound, Updaters, States, MeasureStates, ConnectionStates
<1>3. /\ v.state = "Wait" /\ v.commandIndex = 0
      /\ v.settings = u.settings /\ v.protocol = u.protocol
      /\ v.connection \in {u.connection, "Connected"}
      /\ v.timeoutCount = u.timeoutCount /\ v.errorCount = u.errorCount
      /\ v.request = u.request /\ v.timer = u.timer
  BY DEF endRound, Sound, Updaters
<1> HIDE DEF v
<1>4. Sound(v) /\ Free(v) BY <1>2, <1>3 DEF Sound, Free, KnownProtocol, IdentifyStates
<1> QED BY <1>3, <1>4 DEF v

(* In state Acquisition a command is read, or the round ends.              *)
LEMMA AcquisitionPosts ==
    ASSUME NEW u, Sound(u), Free(u), u.state = "Acquisition", u.settings # "none",
           u.table \in TableNames, NEW overrun
    PROVE  Post(startNextAcquisition(u, overrun))
<1>1. CASE DueNow(u) # {} BY <1>1, NextCommandPosts DEF startNextAcquisition
<1>2. CASE DueNow(u) = {} BY <1>2, RoundEnds, WaitPosts DEF startNextAcquisition
<1> QED BY <1>1, <1>2

-----------------------------------------------------------------------------
(* The next action.                                                        *)
(* When the settings are created the sensor is Detected, and it has a      *)
(* protocol that is known.                                                 *)
LEMMA SettingsCreated ==
    ASSUME NEW u, Sound(u), Free(u), u.state = "WaitForStart"
    PROVE  Post(createSettings(u))
<1> DEFINE v == [u EXCEPT
            !.settings = IF SupportMultiphase(u.protocol) THEN "multi" ELSE "single",
            !.setupRequested = SupportMultiphase(u.protocol) \/ u.setupRequested,
            !.connection = "Detected"]
<1>1. CASE u.settings # "none"
  <2>1. createSettings(u) = [u EXCEPT !.fault = "assert"]
    BY <1>1 DEF createSettings, Asserting
  <2> QED BY <2>1, FaultPosts
<1>2. CASE u.settings = "none"
  <2>1. createSettings(u) = v BY <1>2 DEF createSettings, Asserting
  <2>2. (SupportMultiphase(u.protocol) \/ u.setupRequested) \in BOOLEAN
    BY DEF SupportMultiphase
  <2>3. v \in Updaters BY <2>2, ZenonT(40) DEF Sound, Updaters, Modes, ConnectionStates
  <2>4. /\ v.state = "WaitForStart" /\ v.settings # "none" /\ v.connection = "Detected"
        /\ v.protocol = u.protocol /\ v.request.op = "none" /\ ~v.timer
        /\ v.timeoutCount = u.timeoutCount /\ v.errorCount = u.errorCount
    BY <2>3 DEF Sound, Free, Updaters
  <2>5. KnownProtocol(u) BY DEF Sound
  <2> HIDE DEF v
  <2> QED BY <2>1, <2>3, <2>4, <2>5
          DEF Post, Sound, Busy, NoRequest, KnownProtocol, IdentifyStates
<1> QED BY <1>1, <1>2

(* What startNextAction does in a state ends a handler properly, for each  *)
(* of the states.                                                          *)
LEMMA ActionPosts ==
    ASSUME NEW u, Sound(u), Free(u), NEW overrun
    PROVE  Post(actInState(u, overrun))
<1> DEFINE v == actInState(u, overrun)
<1>0. u.state \in States BY DEF Sound, Updaters
<1>a. /\ u.desiredMeasuringSystem \in Nat
      /\ \A protocol, mode : DesiredMode(protocol, mode) \in Nat
  BY DEF Sound, Updaters, DesiredMode, MeasurementModeB, MeasurementModeC
<1>1. CASE u.state = "DeviceId"
  <2> DEFINE w == [u EXCEPT !.connection = "Searched"]
  <2>1. Sound(w) /\ Free(w) /\ w.state = "DeviceId"
    BY <1>1 DEF Sound, Free, Updaters, ConnectionStates, KnownProtocol, IdentifyStates
  <2>2. v = readRegisters(w, RegDeviceId, 1) BY <1>1 DEF actInState
  <2> HIDE DEF w
  <2>3. RegDeviceId \in Nat BY DEF RegDeviceId
  <2> QED BY <2>1, <2>2, <2>3, ReadPosts
<1>2. CASE u.state \in {"Serial", "FirmwareVersion", "PhaseSequence", "PhaseReverseEnergy",
                        "CheckSetup", "CheckFrontSelector", "CheckMeasurementMode",
                        "CheckMeasurementSystem"}
  <2> DEFINE Reads(reg, count) == v = readRegisters(u, reg, count)
  <2>1. ASSUME u.state = "Serial" PROVE \E reg \in Nat : Reads(reg, 7)
    BY <2>1 DEF actInState, RegEm24Serial, RegEm112Serial
  <2>2. ASSUME u.state = "FirmwareVersion" PROVE \E reg \in Nat : Reads(reg, 1)
    BY <2>2 DEF actInState, RegAltFirmwareVersion, RegFirmwareVersion
  <2>3. ASSUME u.state = "PhaseSequence" PROVE \E reg \in Nat : Reads(reg, 1)
    <3> DEFINE reg == CASE u.protocol = "Em24"  -> RegEm24PhaseSequence
                        [] u.protocol = "Em540" -> RegEm540PhaseSequence
                        [] OTHER                -> RegEm300PhaseSequence
    <3>1. reg \in Nat
      BY DEF RegEm24PhaseSequence, RegEm540PhaseSequence, RegEm300PhaseSequence
    <3>2. Reads(reg, 1) BY <2>3 DEF actInState
    <3> QED BY <3>1, <3>2
  <2>4. ASSUME u.state = "PhaseReverseEnergy" PROVE \E reg \in Nat : Reads(reg, 2)
    BY <2>4 DEF actInState, RegPhaseReverseEnergy
  <2>5. ASSUME u.state = "CheckSetup" PROVE \E reg \in Nat : Reads(reg, 2)
    BY <2>5 DEF actInState, RegApplication
  <2>6. ASSUME u.state = "CheckFrontSelector" PROVE \E reg \in Nat : Reads(reg, 1)
    BY <2>6 DEF actInState, RegEm24FrontSelector
  <2>7. ASSUME u.state = "CheckMeasurementMode" PROVE \E reg \in Nat : Reads(reg, 1)
    BY <2>7 DEF actInState, RegEm112MeasurementMode
  <2>8. ASSUME u.state = "CheckMeasurementSystem" PROVE \E reg \in Nat : Reads(reg, 1)
    BY <2>8 DEF actInState, RegMeasurementSystem, RegEm300MeasurementSystem
  <2>9. \E reg \in Nat, count \in {1, 2, 7} : Reads(reg, count)
    BY <1>2, <2>1, <2>2, <2>3, <2>4, <2>5, <2>6, <2>7, <2>8
  <2> QED BY <1>2, <2>9, ReadPosts
<1>3. CASE u.state \in {"SetApplication", "SetMeasuringSystem", "SetMeasurementMode"}
  <2> DEFINE Writes(reg, value) == v = writeRegister(u, reg, value)
  <2>1. ASSUME u.state = "SetApplication"
        PROVE  \E reg \in Nat, value \in Nat : Writes(reg, value)
    BY <2>1 DEF actInState, RegApplication, ApplicationH
  <2>2. ASSUME u.state = "SetMeasuringSystem"
        PROVE  \E reg \in Nat, value \in Nat : Writes(reg, value)
    BY <2>2, <1>a DEF actInState, RegMeasurementSystem, RegEm300MeasurementSystem
  <2>3. ASSUME u.state = "SetMeasurementMode"
        PROVE  \/ \E reg \in Nat, value \in Nat : Writes(reg, value)
               \/ v = [u EXCEPT !.fault = "nullSettings"]
    BY <2>3, <1>a DEF actInState, WithSettings, RegEm112MeasurementMode, MeasurementModeB
  <2> QED BY <1>3, <2>1, <2>2, <2>3, WritePosts, FaultPosts
<1>4. CASE u.state \in {"WaitFrontSelector", "WaitOnConnectionLost"}
  <2>1. v = startTimer(u) BY <1>4 DEF actInState
  <2> QED BY <1>4, <2>1, TimerPosts
<1>5. CASE u.state = "WaitForStart"
  <2>1. v = createSettings(u) BY <1>5 DEF actInState
  <2> QED BY <1>5, <2>1, SettingsCreated
<1>6. CASE u.state = "Acquisition"
  <2>1. v = WithSettings(u, startNextAcquisition(selectCommands(u), overrun))
    BY <1>6 DEF actInState
  <2>2. CASE u.settings = "none"
    BY <2>1, <2>2, FaultPosts DEF WithSettings
  <2>3. CASE u.settings # "none"
    BY <1>6, <2>1, <2>3, CommandsSelected, AcquisitionPosts DEF WithSettings
  <2> QED BY <2>2, <2>3
<1>7. CASE u.state = "Wait"
  <2>1. v = waitForNextRound(u, overrun) BY <1>7 DEF actInState
  <2> QED BY <1>7, <2>1, WaitPosts
<1> QED BY <1>0, <1>1, <1>2, <1>3, <1>4, <1>5, <1>6, <1>7
        DEF States, IdentifyStates, SetupStates, MeasureStates

(* startNextAction as a whole: a requested setup may move the state to the *)
(* first one of the setup.                                                 *)
LEMMA NextActionPosts ==
    ASSUME NEW u, Sound(u), Free(u), NEW overrun
    PROVE  Post(startNextAction(u, overrun))
<1>1. CASE ~u.setupRequested BY <1>1, ActionPosts DEF startNextAction
<1>2. CASE u.setupRequested
  <2> DEFINE v == [u EXCEPT !.setupRequested = FALSE, !.state = SetupState(u)]
  <2>1. SetupState(u) \in {u.state, "CheckSetup", "CheckMeasurementMode"}
    BY DEF SetupState
  <2>2. SetupState(u) \in States BY <2>1 DEF Sound, Updaters, States, SetupStates
  <2>4. v \in Updaters BY <2>2 DEF Sound, Updaters
  <2>5. v.state \in {u.state, "CheckSetup", "CheckMeasurementMode"} BY <2>1 DEF Sound, Updaters
  <2>6. Sound(v) /\ Free(v)
    BY <2>4, <2>5 DEF Sound, Free, KnownProtocol, IdentifyStates, Updaters
  <2>3. startNextAction(u, overrun) = actInState(v, overrun) BY <1>2 DEF startNextAction
  <2> HIDE DEF v
  <2> QED BY <2>6, <2>3, ActionPosts
<1> QED BY <1>1, <1>2

-----------------------------------------------------------------------------
(* The handlers.                                                           *)
(* disconnectSensor deletes the settings and disconnects the sensor in one *)
(* go, and leaves it to its caller to start an action.                     *)
LEMMA DisconnectSound ==
    ASSUME NEW u, Sound(u), Free(u)
    PROVE  /\ Sound(disconnectSensor(u))
           /\ Free(disconnectSensor(u))
           /\ disconnectSensor(u).state = "WaitOnConnectionLost"
           /\ disconnectSensor(u).protocol = u.protocol
<1> DEFINE v == disconnectSensor(u)
<1>1. v \in Updaters
  BY UpdaterAssumption, ZenonT(40) DEF Sound, disconnectSensor, Updaters, States, ConnectionStates
<1>2. /\ v.state = "WaitOnConnectionLost" /\ v.settings = "none"
      /\ v.connection = "Disconnected"
      /\ v.timeoutCount = MaxTimeoutCount /\ v.errorCount = MaxErrorCount
      /\ v.request = u.request /\ v.timer = u.timer /\ v.protocol = u.protocol
  BY DEF Sound, disconnectSensor, Updaters
<1> HIDE DEF v
<1> QED BY <1>1, <1>2, UpdaterAssumption DEF Sound, Free, KnownProtocol, IdentifyStates, v

(* onErrorReceived either counts the failure, which keeps the counters     *)
(* within their limits, or gives the sensor up.                            *)
LEMMA ErrorPosts ==
    ASSUME NEW u, Sound(u), Free(u), NEW error, NEW overrun
    PROVE  Post(onErrorReceived(u, error, overrun))
<1> DEFINE v == WithoutReverse(u)
<1>1. Sound(v) /\ Free(v)
  <2>1. CASE u.state # "PhaseReverseEnergy" BY <2>1 DEF WithoutReverse
  <2>2. CASE u.state = "PhaseReverseEnergy"
    <3>1. v = [u EXCEPT !.protocol = "Em300", !.state = "Serial"] BY <2>2 DEF WithoutReverse
    <3>2. v \in Updaters
      BY <3>1, ZenonT(40) DEF Sound, Updaters, InitialProtocols, Protocols, States, IdentifyStates
    <3> QED BY <2>2, <3>1, <3>2
            DEF Sound, Free, Updaters, KnownProtocol, Protocols, IdentifyStates
  <2> QED BY <2>1, <2>2
<1> HIDE DEF v
<1>2. CASE Exhausted(v)
  <2>1. onErrorReceived(u, error, overrun) = startNextAction(disconnectSensor(v), overrun)
    BY <1>2 DEF onErrorReceived, v
  <2> QED BY <1>1, <2>1, DisconnectSound, NextActionPosts
<1>3. CASE ~Exhausted(v)
  <2>1. onErrorReceived(u, error, overrun) = startNextAction(countFailure(v, error), overrun)
    BY <1>3 DEF onErrorReceived, v
  <2>2. v.timeoutCount + 1 <= MaxTimeoutCount /\ v.errorCount + 1 <= MaxErrorCount
    BY <1>1, <1>3, UpdaterAssumption DEF Sound, Updaters, Exhausted
  <2>3. Sound(countFailure(v, error)) /\ Free(countFailure(v, error))
    BY <1>1, <2>2 DEF countFailure, Sound, Free, Updaters, KnownProtocol
  <2> QED BY <2>1, <2>3, NextActionPosts
<1> QED BY <1>2, <1>3

(* A success resets the counters before the next action.                   *)
LEMMA CountersReset ==
    ASSUME NEW u, Sound(u), Free(u), NEW overrun
    PROVE  Post(startNextAction([u EXCEPT !.timeoutCount = 0, !.errorCount = 0], overrun))
<1> DEFINE v == [u EXCEPT !.timeoutCount = 0, !.errorCount = 0]
<1>1. v \in Updaters BY DEF Sound, Updaters
<1>2. /\ v.timeoutCount = 0 /\ v.errorCount = 0 /\ v.state = u.state
      /\ v.settings = u.settings /\ v.connection = u.connection /\ v.protocol = u.protocol
      /\ v.request = u.request /\ v.timer = u.timer /\ v.commandIndex = u.commandIndex
  BY DEF Sound, Updaters
<1>3. Sound(v) /\ Free(v)
  <2> HIDE DEF v
  <2> QED BY <1>1, <1>2, UpdaterAssumption DEF Sound, Free, KnownProtocol
<1>4. Post(startNextAction(v, overrun))
  <2> HIDE DEF v
  <2> QED BY <1>3, NextActionPosts
<1> QED BY <1>4

(* What a reply leaves behind before the next action.                      *)
Accepted(v) == Sound(v) /\ (v.fault = "none" => Free(v))

(* A failed assertion or a null pointer.                                   *)
LEMMA FaultAccepted ==
    ASSUME NEW u, Sound(u), NEW fault \in {"nullSettings", "assert"}
    PROVE  Accepted([u EXCEPT !.fault = fault])
BY DEF Accepted, Sound, Updaters, KnownProtocol

(* Moving on to a state of the setup, or to Acquisition, is sound whatever *)
(* other members of the object change.                                     *)
LEMMA MemberAccepted ==
    ASSUME NEW u, Sound(u), Free(u), NEW v \in Updaters,
           v.state \in SetupStates \cup {"Acquisition"},
           v.settings = u.settings, v.connection = u.connection, v.protocol = u.protocol,
           v.timeoutCount = u.timeoutCount, v.errorCount = u.errorCount,
           v.request = u.request, v.timer = u.timer
    PROVE  Accepted(v)
BY DEF Accepted, Sound, Free, KnownProtocol, SetupStates, IdentifyStates

(* The same where the state is all that changes.                           *)
LEMMA StateAccepted ==
    ASSUME NEW u, Sound(u), Free(u),
           NEW state \in SetupStates \cup {"Acquisition"}
    PROVE  Accepted([u EXCEPT !.state = state])
BY DEF Accepted, Sound, Free, Updaters, KnownProtocol, States, SetupStates, MeasureStates,
       IdentifyStates

(* The device type determines the protocol, and only a known protocol      *)
(* leads on from DeviceId.                                                 *)
LEMMA DeviceIdAccepted ==
    ASSUME NEW u, Sound(u), Free(u), u.state = "DeviceId", NEW type \in Nat
    PROVE  LET v == setDeviceType(u, type)
           IN  Accepted([v EXCEPT !.state = AfterDeviceId(v)])
<1> DEFINE v == setDeviceType(u, type)
           w == [v EXCEPT !.state = AfterDeviceId(v)]
<1>1. ProtocolOf(type) \in Protocols BY DEF ProtocolOf, Protocols
<1>2. v \in Updaters /\ v.settings = "none"
  BY <1>1 DEF setDeviceType, Sound, Updaters, InitialProtocols, IdentifyStates
<1>3. /\ v.connection = u.connection /\ v.request = u.request /\ v.timer = u.timer
      /\ v.timeoutCount = u.timeoutCount /\ v.errorCount = u.errorCount
  BY DEF setDeviceType, Sound, Updaters
<1> HIDE DEF v
<1>4. v.protocol \in InitialProtocols BY <1>2 DEF Updaters
<1>5. /\ AfterDeviceId(v) \in {"PhaseReverseEnergy", "Serial", "DeviceId"}
      /\ AfterDeviceId(v) # "DeviceId" => KnownProtocol(v)
  BY <1>4 DEF AfterDeviceId, InitialProtocols, Protocols, KnownProtocol
<1>6. w \in Updaters BY <1>2, <1>5 DEF Updaters, States, IdentifyStates
<1>7. Accepted(w)
  BY <1>2, <1>3, <1>5, <1>6 DEF Accepted, Sound, Free, Updaters, KnownProtocol, IdentifyStates
<1> QED BY <1>7 DEF v

(* The replies of the setup.                                               *)
LEMMA SetupAccepted ==
    ASSUME NEW u, Sound(u), Free(u), NEW registers \in Seq(Nat), Len(registers) > 0
    PROVE  /\ Accepted(checkSetup(u, registers))
           /\ Accepted(checkFrontSelector(u, registers))
           /\ Accepted(checkMeasurementMode(u, registers))
           /\ Accepted(checkMeasurementSystem(u, registers))
<1>0. \A i \in 1..Len(registers) : registers[i] \in Nat OBVIOUS
<1>1. Accepted(checkSetup(u, registers))
  <2> DEFINE desired == DesiredApplicationSystem(u.settings)
             state == IF registers[1] = ApplicationH /\ registers[2] = desired
                      THEN "Acquisition" ELSE "CheckFrontSelector"
             v == [u EXCEPT !.application = registers[1], !.measuringSystem = registers[2],
                            !.desiredMeasuringSystem = desired, !.state = state]
  <2>1. CASE Len(registers) # 2
    <3>1. checkSetup(u, registers) = [u EXCEPT !.fault = "assert"]
      BY <2>1 DEF checkSetup, Asserting
    <3> QED BY <3>1, FaultAccepted
  <2>2. CASE Len(registers) = 2 /\ u.settings = "none"
    <3>1. checkSetup(u, registers) = [u EXCEPT !.fault = "nullSettings"]
      BY <2>2 DEF checkSetup, Asserting, WithSettings
    <3> QED BY <3>1, FaultAccepted
  <2>3. CASE Len(registers) = 2 /\ u.settings # "none"
    <3>1. checkSetup(u, registers) = v BY <2>3 DEF checkSetup, Asserting, WithSettings
    <3>2. registers[1] \in Nat /\ registers[2] \in Nat BY <1>0, <2>3
    <3>3. desired \in Nat
      BY DEF DesiredApplicationSystem, MeasurementSystemP1, MeasurementSystemP3
    <3>4. state \in {"Acquisition", "CheckFrontSelector"} OBVIOUS
    <3> HIDE DEF desired, state
    <3>5. v \in Updaters
      BY <3>2, <3>3, <3>4 DEF Sound, Updaters, States, SetupStates, MeasureStates
    <3>6. /\ v.state = state
          /\ v.settings = u.settings /\ v.connection = u.connection /\ v.protocol = u.protocol
          /\ v.timeoutCount = u.timeoutCount /\ v.errorCount = u.errorCount
          /\ v.request = u.request /\ v.timer = u.timer
      BY DEF Sound, Updaters
    <3>7. v.state \in SetupStates \cup {"Acquisition"} BY <3>4, <3>6 DEF SetupStates
    <3> HIDE DEF v
    <3> QED BY <3>1, <3>5, <3>6, <3>7, MemberAccepted
  <2> QED BY <2>1, <2>2, <2>3
<1>2. Accepted(checkFrontSelector(u, registers))
  <2> DEFINE v == checkFrontSelector(u, registers)
  <2>1. \E code \in {0, 1}, state \in SetupStates \cup {"Acquisition"} :
           v = [u EXCEPT !.state = state, !.errorCode = code]
    BY DEF checkFrontSelector, SetupStates
  <2>2. PICK code \in {0, 1}, state \in SetupStates \cup {"Acquisition"} :
           v = [u EXCEPT !.state = state, !.errorCode = code]
    BY <2>1
  <2> HIDE DEF v
  <2>3. v \in Updaters
    BY <2>2, ZenonT(40) DEF Sound, Updaters, States, SetupStates, MeasureStates
  <2>4. /\ v.state = state
        /\ v.settings = u.settings /\ v.connection = u.connection /\ v.protocol = u.protocol
        /\ v.timeoutCount = u.timeoutCount /\ v.errorCount = u.errorCount
        /\ v.request = u.request /\ v.timer = u.timer
    BY <2>2 DEF Sound, Updaters
  <2>5. Accepted(v) BY <2>3, <2>4, MemberAccepted
  <2> QED BY <2>5 DEF v
<1>a. AfterMeasurementMode(u) \in SetupStates \cup {"Acquisition"}
  BY DEF AfterMeasurementMode, SetupStates
<1>3. Accepted(checkMeasurementMode(u, registers))
  <2>1. \/ \E fault \in {"nullSettings", "assert"} :
              checkMeasurementMode(u, registers) = [u EXCEPT !.fault = fault]
        \/ \E state \in SetupStates \cup {"Acquisition"} :
              checkMeasurementMode(u, registers) = [u EXCEPT !.state = state]
    BY <1>a DEF checkMeasurementMode, Asserting, WithSettings, SetupStates
  <2>2. CASE \E fault \in {"nullSettings", "assert"} :
                checkMeasurementMode(u, registers) = [u EXCEPT !.fault = fault]
    BY <2>2, FaultAccepted
  <2>3. CASE \E state \in SetupStates \cup {"Acquisition"} :
                checkMeasurementMode(u, registers) = [u EXCEPT !.state = state]
    <3>1. PICK state \in SetupStates \cup {"Acquisition"} :
             checkMeasurementMode(u, registers) = [u EXCEPT !.state = state]
      BY <2>3
    <3>2. Accepted([u EXCEPT !.state = state]) BY StateAccepted
    <3> QED BY <3>1, <3>2
  <2> QED BY <2>1, <2>2, <2>3
<1>4. Accepted(checkMeasurementSystem(u, registers))
  <2> DEFINE desired == DesiredSystem(u.protocol, u.settings)
  <2>1. \/ \E fault \in {"nullSettings", "assert"} :
              checkMeasurementSystem(u, registers) = [u EXCEPT !.fault = fault]
        \/ \E state \in SetupStates \cup {"Acquisition"} :
              checkMeasurementSystem(u, registers) =
                 [u EXCEPT !.desiredMeasuringSystem = desired, !.state = state]
    BY DEF checkMeasurementSystem, Asserting, WithSettings, SetupStates
  <2>2. desired \in Nat BY DEF DesiredSystem, MeasurementSystemP2, MeasurementSystemP3
  <2> HIDE DEF desired
  <2>3. ASSUME NEW state \in SetupStates \cup {"Acquisition"}
        PROVE  Accepted([u EXCEPT !.desiredMeasuringSystem = desired, !.state = state])
    <3> DEFINE v == [u EXCEPT !.desiredMeasuringSystem = desired, !.state = state]
    <3>1. v \in Updaters BY <2>2 DEF Sound, Updaters, States, SetupStates, MeasureStates
    <3>2. /\ v.state = state
          /\ v.settings = u.settings /\ v.connection = u.connection /\ v.protocol = u.protocol
          /\ v.timeoutCount = u.timeoutCount /\ v.errorCount = u.errorCount
          /\ v.request = u.request /\ v.timer = u.timer
      BY DEF Sound, Updaters
    <3>3. Accepted(v)
      <4> HIDE DEF v
      <4> QED BY <3>1, <3>2, MemberAccepted
    <3> QED BY <3>3
  <2>4. CASE \E fault \in {"nullSettings", "assert"} :
                checkMeasurementSystem(u, registers) = [u EXCEPT !.fault = fault]
    BY <2>4, FaultAccepted
  <2> QED BY <2>1, <2>3, <2>4
<1> QED BY <1>1, <1>2, <1>3, <1>4

(* A reply to a read is accepted soundly in every state, those that expect *)
(* none included: the proof does not assume that the reply answers the     *)
(* request.                                                                *)
LEMMA ReadAccepted ==
    ASSUME NEW u, Sound(u), Free(u), NEW registers \in Seq(Nat), Len(registers) > 0
    PROVE  Accepted(acceptRead(u, registers))
<1> DEFINE v == acceptRead(u, registers)
<1>0. u.state \in States BY DEF Sound, Updaters
<1>1. CASE u.state = "DeviceId"
  <2>1. registers[1] \in Nat OBVIOUS
  <2> QED BY <1>1, <2>1, DeviceIdAccepted DEF acceptRead
<1>2. CASE u.state \in IdentifyStates \ {"DeviceId"}
  <2>1. ASSUME NEW state \in {"Serial", "FirmwareVersion", "PhaseSequence", "WaitForStart"}
        PROVE  Accepted([u EXCEPT !.state = state])
    <3> DEFINE w == [u EXCEPT !.state = state]
    <3>1. w \in Updaters /\ w.state = state
      BY DEF Sound, Updaters, States, IdentifyStates
    <3>2. /\ w.settings = u.settings /\ w.connection = u.connection /\ w.protocol = u.protocol
          /\ w.timeoutCount = u.timeoutCount /\ w.errorCount = u.errorCount
          /\ w.request = u.request /\ w.timer = u.timer
      BY DEF Sound, Updaters
    <3>3. u.settings = "none" /\ KnownProtocol(u) BY <1>2 DEF Sound
    <3>4. Accepted(w)
      <4> HIDE DEF w
      <4> QED BY <3>1, <3>2, <3>3 DEF Accepted, Sound, Free, KnownProtocol
    <3> QED BY <3>4
  <2>2. \/ v = [u EXCEPT !.fault = "assert"]
        \/ \E state \in {"Serial", "FirmwareVersion", "PhaseSequence", "WaitForStart"} :
              v = [u EXCEPT !.state = state]
    BY <1>2 DEF acceptRead, Asserting, IdentifyStates
  <2>3. CASE v = [u EXCEPT !.fault = "assert"] BY <2>3, FaultAccepted
  <2>4. CASE \E state \in {"Serial", "FirmwareVersion", "PhaseSequence", "WaitForStart"} :
                v = [u EXCEPT !.state = state]
    BY <2>1, <2>4
  <2> QED BY <2>2, <2>3, <2>4
<1>3. CASE u.state \in {"CheckSetup", "CheckFrontSelector", "CheckMeasurementMode",
                        "CheckMeasurementSystem"}
  <2>1. v \in {checkSetup(u, registers), checkFrontSelector(u, registers),
               checkMeasurementMode(u, registers), checkMeasurementSystem(u, registers)}
    BY <1>3 DEF acceptRead
  <2> QED BY <2>1, SetupAccepted
<1>4. CASE u.state = "Acquisition"
  <2>1. v = processAcquisitionData(u, registers) BY <1>4 DEF acceptRead
  <2> DEFINE w == [u EXCEPT !.commandIndex = u.commandIndex + 1]
  <2>2. v \in {w, [u EXCEPT !.fault = "nullSettings"]}
    BY <2>1 DEF processAcquisitionData, WithSettings
  <2>3. w \in Updaters
    <3>1. u \in Updaters /\ u.commandIndex + 1 \in Nat BY DEF Sound, Updaters
    <3> QED BY <3>1 DEF Updaters
  <2>4. /\ w.state = "Acquisition"
        /\ w.settings = u.settings /\ w.connection = u.connection /\ w.protocol = u.protocol
        /\ w.timeoutCount = u.timeoutCount /\ w.errorCount = u.errorCount
        /\ w.request = u.request /\ w.timer = u.timer
    BY <1>4 DEF Sound, Updaters
  <2>5. Accepted(w)
    <3> HIDE DEF w
    <3> QED BY <2>3, <2>4, MemberAccepted
  <2> HIDE DEF w, v
  <2> QED BY <2>2, <2>5, FaultAccepted DEF v
<1>5. CASE u.state \in {"Wait", "WaitFrontSelector", "SetApplication", "SetMeasurementMode",
                        "SetMeasuringSystem", "WaitForStart", "WaitOnConnectionLost"}
  <2>1. CASE v = [u EXCEPT !.state = "Acquisition"]
    <3>1. Accepted([u EXCEPT !.state = "Acquisition"]) BY StateAccepted
    <3> QED BY <2>1, <3>1
  <2>2. CASE v = [u EXCEPT !.state = "DeviceId"] /\ u.settings = "none"
    <3> DEFINE w == [u EXCEPT !.state = "DeviceId"]
    <3>1. w \in Updaters /\ w.state = "DeviceId"
      BY DEF Sound, Updaters, States, IdentifyStates
    <3>2. /\ w.settings = u.settings /\ w.connection = u.connection /\ w.protocol = u.protocol
          /\ w.timeoutCount = u.timeoutCount /\ w.errorCount = u.errorCount
          /\ w.request = u.request /\ w.timer = u.timer
      BY DEF Sound, Updaters
    <3>3. Accepted(w)
      <4> HIDE DEF w
      <4> QED BY <2>2, <3>1, <3>2 DEF Accepted, Sound, Free, KnownProtocol, IdentifyStates
    <3> QED BY <2>2, <3>3
  <2>3. \/ v = [u EXCEPT !.state = "Acquisition"]
        \/ v = [u EXCEPT !.state = "DeviceId"] /\ u.settings = "none"
    BY <1>5 DEF acceptRead
  <2> QED BY <2>1, <2>2, <2>3
<1> QED BY <1>0, <1>1, <1>2, <1>3, <1>4, <1>5
        DEF States, IdentifyStates, SetupStates, MeasureStates

(* onReadCompleted: an unknown device is the one case in which nothing is  *)
(* started.                                                                *)
LEMMA ReadCompletedPosts ==
    ASSUME NEW u, Sound(u), Free(u), NEW registers \in Seq(Nat), Len(registers) > 0, NEW overrun
    PROVE  Post(onReadCompleted(u, registers, overrun))
<1> DEFINE v == acceptRead(u, registers)
           w == onReadCompleted(u, registers, overrun)
<1>1. Accepted(v) BY ReadAccepted
<1>2. CASE v.fault # "none"
  <2>1. w = v BY <1>2 DEF onReadCompleted
  <2> HIDE DEF v
  <2>2. Post(v) BY <1>1, <1>2 DEF Accepted, Post, Busy
  <2> QED BY <2>1, <2>2
<1>3. CASE v.fault = "none" /\ u.state = "DeviceId" /\ v.protocol = "Unknown"
  <2>1. w = disconnectSensor(v) BY <1>3 DEF onReadCompleted
  <2> HIDE DEF v
  <2>2. Sound(v) /\ Free(v) BY <1>1, <1>3 DEF Accepted
  <2>3. Post(disconnectSensor(v))
    BY <1>3, <2>2, DisconnectSound DEF Post, Busy, Free, NoRequest
  <2> QED BY <2>1, <2>3
<1>4. CASE v.fault = "none" /\ ~(u.state = "DeviceId" /\ v.protocol = "Unknown")
  <2> DEFINE next == startNextAction([v EXCEPT !.timeoutCount = 0, !.errorCount = 0], overrun)
  <2>1. w \in {onErrorReceived(u, "Timeout", overrun), next}
    BY <1>4 DEF onReadCompleted
  <2>2. Post(onErrorReceived(u, "Timeout", overrun)) BY ErrorPosts
  <2> HIDE DEF v
  <2>3. Sound(v) /\ Free(v) BY <1>1, <1>4 DEF Accepted
  <2>4. Post(next) BY <2>3, CountersReset
  <2> HIDE DEF next, w
  <2> QED BY <2>1, <2>2, <2>4 DEF w
<1> QED BY <1>2, <1>3, <1>4

(* onWriteCompleted, in every state and for every register and value.      *)
LEMMA WriteCompletedPosts ==
    ASSUME NEW u, Sound(u), Free(u), NEW reg, NEW value, NEW overrun
    PROVE  Post(onWriteCompleted(u, reg, value, overrun))
<1> DEFINE v == acceptWrite(u, reg, value)
<1>1. Accepted(v)
  <2>1. \/ v = [u EXCEPT !.fault = "assert"]
        \/ \E state \in SetupStates \cup {"Acquisition"} : v = [u EXCEPT !.state = state]
    BY DEF acceptWrite, Asserting, AfterMeasurementMode, RestartState, SetupStates
  <2>2. CASE v = [u EXCEPT !.fault = "assert"] BY <2>2, FaultAccepted
  <2>3. CASE \E state \in SetupStates \cup {"Acquisition"} : v = [u EXCEPT !.state = state]
    BY <2>3, StateAccepted
  <2> QED BY <2>1, <2>2, <2>3
<1> HIDE DEF v
<1>2. CASE v.fault # "none"
  <2>1. onWriteCompleted(u, reg, value, overrun) = v BY <1>2 DEF onWriteCompleted, v
  <2> QED BY <1>1, <1>2, <2>1 DEF Accepted, Post, Busy
<1>3. CASE v.fault = "none"
  <2>1. onWriteCompleted(u, reg, value, overrun) =
          startNextAction([v EXCEPT !.timeoutCount = 0, !.errorCount = 0], overrun)
    BY <1>3 DEF onWriteCompleted, v
  <2> QED BY <1>1, <1>3, <2>1, CountersReset DEF Accepted
<1> QED BY <1>2, <1>3

(* Moving to a state of the setup, or to Acquisition, and taking the next  *)
(* action there.                                                           *)
LEMMA StatePosts ==
    ASSUME NEW u, Sound(u), Free(u), NEW overrun,
           NEW state \in SetupStates \cup {"Acquisition"}
    PROVE  Post(startNextAction([u EXCEPT !.state = state], overrun))
<1> DEFINE v == [u EXCEPT !.state = state]
<1>1. Accepted(v) /\ v.fault = u.fault
  <2>1. Accepted(v) BY StateAccepted
  <2> QED BY <2>1 DEF Sound, Updaters
<1>2. v.request.op = "none" /\ ~v.timer
  <2>1. v.request = u.request /\ v.timer = u.timer BY DEF Sound, Updaters
  <2> HIDE DEF v
  <2> QED BY <2>1 DEF Free
<1>3. Post(startNextAction(v, overrun))
  <2> HIDE DEF v
  <2> QED BY <1>1, <1>2, NextActionPosts DEF Accepted, Free
<1> QED BY <1>3

(* onWaitFinished: only after the settings have been deleted does it lead  *)
(* back to DeviceId.                                                       *)
LEMMA WaitFinishedPosts ==
    ASSUME NEW u, Sound(u), Free(u), NEW overrun
    PROVE  Post(onWaitFinished(u, overrun))
<1>1. CASE u.state = "WaitOnConnectionLost"
  <2> DEFINE v == [u EXCEPT !.state = "DeviceId"]
  <2>1. v \in Updaters /\ v.state = "DeviceId"
    BY DEF Sound, Updaters, States, IdentifyStates
  <2>2. /\ v.settings = u.settings /\ v.connection = u.connection /\ v.protocol = u.protocol
        /\ v.timeoutCount = u.timeoutCount /\ v.errorCount = u.errorCount
        /\ v.request = u.request /\ v.timer = u.timer
    BY DEF Sound, Updaters
  <2>3. onWaitFinished(u, overrun) = startNextAction(v, overrun)
    BY <1>1 DEF onWaitFinished
  <2> HIDE DEF v
  <2>4. Sound(v) /\ Free(v)
    BY <1>1, <2>1, <2>2 DEF Sound, Free, KnownProtocol, IdentifyStates
  <2> QED BY <2>3, <2>4, NextActionPosts
<1>2. CASE u.state # "WaitOnConnectionLost"
  <2>1. \E state \in SetupStates \cup {"Acquisition"} :
           onWaitFinished(u, overrun) = startNextAction([u EXCEPT !.state = state], overrun)
    BY <1>2 DEF onWaitFinished, RestartState, SetupStates
  <2> QED BY <2>1, StatePosts
<1> QED BY <1>1, <1>2

(* startMeasurements begins the setup of a sensor that has its settings.   *)
LEMMA StartPosts ==
    ASSUME NEW u, Sound(u), Free(u), u.state = "WaitForStart", u.settings # "none", NEW overrun
    PROVE  Post(startMeasurements(u, overrun))
<1> DEFINE v == [u EXCEPT !.acquisitionIndex = 0, !.commandIndex = 0]
<1>1. Sound(v) /\ Free(v) BY DEF Sound, Free, Updaters, KnownProtocol
<1>2. u.protocol \in Em300Family \cup {"Em24", "Et112"}
  BY DEF Sound, KnownProtocol, Protocols, Em300Family
<1>3. PICK state \in {"CheckSetup", "CheckMeasurementMode"} :
         state = CASE u.protocol = "Em24" -> "CheckSetup"
                   [] u.protocol \in Em300Family \cup {"Et112"} -> "CheckMeasurementMode"
                   [] OTHER -> u.state
  BY <1>2 DEF Em300Family
<1>4. startMeasurements(u, overrun) =
         startNextAction([u EXCEPT !.acquisitionIndex = 0, !.commandIndex = 0,
                                   !.state = state], overrun)
  BY <1>2, <1>3 DEF startMeasurements, Asserting, Em300Family
<1>5. [u EXCEPT !.acquisitionIndex = 0, !.commandIndex = 0, !.state = state]
         = [v EXCEPT !.state = state]
  BY DEF Sound, Updaters
<1> HIDE DEF v
<1>6. Post(startNextAction([v EXCEPT !.state = state], overrun))
  BY <1>1, StatePosts DEF SetupStates
<1> QED BY <1>4, <1>5, <1>6

-----------------------------------------------------------------------------
(* The meter.                                                              *)
(* A request the updater can have sent.                                    *)
Sent(request) == request \in Requests /\ (request.op = "read" => request.arg > 0)

(* A meter answers a read of at least one register with at least one       *)
(* register.                                                               *)
LEMMA ReplyReadable ==
    ASSUME NEW m \in MeterModels, NEW request, Sent(request), request.op = "read"
    PROVE  ReadReply(m, request) \in Seq(Nat) /\ Len(ReadReply(m, request)) > 0
<1>1. request.arg \in Nat \ {0} BY DEF Sent, Requests
<1>2. /\ m.id \in Nat /\ m.application \in Nat /\ m.system \in Nat /\ m.mode \in Nat
  BY DEF MeterModels
<1>3. GoodSerial \in Seq(Nat) /\ Len(GoodSerial) = 7 BY DEF GoodSerial
<1>4. /\ [i \in 1..request.arg |-> 0] \in Seq(Nat)
      /\ Len([i \in 1..request.arg |-> 0]) = request.arg
  BY <1>1
<1> DEFINE Answers(s) == s \in Seq(Nat) /\ Len(s) > 0
<1>5. Answers(<<m.id>>) /\ Answers(<<m.mode>>) /\ Answers(<<m.system>>) BY <1>2
<1>6. Answers(<<m.application, m.system>>) BY <1>2
<1> DEFINE zeros == [i \in 1..request.arg |-> 0]
           front == <<IF m.locked THEN 3 ELSE 0>>
<1>7. ReadReply(m, request) \in {<<m.id>>, GoodSerial, front, <<m.application, m.system>>,
                                 <<m.mode>>, <<m.system>>, zeros}
  BY DEF ReadReply
<1>8. Answers(front) OBVIOUS
<1>9. Answers(zeros) /\ Answers(GoodSerial) BY <1>1, <1>3, <1>4
<1> HIDE DEF zeros, front, Answers
<1>10. Answers(ReadReply(m, request)) BY <1>5, <1>6, <1>7, <1>8, <1>9
<1> QED BY <1>10 DEF Answers

(* A short serial number fills as many registers as a whole one.           *)
LEMMA ShortSerialReadable == ShortSerial \in Seq(Nat) /\ Len(ShortSerial) > 0
BY DEF ShortSerial

(* A meter that is written to is still a meter.                            *)
LEMMA WrittenMeter ==
    ASSUME NEW m \in MeterModels, NEW request \in Requests
    PROVE  Written(m, request) \in MeterModels
BY DEF Written, MeterModels, Requests

-----------------------------------------------------------------------------
(* The inductive invariant of the specification.                           *)
IInv == Post(updater) /\ meter \in MeterModels /\ Sent(late)

(* The constructor establishes the invariant: its startNextAction leaves   *)
(* the object in search of the meter.                                      *)
THEOREM Initially == Init => IInv
<1> SUFFICES ASSUME Init PROVE IInv
  OBVIOUS
<1>1. PICK garbage \in InitialProtocols :
         updater = startNextAction(
            [state |-> "DeviceId", deviceType |-> 0, protocol |-> garbage,
             settings |-> "none", connection |-> "Disconnected",
             pvConnection |-> "Disconnected", errorCode |-> 0,
             timeoutCount |-> 0, errorCount |-> 0, setupRequested |-> FALSE,
             application |-> 0, measuringSystem |-> 0, desiredMeasuringSystem |-> 0,
             table |-> "none", commandIndex |-> 0, acquisitionIndex |-> 0,
             request |-> NoRequest, timer |-> FALSE, fault |-> "none"], FALSE)
  BY DEF Init
<1> DEFINE u == [state |-> "DeviceId", deviceType |-> 0, protocol |-> garbage,
             settings |-> "none", connection |-> "Disconnected",
             pvConnection |-> "Disconnected", errorCode |-> 0,
             timeoutCount |-> 0, errorCount |-> 0, setupRequested |-> FALSE,
             application |-> 0, measuringSystem |-> 0, desiredMeasuringSystem |-> 0,
             table |-> "none", commandIndex |-> 0, acquisitionIndex |-> 0,
             request |-> NoRequest, timer |-> FALSE, fault |-> "none"]
<1>2. u \in Updaters
  BY DEF Updaters, States, IdentifyStates, ConnectionStates, Requests, NoRequest
<1>3. Sound(u) /\ Free(u)
  BY <1>2, UpdaterAssumption DEF Sound, Free, NoRequest, KnownProtocol
<1> HIDE DEF u
<1>4. Post(updater)
  <2>1. updater = startNextAction(u, FALSE) BY <1>1 DEF u
  <2> QED BY <1>3, <2>1, NextActionPosts
<1>5. meter \in MeterModels BY UpdaterAssumption DEF Init
<1>6. Sent(late) BY DEF Init, Sent, NoRequest, Requests
<1> QED BY <1>4, <1>5, <1>6 DEF IInv

(* When an answer arrives for a request, the timer is not running: the     *)
(* handler starts from an object that waits for nothing.                   *)
LEMMA AnsweredFree ==
    ASSUME Post(updater), Asking
    PROVE  /\ Sound(Answered)
           /\ Free(Answered)
           /\ Sent(updater.request)
           /\ updater.request.op # "none"
<1>1. updater \in Updaters /\ ~updater.timer BY DEF Post, Sound, Busy, Asking, Running, Updaters
<1>2. NoRequest \in Requests BY DEF NoRequest, Requests
<1>3. Answered \in Updaters BY <1>1, <1>2 DEF Answered, Updaters
<1>4. /\ Answered.request = NoRequest /\ ~Answered.timer
      /\ Answered.state = updater.state /\ Answered.settings = updater.settings
      /\ Answered.connection = updater.connection /\ Answered.protocol = updater.protocol
      /\ Answered.timeoutCount = updater.timeoutCount
      /\ Answered.errorCount = updater.errorCount
      /\ Answered.commandIndex = updater.commandIndex
  BY <1>1 DEF Answered, Updaters
<1>5. Sound(Answered) /\ Free(Answered)
  BY <1>3, <1>4 DEF Post, Sound, Free, KnownProtocol, NoRequest
<1>6. Sent(updater.request) /\ updater.request.op # "none"
  BY <1>1 DEF Post, Sound, Sent, Asking, Updaters
<1> QED BY <1>5, <1>6

(* Every step keeps the invariant: one case for each action.               *)
THEOREM Preserved == IInv /\ [Next]_vars => IInv'
<1> SUFFICES ASSUME IInv, [Next]_vars
             PROVE  IInv'
  OBVIOUS
<1> USE DEF IInv
<1>0. Sent(NoRequest) BY DEF Sent, NoRequest, Requests
<1>1. CASE ReadAnswered
  <2>1. PICK overrun \in BOOLEAN :
           updater' = onReadCompleted(Answered, ReadReply(meter, updater.request), overrun)
    BY <1>1 DEF ReadAnswered
  <2>2. Asking /\ updater.request.op = "read" BY <1>1 DEF ReadAnswered
  <2>3. Post(updater')
    BY <2>1, <2>2, AnsweredFree, ReplyReadable, ReadCompletedPosts
  <2> QED BY <1>0, <1>1, <2>3 DEF ReadAnswered
<1>2. CASE ShortSerialAnswered
  <2>1. PICK overrun \in BOOLEAN : updater' = onReadCompleted(Answered, ShortSerial, overrun)
    BY <1>2 DEF ShortSerialAnswered
  <2>2. Post(updater')
    BY <1>2, <2>1, AnsweredFree, ShortSerialReadable, ReadCompletedPosts DEF ShortSerialAnswered
  <2> QED BY <1>0, <1>2, <2>2 DEF ShortSerialAnswered
<1>3. CASE WriteAnswered
  <2>1. Post(updater') BY <1>3, AnsweredFree, WriteCompletedPosts DEF WriteAnswered
  <2>2. meter' \in MeterModels BY <1>3, AnsweredFree, WrittenMeter DEF WriteAnswered, Sent
  <2> QED BY <1>0, <1>3, <2>1, <2>2 DEF WriteAnswered
<1>4. CASE TimedOut
  <2>1. Post(updater') BY <1>4, AnsweredFree, ErrorPosts DEF TimedOut
  <2>2. meter' \in MeterModels BY <1>4, AnsweredFree, WrittenMeter DEF TimedOut, Sent
  <2>3. Sent(late') BY <1>0, <1>4, AnsweredFree DEF TimedOut
  <2> QED BY <2>1, <2>2, <2>3
<1>5. CASE CrcErrorReceived
  <2>1. Post(updater') BY <1>5, AnsweredFree, ErrorPosts DEF CrcErrorReceived
  <2>2. meter' \in MeterModels BY <1>5, AnsweredFree, WrittenMeter DEF CrcErrorReceived, Sent
  <2> QED BY <1>0, <1>5, <2>1, <2>2 DEF CrcErrorReceived
<1>6. CASE ReadRefused \/ ExceptionReceived
  <2>1. Post(updater') BY <1>6, AnsweredFree, ErrorPosts DEF ReadRefused, ExceptionReceived
  <2> QED BY <1>0, <1>6, <2>1 DEF ReadRefused, ExceptionReceived
<1>7. CASE StaleReplyReceived
  <2>1. Post(updater')
    <3>1. CASE late.op = "write"
      BY <1>7, <3>1, AnsweredFree, WriteCompletedPosts DEF StaleReplyReceived
    <3>2. CASE late.op # "write"
      <4>1. late.op = "read" BY <1>7, <3>2 DEF StaleReplyReceived, Sent, Requests
      <4>2. ReadReply(meter, late) \in Seq(Nat) /\ Len(ReadReply(meter, late)) > 0
        BY <4>1, ReplyReadable
      <4>3. PICK overrun \in BOOLEAN :
               updater' = onReadCompleted(Answered, ReadReply(meter, late), overrun)
        BY <1>7, <3>2 DEF StaleReplyReceived
      <4> QED BY <1>7, <4>2, <4>3, AnsweredFree, ReadCompletedPosts DEF StaleReplyReceived
    <3> QED BY <3>1, <3>2
  <2>2. meter' \in MeterModels BY <1>7, AnsweredFree, WrittenMeter DEF StaleReplyReceived, Sent
  <2>3. Sent(late') BY <1>0, <1>7, AnsweredFree DEF StaleReplyReceived
  <2> QED BY <2>1, <2>2, <2>3
<1>8. CASE WaitFinished
  <2> DEFINE u == [updater EXCEPT !.timer = FALSE]
  <2>1. u \in Updaters BY DEF Post, Sound, Updaters
  <2>2. /\ ~u.timer /\ u.request = updater.request
        /\ u.state = updater.state /\ u.settings = updater.settings
        /\ u.connection = updater.connection /\ u.protocol = updater.protocol
        /\ u.timeoutCount = updater.timeoutCount /\ u.errorCount = updater.errorCount
        /\ u.commandIndex = updater.commandIndex
    BY DEF Post, Sound, Updaters
  <2>3. updater.request.op = "none" BY <1>8 DEF WaitFinished, Running, Post, Busy
  <2>4. PICK overrun \in BOOLEAN : updater' = onWaitFinished(u, overrun)
    BY <1>8 DEF WaitFinished
  <2> HIDE DEF u
  <2>5. Sound(u) /\ Free(u) BY <2>1, <2>2, <2>3 DEF Post, Sound, Free, KnownProtocol
  <2>6. Post(updater') BY <2>4, <2>5, WaitFinishedPosts
  <2> QED BY <1>0, <1>8, <2>6 DEF WaitFinished
<1>9. CASE SettingsChanged
  <2>1. PICK mode \in Modes :
           updater' = [updater EXCEPT !.settings = mode, !.setupRequested = TRUE]
    BY <1>9, UpdaterAssumption DEF SettingsChanged
  <2>2. updater' \in Updaters BY <2>1 DEF Post, Sound, Updaters
  <2>3. /\ updater'.settings # "none" /\ updater'.fault = updater.fault
        /\ updater'.timer = updater.timer /\ updater'.request = updater.request
        /\ updater'.state = updater.state
        /\ updater'.connection = updater.connection /\ updater'.protocol = updater.protocol
        /\ updater'.timeoutCount = updater.timeoutCount
        /\ updater'.errorCount = updater.errorCount
        /\ updater'.commandIndex = updater.commandIndex
    BY <2>1 DEF Post, Sound, Updaters, Modes
  <2>4. updater.settings # "none" BY <1>9 DEF SettingsChanged
  <2>5. Sound(updater') BY <2>2, <2>3, <2>4 DEF Post, Sound, KnownProtocol
  <2>6. Busy(updater') BY <2>3 DEF Post, Busy
  <2> QED BY <1>9, <2>5, <2>6 DEF SettingsChanged, Post
<1>10. CASE SettingsInitialized
  <2>1. Sound(updater) /\ Free(updater)
    BY <1>10 DEF SettingsInitialized, Running, Post, Busy, Free
  <2>2. Post(updater') BY <1>10, <2>1, StartPosts DEF SettingsInitialized
  <2> QED BY <1>10, <2>2 DEF SettingsInitialized
<1>11. CASE FrontSelectorTurned
  <2>1. meter' \in MeterModels BY <1>11 DEF FrontSelectorTurned, MeterModels
  <2> QED BY <1>11, <2>1 DEF FrontSelectorTurned
<1>12. CASE MeterExchanged
  <2>1. meter' \in MeterModels BY <1>12, UpdaterAssumption DEF MeterExchanged
  <2> QED BY <1>12, <2>1 DEF MeterExchanged
<1>13. CASE UNCHANGED vars BY <1>13 DEF vars
<1> QED
  BY <1>1, <1>2, <1>3, <1>4, <1>5, <1>6, <1>7, <1>8, <1>9, <1>10, <1>11, <1>12, <1>13
  DEF Next, Answer, Reply, BusError, Installer

(* The invariant holds in every reachable state.                           *)
THEOREM Invariant == Spec => []IInv
BY Initially, Preserved, PTL DEF Spec

-----------------------------------------------------------------------------
(* The theorems.                                                           *)

(* The members of the object, the registers of the meter and the late      *)
(* request have their types in every reachable state, for all limits,      *)
(* meters and user modes, with and without stale replies.                  *)
THEOREM TypeCorrect == Spec => []TypeOK
<1>1. IInv => TypeOK BY DEF IInv, Post, Sound, Sent, TypeOK
<1> QED BY Invariant, <1>1, PTL

(* The settings object exists exactly while the sensor is Detected or      *)
(* Connected, which is what AcSensorMediator and the D-Bus layer rely on   *)
(* (ac_sensor_updater.h:57).                                               *)
THEOREM SettingsLiveWhenDetected == Spec => []SettingsLifetime
<1>1. IInv => SettingsLifetime BY DEF IInv, Post, Sound, SettingsLifetime
<1> QED BY Invariant, <1>1, PTL

(* In every reachable state in which the process runs, the updater waits   *)
(* for exactly one of an answer, its timer and the settings - or it is     *)
(* Stalled on a device of unknown type.  So no handler of                  *)
(* ac_sensor_updater.cpp ends without having started the next action, and  *)
(* none starts two.                                                        *)
THEOREM AlwaysOneActivity == Spec => []OneActivity
<1>1. IInv => OneActivity
  BY DEF IInv, Post, Busy, OneActivity, Running, Asks, AwaitsSettings, Stalled
<1> QED BY Invariant, <1>1, PTL

(* Neither failure counter ever passes its limit, whatever the limits are  *)
(* and however errors, timeouts and successes alternate.                   *)
THEOREM CountersStayBounded == Spec => []CountersBounded
<1>1. IInv => CountersBounded BY DEF IInv, Post, Sound, CountersBounded
<1> QED BY Invariant, <1>1, PTL

=============================================================================
