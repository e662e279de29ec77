-------------------------- MODULE Drf1600Detector --------------------------
(***************************************************************************)
(* The tool that programs Zigbee converters (tools/hub4_wireless): it      *)
(* looks for a converter at 9600 and at 38400 baud, and gives it the wanted*)
(* type, 9600 baud, and no PAN ID but that of the coordinator it will find.*)
(* Whatever goes wrong, the detector starts again with the first step.     *)
(*                                                                         *)
(* The converter and the line are modelled as the code sees them: a        *)
(* converter answers what it is sent at its own baud rate, and what it is  *)
(* told to be it becomes with the next restart.  Commands and replies may  *)
(* be lost, damaged, split, or later than the timer that waits for them,   *)
(* MaxFaults times in all.                                                 *)
(***************************************************************************)
EXTENDS Drf1600

CONSTANTS
    RetryCount,     \* RetryCount: 5 in the code
    Bauds,          \* the baud rates converters are found with
    MaxFaults       \* bound: faults of the line

ASSUME DetectorAssumption ==
    /\ RetryCount \in Nat \ {0}
    /\ Bauds \subseteq Nat
    /\ MaxFaults \in Nat

States == {"Idle", "TestBaudRate9600", "TestBaudRate38400", "SetBaudrate9600",
           "GetDeviceType", "SetDeviceType", "GetPanId", "SetPanId"}
Infos == {"None", "Busy", "Ok", "Failed"}

VARIABLES
    detector,       \* mState, mDeviceType, mRetryCount and mTimer (250 or 5000 ms)
    info,           \* Hub4Wireless::mInfo: what the user is told, None at first
    device,         \* the converter as it is, and as it will be after a restart
    faults          \* faults of the line so far

vars == <<port, toDevice, toHost, detector, info, device, faults>>

UnderWay == toDevice # <<>> \/ toHost # <<>>

-----------------------------------------------------------------------------
(* The handlers of the detector.  They follow resetStateEngine.            *)
enter(state, command, baud) ==
    /\ detector' = [detector EXCEPT !.state = state]
    /\ send(command, baud)
    /\ UNCHANGED info

(* Mutant: nothing is awaited after it.                                    *)
restartOnly ==
    /\ send("Restart", port.baud)
    /\ UNCHANGED <<detector, info>>

restart ==
    /\ detector' = [detector EXCEPT !.timer = 5000]
    /\ send("Restart", port.baud)
    /\ UNCHANGED info

onBaudrateOk ==
    \/ /\ detector.state = "TestBaudRate9600"
       /\ enter("GetDeviceType", "GetDeviceType", port.baud)
    \/ /\ detector.state = "TestBaudRate38400"
       /\ enter("SetBaudrate9600", "SetBaudRate", port.baud)

onTypeFound(type) ==
    IF type = detector.wanted
    THEN enter("GetPanId", "ReadPanId", port.baud)
    ELSE enter("SetDeviceType", SetDeviceType(detector.wanted), port.baud)

(* A coordinator keeps its PAN ID: mPanId is DefaultPanId in this tool.    *)
(* Mutant: a router keeps that of its coordinator, too.                    *)
KeepsPanIdAlways(alone) == TRUE

KeepsPanId(alone) == detector.wanted = Router => alone

onPanIdFound(alone) ==
    \/ /\ KeepsPanId(alone)
       /\ info' = "Ok"
       /\ port' = resetStateEngine
       /\ UNCHANGED <<detector, toDevice>>
    \/ /\ ~KeepsPanId(alone)
       /\ enter("SetPanId", "WritePanId", port.baud)

(* Nothing at 9600 baud: the other rate is tried, with retries of its own. *)
(* Mutant: with those that are left.                                       *)
test38400WithoutRetries ==
    /\ detector' = [detector EXCEPT !.state = "TestBaudRate38400", !.retries = 0]
    /\ send("TestBaudrate", 38400)
    /\ UNCHANGED info

test38400 ==
    /\ detector' = [detector EXCEPT !.state = "TestBaudRate38400", !.retries = RetryCount]
    /\ send("TestBaudrate", 38400)
    /\ UNCHANGED info

(* Mutant: and when there is nothing at 38400 baud, too.                   *)
HasOtherBaudAlways == detector.state \in {"TestBaudRate9600", "TestBaudRate38400"}

HasOtherBaud == detector.state = "TestBaudRate9600"

onError ==
    LET left == detector.retries - 1
    IN  \/ /\ left > 0
           /\ detector' = [detector EXCEPT !.retries = left, !.timer = 250]
           /\ port' = resetStateEngine
           /\ UNCHANGED <<toDevice, info>>
        \/ /\ left <= 0
           /\ HasOtherBaud
           /\ test38400
        \/ /\ left <= 0
           /\ ~HasOtherBaud
           /\ detector' = [detector EXCEPT !.retries = left]
           /\ info' = "Failed"
           /\ port' = resetStateEngine
           /\ UNCHANGED toDevice

(* processPacket, with the handler of the signal it emits.                 *)
processPacket(command, data) ==
    CASE command = "TestBaudrate" -> onBaudrateOk
      [] command = "GetDeviceType" ->
            IF TypeRead(data) # {} THEN \E type \in TypeRead(data) : onTypeFound(type)
            ELSE onError
      [] command = "ReadPanId" -> onPanIdFound(IsAlone(data))
      [] command \in {"SetCoordinator", "SetRouter"} ->
            IF IsConfirmation(data) THEN restart ELSE onError
      [] OTHER -> restart

-----------------------------------------------------------------------------
Init ==
    /\ port = [baud |-> 9600, command |-> Idle, buffer |-> <<>>]
    /\ detector = [state |-> "Idle", wanted |-> Router, retries |-> 0, timer |-> 0]
    /\ info = "None"
    /\ \E baud \in Bauds, type \in DeviceTypes, joined \in BOOLEAN :
          device = [baud |-> baud, type |-> type, joined |-> joined,
                    newBaud |-> baud, newType |-> type, newPan |-> FALSE]
    /\ toDevice = <<>> /\ toHost = <<>>
    /\ faults = 0

(* programCoordinator and programRouter, and start.                        *)
programStarted(type) ==
    /\ info = "None"
    /\ info' = "Busy"
    /\ detector' = [state |-> "TestBaudRate9600", wanted |-> type,
                    retries |-> RetryCount, timer |-> 0]
    /\ send("TestBaudrate", 9600)
    /\ UNCHANGED <<toHost, device, faults>>

(* Bytes arrive: n of the first reply under way, as noise if it has been   *)
(* sent at another baud rate.                                              *)
Arrives(n) ==
    LET reply == Head(toHost)
        rest  == SubSeq(reply.bytes, n + 1, Len(reply.bytes))
    IN  toHost' = IF rest = <<>> THEN Tail(toHost)
                  ELSE <<[reply EXCEPT !.bytes = rest]>> \o Tail(toHost)

Received(n) ==
    port.buffer \o
        IF Head(toHost).baud = port.baud THEN SubSeq(Head(toHost).bytes, 1, n)
        ELSE Message(Noise, n)

onReadyRead(n) ==
    /\ toHost # <<>>
    /\ n <= Len(Head(toHost).bytes)
    /\ Arrives(n)
    /\ \/ /\ port.command = Idle
          /\ UNCHANGED <<port, toDevice, detector, info>>
       \/ /\ port.command # Idle
          /\ Len(Received(n)) < BytesExpected[port.command]
          /\ port' = [port EXCEPT !.buffer = Received(n)]
          /\ UNCHANGED <<toDevice, detector, info>>
       \/ /\ port.command # Idle
          /\ Len(Received(n)) >= BytesExpected[port.command]
          /\ processPacket(port.command, Received(n))
    /\ UNCHANGED <<device, faults>>

(* A timer that runs out while something is under way is a fault, too: the *)
(* reply is later than 250 ms, or the restart than five seconds.           *)
Overtake ==
    /\ UnderWay => faults < MaxFaults
    /\ faults' = IF UnderWay THEN faults + 1 ELSE faults

onTimeout ==
    /\ port.command # Idle
    /\ onError
    /\ Overtake
    /\ UNCHANGED <<toHost, device>>

onTimer ==
    /\ detector.timer > 0
    /\ IF detector.state # "TestBaudRate38400"
       THEN /\ detector' = [detector EXCEPT !.state = "TestBaudRate9600", !.timer = 0]
            /\ send("TestBaudrate", 9600)
       ELSE /\ detector' = [detector EXCEPT !.timer = 0]
            /\ send("TestBaudrate", port.baud)
    /\ Overtake
    /\ UNCHANGED <<toHost, info, device>>

-----------------------------------------------------------------------------
(* The converter.  Without a coordinator nearby, which the instructions    *)
(* rule out (qml/main.qml:73), a router that is sent to look for one finds *)
(* none.                                                                   *)
Obey(command) ==
    CASE command = "SetBaudRate" -> [device EXCEPT !.newBaud = 9600]
      [] command = "SetCoordinator" -> [device EXCEPT !.newType = Coordinator]
      [] command = "SetRouter" -> [device EXCEPT !.newType = Router]
      [] command = "WritePanId" -> [device EXCEPT !.newPan = TRUE]
      [] command = "Restart" ->
            [device EXCEPT !.baud = device.newBaud, !.type = device.newType,
                           !.joined = @ /\ ~device.newPan /\ device.newType = device.type,
                           !.newPan = FALSE]
      [] OTHER -> device

Answer(command) ==
    LET content ==
            CASE command = "TestBaudrate" -> Version
              [] command = "GetDeviceType" -> device.type
              [] command = "SetCoordinator" -> Coordinator
              [] command = "SetRouter" -> Router
              [] command = "ReadPanId" -> IF device.joined THEN Joined ELSE Alone
              [] command = "WritePanId" -> PanWritten
              [] OTHER -> BaudSet
    IN  Message(content, BytesExpected[command])

DeviceAnswers ==
    /\ toDevice # <<>>
    /\ toDevice' = Tail(toDevice)
    /\ LET command == Head(toDevice).command
       IN  IF Head(toDevice).baud # device.baud
           THEN UNCHANGED <<device, toHost>>
           ELSE /\ device' = Obey(command)
                /\ toHost' = IF Answer(command) = <<>> THEN toHost
                             ELSE Append(toHost, [baud |-> device.baud, bytes |-> Answer(command)])
    /\ UNCHANGED <<port, detector, info, faults>>

(* The line.                                                               *)
LineFails ==
    /\ faults < MaxFaults
    /\ faults' = faults + 1
    /\ \/ /\ toDevice # <<>>
          /\ toDevice' = Tail(toDevice)
          /\ UNCHANGED toHost
       \/ /\ toHost # <<>>
          /\ \/ toHost' = Tail(toHost)
             \/ toHost' = [toHost EXCEPT ![1].bytes = Message(Noise, Len(@))]
          /\ UNCHANGED toDevice
    /\ UNCHANGED <<port, detector, info, device>>

Next ==
    \/ \E type \in DeviceTypes : programStarted(type)
    \/ \E n \in 1 .. 8 : onReadyRead(n)
    \/ onTimeout
    \/ onTimer
    \/ DeviceAnswers
    \/ LineFails

Spec == Init /\ [][Next]_vars

(* What is sent arrives or is lost, and timers run out.                    *)
FairSpec ==
    /\ Spec
    /\ WF_vars(DeviceAnswers)
    /\ WF_vars(\E n \in 1 .. 8 : onReadyRead(n))
    /\ WF_vars(onTimeout)
    /\ WF_vars(onTimer)

-----------------------------------------------------------------------------
TypeOK ==
    /\ port \in [baud : {9600, 38400}, command : Commands \cup {Idle},
                 buffer : Seq(Contents \X (1 .. 8))]
    /\ detector \in [state : States, wanted : DeviceTypes,
                     retries : 0 .. RetryCount, timer : {0, 250, 5000}]
    /\ info \in Infos
    /\ device.newBaud \in Nat /\ device.newType \in DeviceTypes
    /\ faults \in 0 .. MaxFaults

(* The program in progress always waits for exactly one thing, a reply or  *)
(* the timer, and nothing once it has ended; so the assertion at the       *)
(* beginning of Drf1600::send ("mCurrentCommand == Idle", drf1600.cpp:146) *)
(* holds whenever a handler sends a command.                               *)
OneActivity ==
    /\ port.command # Idle => detector.timer = 0
    /\ info = "Busy" <=> port.command # Idle \/ detector.timer > 0

(* "Zigbee to RS485 converter programmed" (qml/main.qml:15): when the user *)
(* is told so, the converter talks at 9600 baud, is what was wanted or will*)
(* be with its next restart, and, as a router, has left the network it may *)
(* have been in ("force the device to look for any coordinator",           *)
(* drf1600_detector.cpp:50); although no reply names its command and late  *)
(* replies are taken for others, however many.                             *)
FoundMeansProgrammed ==
    info = "Ok" =>
        /\ device.baud = 9600
        /\ device.newType = detector.wanted
        /\ detector.wanted = Router => ~device.joined

(* It takes faults for the user to be told what is not so                  *)
(* (drf1600_detector.cpp:168).  A converter with one of the baud rates that*)
(* are tried is reported to have failed only after RetryCount of them: one *)
(* that a retry would have mended is not enough.                           *)
HostBauds == {9600, 38400}

FailsOnlyAfterFaults ==
    info = "Failed" => device.baud \notin HostBauds \/ faults >= RetryCount

(* Programming ends, with one result or the other.                         *)
Ends == info = "Busy" ~> info \in {"Ok", "Failed"}
=============================================================================
