----------------------- MODULE Drf1600DetectorProofs -----------------------
(***************************************************************************)
(* Theorems about the detector of Zigbee converters, for all numbers of    *)
(* retries, all baud rates of converters and any number of faults.         *)
(***************************************************************************)
EXTENDS Drf1600Detector, SequenceTheorems, TLAPS

-----------------------------------------------------------------------------
(* The commands.                                                           *)
LEMMA CommandsAre ==
    Commands = {"TestBaudrate", "GetDeviceType", "SetCoordinator", "SetRouter", "ReadPanId",
                "WritePanId", "SetBaudRate", "Restart"}
BY DEF Commands, BytesExpected

LEMMA Awaited ==
    ASSUME NEW command \in Commands
    PROVE  /\ BytesExpected[command] \in 0 .. 8
           /\ BytesExpected[command] = 0 <=> command = "Restart"
BY CommandsAre DEF BytesExpected

LEMMA IdleIsNone == Idle \notin Commands
BY CommandsAre DEF Idle

-----------------------------------------------------------------------------
(* The strengthening: the line carries commands and replies, and a program *)
(* in progress has retries left; without the latter the counter would not  *)
(* keep its type.                                                          *)
Bytes == Contents \X (1 .. 8)
Texts == {t \in Seq(Bytes) : Len(t) <= 8}
Requests == [command : Commands, baud : HostBauds]
Answers == [baud : Nat, bytes : Texts]
Devices == [baud : Nat, type : DeviceTypes, joined : BOOLEAN,
            newBaud : Nat, newType : DeviceTypes, newPan : BOOLEAN]

LineTyped ==
    /\ toDevice \in Seq(Requests)
    /\ toHost \in Seq(Answers)
    /\ device \in Devices

RetriesLeft == info = "Busy" => detector.retries > 0

Inv ==
    /\ TypeOK
    /\ LineTyped
    /\ OneActivity
    /\ RetriesLeft

(* What a handler of the detector leaves.                                  *)
Ports == [baud : HostBauds, command : Commands \cup {Idle}, buffer : Seq(Bytes)]
Retries == 0 .. RetryCount
Detectors == [state : States, wanted : DeviceTypes,
              retries : Retries, timer : {0, 250, 5000}]

Handled ==
    /\ port' \in Ports
    /\ detector' \in Detectors
    /\ info' \in Infos
    /\ toDevice' \in Seq(Requests)
    /\ OneActivity'
    /\ RetriesLeft'

LEMMA HandledKeeps ==
    ASSUME Handled, LineTyped', faults' \in 0 .. MaxFaults
    PROVE  Inv'
BY DEF Handled, Inv, TypeOK, LineTyped, Devices, Ports, Detectors, Retries, Bytes, HostBauds

LEMMA InvTyped ==
    ASSUME Inv
    PROVE  /\ port \in Ports /\ detector \in Detectors /\ info \in Infos
           /\ faults \in 0 .. MaxFaults
BY DEF Inv, TypeOK, Ports, Detectors, Retries, Bytes, HostBauds

(* While a reply is awaited, the program is in progress, its timer does    *)
(* not run, and it has retries left.                                       *)
LEMMA Awaiting ==
    ASSUME Inv, port.command # Idle
    PROVE  detector.timer = 0 /\ info = "Busy" /\ detector.retries \in 1 .. RetryCount
<1>1. detector.timer = 0 /\ info = "Busy"
  BY DEF Inv, OneActivity
<1>2. detector.retries > 0
  BY <1>1 DEF Inv, RetriesLeft
<1>3. detector.retries \in 0 .. RetryCount /\ RetryCount \in Nat
  BY InvTyped, DetectorAssumption DEF Detectors, Retries
<1> QED
  BY <1>1, <1>2, <1>3

-----------------------------------------------------------------------------
(* The handlers.                                                           *)
LEMMA SendPosts ==
    ASSUME Inv, NEW command \in Commands, NEW baud \in HostBauds, send(command, baud)
    PROVE  /\ port' \in Ports
           /\ toDevice' \in Seq(Requests)
           /\ port'.command = IF command = "Restart" THEN Idle ELSE command
<1>1. port' = [baud |-> baud, buffer |-> <<>>,
               command |-> IF command = "Restart" THEN Idle ELSE command]
  BY Awaited DEF send
<1>2. <<>> \in Seq(Bytes)
  BY EmptySeq
<1>3. toDevice' \in Seq(Requests)
  <2>1. [command |-> command, baud |-> baud] \in Requests
    BY DEF Requests
  <2> QED
    BY <2>1, AppendProperties DEF send, Inv, LineTyped
<1> QED
  BY <1>1, <1>2, <1>3 DEF Ports

LEMMA EnterHandles ==
    ASSUME Inv, port.command # Idle, NEW state \in States,
           NEW command \in Commands \ {"Restart"}, enter(state, command, port.baud)
    PROVE  Handled
<1>1. port.baud \in HostBauds
  BY InvTyped DEF Ports
<1>2. /\ port' \in Ports
      /\ toDevice' \in Seq(Requests)
      /\ port'.command # Idle
  BY <1>1, SendPosts, IdleIsNone DEF enter
<1>3. /\ detector' = [detector EXCEPT !.state = state]
      /\ info' = info
  BY DEF enter
<1>4. detector' \in Detectors /\ detector'.timer = 0 /\ detector'.retries > 0
  BY <1>3, InvTyped, Awaiting DEF Detectors
<1> QED
  BY <1>2, <1>3, <1>4, Awaiting DEF Handled, OneActivity, RetriesLeft, Infos

LEMMA RestartHandles ==
    ASSUME Inv, port.command # Idle, restart
    PROVE  Handled
<1>1. port.baud \in HostBauds /\ "Restart" \in Commands
  BY InvTyped, CommandsAre DEF Ports
<1>2. /\ port' \in Ports
      /\ toDevice' \in Seq(Requests)
      /\ port'.command = Idle
  BY <1>1, SendPosts DEF restart
<1>3. /\ detector' = [detector EXCEPT !.timer = 5000]
      /\ info' = info
  BY DEF restart
<1>4. detector' \in Detectors /\ detector'.timer = 5000 /\ detector'.retries > 0
  BY <1>3, InvTyped, Awaiting DEF Detectors
<1> QED
  BY <1>2, <1>3, <1>4, Awaiting DEF Handled, OneActivity, RetriesLeft, Infos

LEMMA ResetPosts ==
    ASSUME Inv
    PROVE  resetStateEngine \in Ports /\ resetStateEngine.command = Idle
BY InvTyped, EmptySeq DEF resetStateEngine, Ports

LEMMA ErrorHandles ==
    ASSUME Inv, port.command # Idle, onError
    PROVE  Handled
<1> DEFINE left == detector.retries - 1
<1>1. left \in Retries /\ RetryCount \in Retries /\ RetryCount > 0
  BY Awaiting, DetectorAssumption DEF Retries
<1>2. toDevice \in Seq(Requests)
  BY DEF Inv, LineTyped
<1> HIDE DEF left
<1>3. CASE /\ left > 0
           /\ detector' = [detector EXCEPT !.retries = left, !.timer = 250]
           /\ port' = resetStateEngine
           /\ UNCHANGED <<toDevice, info>>
  <2>1. detector' \in Detectors /\ detector'.timer = 250 /\ detector'.retries > 0
    <3>1. detector \in Detectors
      BY InvTyped
    <3>2. detector' \in Detectors
      <4> DEFINE counted == [detector EXCEPT !.retries = left]
      <4>1. counted \in Detectors
        BY <1>1, <3>1 DEF Detectors
      <4>2. detector' = [counted EXCEPT !.timer = 250]
        BY <1>3, <3>1 DEF Detectors
      <4> HIDE DEF counted
      <4> QED
        BY <4>1, <4>2 DEF Detectors
    <3>3. detector'.timer = 250 /\ detector'.retries = left
      BY <1>3, <3>1 DEF Detectors
    <3> QED
      BY <1>3, <3>2, <3>3
  <2> QED
    BY <1>2, <1>3, <2>1, Awaiting, ResetPosts DEF Handled, OneActivity, RetriesLeft, Infos
<1>4. CASE test38400
  <2>1. "TestBaudrate" \in Commands /\ 38400 \in HostBauds /\ "TestBaudRate38400" \in States
    BY CommandsAre DEF HostBauds, States
  <2>2. /\ port' \in Ports
        /\ toDevice' \in Seq(Requests)
        /\ port'.command # Idle
    BY <1>4, <2>1, SendPosts, IdleIsNone DEF test38400
  <2>3. detector' \in Detectors /\ detector'.timer = 0 /\ detector'.retries > 0
    <3>1. detector \in Detectors
      BY InvTyped
    <3>2. detector' = [detector EXCEPT !.state = "TestBaudRate38400", !.retries = RetryCount]
      BY <1>4 DEF test38400
    <3>3. detector' \in Detectors
      <4> DEFINE moved == [detector EXCEPT !.state = "TestBaudRate38400"]
      <4>1. moved \in Detectors
        BY <2>1, <3>1 DEF Detectors
      <4>2. detector' = [moved EXCEPT !.retries = RetryCount]
        BY <3>1, <3>2 DEF Detectors
      <4> HIDE DEF moved
      <4> QED
        BY <1>1, <4>1, <4>2 DEF Detectors
    <3>4. detector'.timer = detector.timer /\ detector'.retries = RetryCount
      BY <3>1, <3>2 DEF Detectors
    <3> QED
      BY <1>1, <3>3, <3>4, Awaiting
  <2>4. info' = info
    BY <1>4 DEF test38400
  <2> QED
    BY <2>2, <2>3, <2>4, Awaiting DEF Handled, OneActivity, RetriesLeft, Infos
<1>5. CASE /\ detector' = [detector EXCEPT !.retries = left]
           /\ info' = "Failed"
           /\ port' = resetStateEngine
           /\ UNCHANGED toDevice
  <2>1. detector \in Detectors
    BY InvTyped
  <2>2. detector' \in Detectors
    BY <1>1, <1>5, <2>1 DEF Detectors
  <2>3. detector'.timer = detector.timer
    BY <1>5, <2>1 DEF Detectors
  <2> QED
    BY <1>2, <1>5, <2>2, <2>3, Awaiting, ResetPosts DEF Handled, OneActivity, RetriesLeft, Infos
<1> QED
  BY <1>3, <1>4, <1>5 DEF onError, left

LEMMA PacketHandles ==
    ASSUME Inv, port.command # Idle, NEW data, processPacket(port.command, data)
    PROVE  Handled
<1>1. /\ {"GetDeviceType", "SetBaudRate", "SetCoordinator", "SetRouter", "ReadPanId",
           "WritePanId"} \subseteq Commands \ {"Restart"}
      /\ {"GetDeviceType", "SetBaudrate9600", "GetPanId", "SetDeviceType", "SetPanId"}
            \subseteq States
  BY CommandsAre DEF States
<1>2. CASE onBaudrateOk
  BY <1>1, <1>2, EnterHandles DEF onBaudrateOk
<1>3. ASSUME NEW type, onTypeFound(type)
      PROVE  Handled
  BY <1>1, <1>3, EnterHandles DEF onTypeFound, SetDeviceType
<1>4. ASSUME NEW alone, onPanIdFound(alone)
      PROVE  Handled
  <2>1. CASE enter("SetPanId", "WritePanId", port.baud)
    BY <1>1, <2>1, EnterHandles
  <2>2. CASE /\ info' = "Ok"
             /\ port' = resetStateEngine
             /\ UNCHANGED <<detector, toDevice>>
    <3>1. toDevice' \in Seq(Requests)
      BY <2>2 DEF Inv, LineTyped
    <3> QED
      BY <2>2, <3>1, InvTyped, Awaiting, ResetPosts DEF Handled, OneActivity, RetriesLeft, Infos
  <2> QED
    BY <1>4, <2>1, <2>2 DEF onPanIdFound
<1>5. \/ onBaudrateOk \/ restart \/ onError
      \/ \E type \in TypeRead(data) : onTypeFound(type)
      \/ onPanIdFound(IsAlone(data))
  BY DEF processPacket
<1> QED
  BY <1>2, <1>3, <1>4, <1>5, RestartHandles, ErrorHandles

-----------------------------------------------------------------------------
(* What is on the line.                                                    *)
LEMMA MessageTyped ==
    ASSUME NEW content \in Contents, NEW n \in 0 .. 8
    PROVE  Message(content, n) \in Texts
<1>1. Message(content, n) \in [1 .. n -> Bytes]
  BY DEF Message, Bytes
<1>2. Message(content, n) \in Seq(Bytes)
  BY <1>1
<1>3. Len(Message(content, n)) = n
  BY <1>1
<1> QED
  BY <1>2, <1>3 DEF Texts

LEMMA FirstAnswer ==
    ASSUME Inv, toHost # <<>>
    PROVE  /\ Head(toHost) \in Answers /\ Tail(toHost) \in Seq(Answers)
           /\ Head(toHost).bytes \in Seq(Bytes) /\ Len(Head(toHost).bytes) \in 0 .. 8
<1>1. toHost \in Seq(Answers)
  BY DEF Inv, LineTyped
<1>2. Head(toHost) \in Answers /\ Tail(toHost) \in Seq(Answers)
  BY <1>1, HeadTailProperties
<1>3. Head(toHost).bytes \in Texts
  BY <1>2 DEF Answers
<1>4. Head(toHost).bytes \in Seq(Bytes) /\ Len(Head(toHost).bytes) <= 8
  BY <1>3 DEF Texts
<1> DEFINE length == Len(Head(toHost).bytes)
<1>5. length \in Nat /\ length <= 8
  BY <1>4, LenProperties
<1> HIDE DEF length
<1>6. length \in 0 .. 8
  BY <1>5
<1> QED
  BY <1>2, <1>4, <1>6 DEF length

LEMMA PartTyped ==
    ASSUME NEW t \in Seq(Bytes), NEW m \in Nat \ {0}, NEW n \in Nat, n <= Len(t)
    PROVE  /\ SubSeq(t, m, n) \in Seq(Bytes)
           /\ Len(SubSeq(t, m, n)) = IF m <= n THEN n - m + 1 ELSE 0
<1>1. ASSUME NEW i \in m .. n
      PROVE  t[i] \in Bytes
  <2>1. i \in 1 .. Len(t)
    BY LenProperties
  <2> QED
    BY <2>1, ElementOfSeq
<1> QED
  BY <1>1, SubSeqProperties

LEMMA TailTyped ==
    ASSUME NEW t \in Seq(Bytes), Len(t) \in 0 .. 8, NEW n \in 1 .. 8, n <= Len(t)
    PROVE  SubSeq(t, n + 1, Len(t)) \in Texts
<1> DEFINE rest == SubSeq(t, n + 1, Len(t))
<1>1. n + 1 \in Nat \ {0} /\ Len(t) \in Nat
  OBVIOUS
<1>2. /\ rest \in Seq(Bytes)
      /\ Len(rest) = IF n + 1 <= Len(t) THEN Len(t) - (n + 1) + 1 ELSE 0
  BY <1>1, PartTyped
<1> HIDE DEF rest
<1>3. Len(rest) <= 8
  BY <1>1, <1>2
<1>4. rest \in Texts
  BY <1>2, <1>3 DEF Texts
<1> QED
  BY <1>4 DEF rest

LEMMA ArrivesTyped ==
    ASSUME Inv, toHost # <<>>, NEW n \in 1 .. 8, n <= Len(Head(toHost).bytes), Arrives(n)
    PROVE  toHost' \in Seq(Answers)
<1> DEFINE reply == Head(toHost)
           rest == SubSeq(reply.bytes, n + 1, Len(reply.bytes))
<1>1. /\ reply \in Answers /\ Tail(toHost) \in Seq(Answers)
      /\ reply.bytes \in Seq(Bytes) /\ Len(reply.bytes) \in 0 .. 8
  BY FirstAnswer
<1>2. toHost' = IF rest = <<>> THEN Tail(toHost)
                ELSE <<[reply EXCEPT !.bytes = rest]>> \o Tail(toHost)
  BY DEF Arrives
<1>3. rest \in Texts
  BY <1>1, TailTyped
<1> HIDE DEF rest, reply
<1>4. [reply EXCEPT !.bytes = rest] \in Answers
  BY <1>1, <1>3 DEF Answers
<1>5. <<[reply EXCEPT !.bytes = rest]>> \in Seq(Answers)
  BY <1>4
<1>6. <<[reply EXCEPT !.bytes = rest]>> \o Tail(toHost) \in Seq(Answers)
  BY <1>1, <1>5, ConcatProperties
<1> QED
  BY <1>1, <1>2, <1>6

LEMMA ReceivedTyped ==
    ASSUME Inv, toHost # <<>>, NEW n \in 1 .. 8, n <= Len(Head(toHost).bytes)
    PROVE  Received(n) \in Seq(Bytes)
<1>1. port.buffer \in Seq(Bytes)
  BY InvTyped DEF Ports
<1>2. SubSeq(Head(toHost).bytes, 1, n) \in Seq(Bytes)
  BY FirstAnswer, PartTyped
<1>3. Message(Noise, n) \in Seq(Bytes)
  BY MessageTyped DEF Contents, Texts
<1> QED
  BY <1>1, <1>2, <1>3, ConcatProperties DEF Received

-----------------------------------------------------------------------------
(* The steps.                                                              *)
LEMMA Initially ==
    ASSUME Init
    PROVE  Inv
<1>1. port \in Ports
  BY EmptySeq DEF Init, Ports, HostBauds
<1>2. 0 \in Retries /\ 0 \in 0 .. MaxFaults
  BY DetectorAssumption DEF Retries
<1>3. detector \in Detectors
  BY <1>2 DEF Init, Detectors, States, DeviceTypes
<1>4. LineTyped
  BY EmptySeq, DetectorAssumption DEF Init, LineTyped, Devices
<1>5. TypeOK
  BY <1>1, <1>2, <1>3, <1>4
     DEF Init, TypeOK, LineTyped, Devices, Ports, HostBauds, Bytes, Detectors, Retries, Infos
<1> QED
  BY <1>4, <1>5 DEF Init, Inv, OneActivity, RetriesLeft

LEMMA StandsStill ==
    ASSUME Inv, UNCHANGED <<port, toDevice, detector, info>>
    PROVE  Handled
BY InvTyped DEF Handled, Inv, LineTyped, OneActivity, RetriesLeft

LEMMA OvertakeCounts ==
    ASSUME Inv, Overtake
    PROVE  faults' \in 0 .. MaxFaults
BY InvTyped, DetectorAssumption DEF Overtake

LEMMA StartKeeps ==
    ASSUME Inv, NEW type \in DeviceTypes, programStarted(type)
    PROVE  Inv'
<1>1. "TestBaudrate" \in Commands /\ 9600 \in HostBauds
  BY CommandsAre DEF HostBauds
<1>2. port' \in Ports /\ toDevice' \in Seq(Requests) /\ port'.command # Idle
  BY <1>1, SendPosts, IdleIsNone DEF programStarted
<1>3. RetryCount \in Retries /\ RetryCount > 0
  BY DetectorAssumption DEF Retries
<1>4. detector' = [state |-> "TestBaudRate9600", wanted |-> type,
                   retries |-> RetryCount, timer |-> 0]
  BY DEF programStarted
<1>5. detector' \in Detectors /\ detector'.timer = 0 /\ detector'.retries > 0
  BY <1>3, <1>4 DEF Detectors, States
<1>6. Handled
  BY <1>2, <1>5 DEF programStarted, Handled, OneActivity, RetriesLeft, Infos
<1>7. LineTyped' /\ faults' \in 0 .. MaxFaults
  BY <1>2, InvTyped DEF programStarted, Inv, LineTyped
<1> QED
  BY <1>6, <1>7, HandledKeeps

LEMMA ReadyReadKeeps ==
    ASSUME Inv, NEW n \in 1 .. 8, onReadyRead(n)
    PROVE  Inv'
<1>1. Handled
  <2>1. CASE UNCHANGED <<port, toDevice, detector, info>>
    BY <2>1, StandsStill
  <2>2. CASE /\ port' = [port EXCEPT !.buffer = Received(n)]
             /\ UNCHANGED <<toDevice, detector, info>>
    <3>1. Received(n) \in Seq(Bytes)
      BY ReceivedTyped DEF onReadyRead
    <3>2. port' \in Ports /\ port'.command = port.command
      BY <2>2, <3>1, InvTyped DEF Ports
    <3> QED
      BY <2>2, <3>2, InvTyped DEF Handled, Inv, LineTyped, OneActivity, RetriesLeft
  <2>3. CASE port.command # Idle /\ processPacket(port.command, Received(n))
    BY <2>3, PacketHandles
  <2> QED
    BY <2>1, <2>2, <2>3 DEF onReadyRead
<1>2. toHost' \in Seq(Answers)
  BY ArrivesTyped DEF onReadyRead
<1>3. LineTyped' /\ faults' \in 0 .. MaxFaults
  BY <1>1, <1>2, InvTyped DEF onReadyRead, Handled, Inv, LineTyped
<1> QED
  BY <1>1, <1>3, HandledKeeps

LEMMA TimeoutKeeps ==
    ASSUME Inv, onTimeout
    PROVE  Inv'
<1>1. Handled /\ faults' \in 0 .. MaxFaults
  BY ErrorHandles, OvertakeCounts DEF onTimeout
<1>2. LineTyped'
  BY <1>1 DEF onTimeout, Handled, Inv, LineTyped
<1> QED
  BY <1>1, <1>2, HandledKeeps

LEMMA TimerKeeps ==
    ASSUME Inv, onTimer
    PROVE  Inv'
<1>1. /\ port.command = Idle /\ info = "Busy" /\ detector.retries > 0
  BY DEF onTimer, Inv, OneActivity, RetriesLeft
<1>2. /\ "TestBaudrate" \in Commands /\ 9600 \in HostBauds /\ port.baud \in HostBauds
  BY InvTyped, CommandsAre DEF HostBauds, Ports
<1>3. port' \in Ports /\ toDevice' \in Seq(Requests) /\ port'.command # Idle
  BY <1>2, SendPosts, IdleIsNone DEF onTimer
<1>4. detector \in Detectors
  BY InvTyped
<1>5. detector' \in Detectors /\ detector'.timer = 0 /\ detector'.retries > 0
  <2>1. CASE detector' = [detector EXCEPT !.timer = 0]
    BY <1>1, <1>4, <2>1 DEF Detectors
  <2>2. CASE detector' = [detector EXCEPT !.state = "TestBaudRate9600", !.timer = 0]
    <3> DEFINE moved == [detector EXCEPT !.state = "TestBaudRate9600"]
    <3>1. moved \in Detectors /\ moved.retries > 0
      BY <1>1, <1>4 DEF Detectors, States
    <3>2. detector' = [moved EXCEPT !.timer = 0]
      BY <1>4, <2>2 DEF Detectors
    <3> HIDE DEF moved
    <3> QED
      BY <3>1, <3>2 DEF Detectors
  <2> QED
    BY <2>1, <2>2 DEF onTimer
<1>6. Handled
  BY <1>1, <1>3, <1>5 DEF onTimer, Handled, OneActivity, RetriesLeft, Infos
<1>7. LineTyped' /\ faults' \in 0 .. MaxFaults
  BY <1>3, OvertakeCounts DEF onTimer, Inv, LineTyped
<1> QED
  BY <1>6, <1>7, HandledKeeps

LEMMA RestartTyped ==
    ASSUME NEW d \in Devices, NEW joined \in BOOLEAN
    PROVE  [d EXCEPT !.baud = d.newBaud, !.type = d.newType, !.joined = joined,
                     !.newPan = FALSE] \in Devices
<1> DEFINE d1 == [d EXCEPT !.baud = d.newBaud]
           d2 == [d1 EXCEPT !.type = d.newType]
           d3 == [d2 EXCEPT !.joined = joined]
<1>1. d1 \in Devices
  BY DEF Devices
<1>2. d.newType \in DeviceTypes
  BY DEF Devices
<1>3. ASSUME NEW e \in Devices
      PROVE  /\ [e EXCEPT !.type = d.newType] \in Devices
             /\ [e EXCEPT !.joined = joined] \in Devices
             /\ [e EXCEPT !.newPan = FALSE] \in Devices
  BY <1>2 DEF Devices
<1>4. d2 \in Devices
  BY <1>1, <1>3
<1>5. d3 \in Devices
  BY <1>3, <1>4
<1>6. [d3 EXCEPT !.newPan = FALSE] \in Devices
  BY <1>3, <1>5
<1> QED
  BY <1>6

LEMMA AnswerTyped ==
    ASSUME Inv, NEW command \in Commands
    PROVE  Answer(command) \in Texts /\ Obey(command) \in Devices
<1>1. device \in Devices
  BY DEF Inv, LineTyped
<1>2. device.type \in Contents
  BY <1>1 DEF Contents, Devices
<1>3. Answer(command) \in Texts
  BY <1>2, Awaited, MessageTyped DEF Answer, Contents, DeviceTypes
<1>4. /\ [device EXCEPT !.newBaud = 9600] \in Devices
      /\ [device EXCEPT !.newType = Coordinator] \in Devices
      /\ [device EXCEPT !.newType = Router] \in Devices
      /\ [device EXCEPT !.newPan = TRUE] \in Devices
  <2>1. [device EXCEPT !.newBaud = 9600] \in Devices
    BY <1>1 DEF Devices
  <2>2. ASSUME NEW type \in DeviceTypes
        PROVE  [device EXCEPT !.newType = type] \in Devices
    BY <1>1 DEF Devices
  <2>3. [device EXCEPT !.newPan = TRUE] \in Devices
    BY <1>1 DEF Devices
  <2>4. Coordinator \in DeviceTypes /\ Router \in DeviceTypes
    BY DEF DeviceTypes
  <2> QED
    BY <2>1, <2>2, <2>3, <2>4
<1>5. [device EXCEPT !.baud = device.newBaud, !.type = device.newType,
                     !.joined = @ /\ ~device.newPan /\ device.newType = device.type,
                     !.newPan = FALSE] \in Devices
  <2> DEFINE joined == device.joined /\ ~device.newPan /\ device.newType = device.type
  <2>1. joined \in BOOLEAN
    OBVIOUS
  <2> HIDE DEF joined
  <2>2. [device EXCEPT !.baud = device.newBaud, !.type = device.newType, !.joined = joined,
                       !.newPan = FALSE] \in Devices
    BY <1>1, <2>1, RestartTyped
  <2> QED
    BY <2>2 DEF joined
<1>6. Obey(command) \in Devices
  BY <1>1, <1>4, <1>5 DEF Obey
<1> QED
  BY <1>3, <1>6

LEMMA AnswersKeeps ==
    ASSUME Inv, DeviceAnswers
    PROVE  Inv'
<1>1. toDevice \in Seq(Requests) /\ toHost \in Seq(Answers)
  BY DEF Inv, LineTyped
<1>2. Head(toDevice) \in Requests /\ toDevice' \in Seq(Requests)
  BY <1>1, HeadTailProperties DEF DeviceAnswers
<1>3. Head(toDevice).command \in Commands
  BY <1>2 DEF Requests
<1>4. LineTyped'
  <2>1. CASE UNCHANGED <<device, toHost>>
    BY <1>2, <2>1 DEF Inv, LineTyped
  <2>2. CASE /\ device' = Obey(Head(toDevice).command)
             /\ toHost' = toHost
    BY <1>1, <1>2, <1>3, <2>2, AnswerTyped DEF LineTyped
  <2>3. CASE /\ device' = Obey(Head(toDevice).command)
             /\ toHost' = Append(toHost, [baud |-> device.baud,
                                          bytes |-> Answer(Head(toDevice).command)])
    <3>1. [baud |-> device.baud, bytes |-> Answer(Head(toDevice).command)] \in Answers
      BY <1>3, AnswerTyped DEF Answers, Inv, LineTyped, Devices
    <3>2. toHost' \in Seq(Answers)
      BY <1>1, <2>3, <3>1, AppendProperties
    <3> QED
      BY <1>2, <1>3, <2>3, <3>2, AnswerTyped DEF LineTyped
  <2> QED
    BY <2>1, <2>2, <2>3 DEF DeviceAnswers
<1> QED
  BY <1>4 DEF DeviceAnswers, Inv, TypeOK, LineTyped, Devices, OneActivity, RetriesLeft

LEMMA FailsKeeps ==
    ASSUME Inv, LineFails
    PROVE  Inv'
<1>1. toDevice \in Seq(Requests) /\ toHost \in Seq(Answers)
  BY DEF Inv, LineTyped
<1>2. toDevice' \in Seq(Requests) /\ toHost' \in Seq(Answers)
  <2>1. CASE toDevice # <<>> /\ toDevice' = Tail(toDevice) /\ UNCHANGED toHost
    BY <1>1, <2>1, HeadTailProperties
  <2>2. CASE toHost # <<>> /\ toHost' = Tail(toHost) /\ UNCHANGED toDevice
    BY <1>1, <2>2, HeadTailProperties
  <2>3. CASE /\ toHost # <<>>
             /\ toHost' = [toHost EXCEPT ![1].bytes = Message(Noise, Len(@))]
             /\ UNCHANGED toDevice
    <3> DEFINE reply == toHost[1]
               noisy == [reply EXCEPT !.bytes = Message(Noise, Len(reply.bytes))]
    <3>1. 1 \in 1 .. Len(toHost) /\ Head(toHost) = toHost[1]
      BY <1>1, <2>3, EmptySeq
    <3>2. Message(Noise, Len(reply.bytes)) \in Texts
      BY <2>3, <3>1, FirstAnswer, MessageTyped DEF Contents
    <3>3. noisy \in Answers
      BY <2>3, <3>1, <3>2, FirstAnswer DEF Answers
    <3>4. toHost' = [toHost EXCEPT ![1] = noisy]
      BY <2>3
    <3> HIDE DEF noisy
    <3>5. [toHost EXCEPT ![1] = noisy] \in Seq(Answers)
      BY <1>1, <3>1, <3>3, ExceptSeq
    <3> QED
      BY <1>1, <2>3, <3>4, <3>5
  <2> QED
    BY <2>1, <2>2, <2>3 DEF LineFails
<1>3. faults' \in 0 .. MaxFaults
  BY InvTyped, DetectorAssumption DEF LineFails
<1>4. Handled
  BY <1>2, InvTyped DEF LineFails, Handled, Inv, OneActivity, RetriesLeft
<1>5. LineTyped'
  BY <1>2 DEF LineFails, Inv, LineTyped
<1> QED
  BY <1>3, <1>4, <1>5, HandledKeeps

LEMMA Preserved ==
    ASSUME Inv, [Next]_vars
    PROVE  Inv'
<1>1. CASE UNCHANGED vars
  BY <1>1 DEF vars, Inv, TypeOK, LineTyped, OneActivity, RetriesLeft
<1>2. CASE Next
  BY <1>2, StartKeeps, ReadyReadKeeps, TimeoutKeeps, TimerKeeps, AnswersKeeps, FailsKeeps
     DEF Next
<1> QED
  BY <1>1, <1>2

LEMMA Invariant == Spec => []Inv
<1>1. Init => Inv
  BY Initially
<1>2. Inv /\ [Next]_vars => Inv'
  BY Preserved
<1> QED
  BY <1>1, <1>2, PTL DEF Spec

-----------------------------------------------------------------------------
(* The variables keep their types, the commands and replies on the line and*)
(* the converter among them (LineTyped); for the counter of retries this   *)
(* needs that a program in progress has some left.                         *)
THEOREM TypeCorrect == Spec => [](TypeOK /\ LineTyped)
<1>1. Inv => TypeOK /\ LineTyped
  BY DEF Inv
<1> QED
  BY <1>1, Invariant, PTL

(* However the line fails and however late replies are, the detector waits *)
(* for exactly one thing while it programs a converter, and no handler     *)
(* sends a command before the last one has ended (drf1600.cpp:146).        *)
THEOREM AlwaysOneActivity == Spec => []OneActivity
<1>1. Inv => OneActivity
  BY DEF Inv
<1> QED
  BY <1>1, Invariant, PTL

-----------------------------------------------------------------------------
(* What a reply tells is so: a byte of the name of the wanted type has been*)
(* sent by a converter that is of it or becomes so with its next restart,  *)
(* a byte of "no network" by one that has left its network, and what is    *)
(* understood at 9600 baud by one that talks at 9600 baud.  None of that   *)
(* is ever undone while a program is in progress, so it stays so however   *)
(* late the reply is and whatever it is taken for.                         *)
HonestBytes ==
    {b \in Bytes : /\ b[1] = detector.wanted => device.newType = detector.wanted
                   /\ b[1] = Alone => ~device.joined}

HonestAnswers ==
    {a \in Answers : /\ a.bytes \in Seq(HonestBytes)
                     /\ a.baud = 9600 => device.baud = 9600}

ReceivedBytes ==
    {b \in HonestBytes : port.baud = 9600 /\ b[1] # Noise => device.baud = 9600}

HonestRequests ==
    {r \in Requests : r.command \in {"SetCoordinator", "SetRouter"}
                         => r.command = SetDeviceType(detector.wanted)}

LineHonest ==
    /\ toDevice \in Seq(HonestRequests)
    /\ toHost \in Seq(HonestAnswers)
    /\ port.buffer \in Seq(ReceivedBytes)

DeviceHonest ==
    /\ device.type = detector.wanted => device.newType = detector.wanted
    /\ device.baud = 9600 => device.newBaud = 9600

(* What is known when a command is sent, and in the end.                   *)
Concluded ==
    /\ port.command = "TestBaudrate" /\ detector.state = "TestBaudRate9600" => port.baud = 9600
    /\ port.command = "GetDeviceType" => port.baud = 9600
    /\ port.command = "ReadPanId" => device.baud = 9600 /\ device.newType = detector.wanted
    /\ FoundMeansProgrammed

Untouched ==
    info = "None" => /\ toDevice = <<>> /\ toHost = <<>> /\ port.buffer = <<>>
                     /\ device.newType = device.type /\ device.newBaud = device.baud

Honest ==
    /\ LineHonest
    /\ DeviceHonest
    /\ Concluded
    /\ Untouched

LEMMA WiderSeq ==
    ASSUME NEW S, NEW T, S \subseteq T, NEW s \in Seq(S)
    PROVE  s \in Seq(T)
OBVIOUS

LEMMA PartOf ==
    ASSUME NEW S, NEW t \in Seq(S), NEW m \in Nat \ {0}, NEW n \in Nat, n <= Len(t)
    PROVE  SubSeq(t, m, n) \in Seq(S)
<1>1. ASSUME NEW i \in m .. n
      PROVE  t[i] \in S
  <2>1. i \in 1 .. Len(t)
    BY LenProperties
  <2> QED
    BY <2>1, ElementOfSeq
<1> QED
  BY <1>1, SubSeqProperties

LEMMA MessageOf ==
    ASSUME NEW S, NEW content, NEW n \in 0 .. 8, \A i \in 1 .. 8 : <<content, i>> \in S
    PROVE  Message(content, n) \in Seq(S)
<1>1. Message(content, n) \in [1 .. n -> S]
  BY DEF Message
<1> QED
  BY <1>1

(* What the handlers of the detector leave of it.  Each clears the buffer. *)
Told ==
    /\ toDevice' \in Seq(HonestRequests)
    /\ port'.buffer = <<>>
    /\ detector'.wanted = detector.wanted
    /\ info' # "None"
    /\ Concluded'

LEMMA SendTells ==
    ASSUME Inv, LineHonest, NEW command \in Commands, NEW baud \in HostBauds,
           send(command, baud),
           command \in {"SetCoordinator", "SetRouter"}
              => command = SetDeviceType(detector.wanted)
    PROVE  /\ toDevice' \in Seq(HonestRequests)
           /\ port'.buffer = <<>>
           /\ port'.baud = baud
           /\ port'.command = IF command = "Restart" THEN Idle ELSE command
<1>1. port' = [baud |-> baud, buffer |-> <<>>,
               command |-> IF command = "Restart" THEN Idle ELSE command]
  BY Awaited DEF send
<1>2. [command |-> command, baud |-> baud] \in HonestRequests
  BY DEF HonestRequests, Requests
<1>3. toDevice' \in Seq(HonestRequests)
  BY <1>2, AppendProperties DEF send, LineHonest
<1> QED
  BY <1>1, <1>3

LEMMA ErrorTells ==
    ASSUME Inv, Honest, port.command # Idle, UNCHANGED device, onError
    PROVE  Told
<1>1. info = "Busy" /\ detector \in Detectors /\ port \in Ports
  BY Awaiting, InvTyped
<1>2. /\ resetStateEngine.buffer = <<>>
      /\ resetStateEngine.command = Idle
  BY <1>1 DEF resetStateEngine, Ports
<1>3. Idle \notin {"TestBaudrate", "GetDeviceType", "ReadPanId"}
  BY DEF Idle
<1>4. toDevice \in Seq(HonestRequests)
  BY DEF Honest, LineHonest
<1>5. ASSUME port' = resetStateEngine, UNCHANGED toDevice, info' \in {"Busy", "Failed"},
             detector'.wanted = detector.wanted
      PROVE  Told
  BY <1>2, <1>3, <1>4, <1>5 DEF Told, Concluded, FoundMeansProgrammed
<1>6. CASE test38400
  <2>1. "TestBaudrate" \in Commands /\ 38400 \in HostBauds
    BY CommandsAre DEF HostBauds
  <2>2. /\ toDevice' \in Seq(HonestRequests)
        /\ port'.buffer = <<>>
        /\ port'.command = "TestBaudrate"
    BY <1>6, <2>1, SendTells DEF test38400, Honest
  <2>3. /\ detector'.wanted = detector.wanted
        /\ detector'.state = "TestBaudRate38400"
        /\ info' = "Busy"
    BY <1>1, <1>6 DEF test38400, Detectors
  <2> QED
    BY <2>2, <2>3 DEF Told, Concluded, FoundMeansProgrammed
<1>7. ASSUME NEW left, detector' = [detector EXCEPT !.retries = left, !.timer = 250]
      PROVE  detector'.wanted = detector.wanted
  BY <1>1, <1>7 DEF Detectors
<1>8. ASSUME NEW left, detector' = [detector EXCEPT !.retries = left]
      PROVE  detector'.wanted = detector.wanted
  BY <1>1, <1>8 DEF Detectors
<1> QED
  BY <1>1, <1>5, <1>6, <1>7, <1>8 DEF onError

LEMMA EnterTells ==
    ASSUME Inv, Honest, port.command # Idle, UNCHANGED device,
           NEW state \in States \ {"TestBaudRate9600"},
           NEW command \in Commands \ {"Restart"}, enter(state, command, port.baud),
           command \in {"SetCoordinator", "SetRouter"}
              => command = SetDeviceType(detector.wanted),
           command = "GetDeviceType" => port.baud = 9600,
           command = "ReadPanId" => device.baud = 9600 /\ device.newType = detector.wanted
    PROVE  Told
<1>1. info = "Busy" /\ detector \in Detectors /\ port.baud \in HostBauds
  BY Awaiting, InvTyped DEF Ports
<1>2. /\ toDevice' \in Seq(HonestRequests)
      /\ port'.buffer = <<>>
      /\ port'.baud = port.baud
      /\ port'.command = command
  BY <1>1, SendTells DEF enter, Honest
<1>3. /\ detector'.wanted = detector.wanted
      /\ detector'.state = state
      /\ info' = "Busy"
  BY <1>1 DEF enter, Detectors
<1> QED
  BY <1>2, <1>3 DEF Told, Concluded, FoundMeansProgrammed

LEMMA RestartTells ==
    ASSUME Inv, Honest, port.command # Idle, UNCHANGED device, restart
    PROVE  Told
<1>1. info = "Busy" /\ detector \in Detectors /\ port.baud \in HostBauds
  BY Awaiting, InvTyped DEF Ports
<1>2. /\ toDevice' \in Seq(HonestRequests)
      /\ port'.buffer = <<>>
      /\ port'.command = Idle
  BY <1>1, SendTells, CommandsAre DEF restart, Honest
<1>3. detector'.wanted = detector.wanted /\ info' = "Busy"
  BY <1>1 DEF restart, Detectors
<1>4. Idle \notin {"TestBaudrate", "GetDeviceType", "ReadPanId"}
  BY DEF Idle
<1> QED
  BY <1>2, <1>3, <1>4 DEF Told, Concluded, FoundMeansProgrammed

(* As many bytes as a command awaits have been received.                   *)
LEMMA FirstReceived ==
    ASSUME LineHonest, port.command # Idle, port.command \in Commands \ {"Restart"},
           NEW data \in Seq(ReceivedBytes), Len(data) >= BytesExpected[port.command]
    PROVE  data[1] \in ReceivedBytes
<1>1. BytesExpected[port.command] > 0 /\ BytesExpected[port.command] \in Nat
  BY Awaited
<1>2. 1 \in 1 .. Len(data)
  BY <1>1, LenProperties
<1> QED
  BY <1>2, ElementOfSeq

LEMMA PacketTells ==
    ASSUME Inv, Honest, port.command # Idle, UNCHANGED device,
           NEW data \in Seq(ReceivedBytes), Len(data) >= BytesExpected[port.command],
           processPacket(port.command, data)
    PROVE  Told
<1>1. port.command \in Commands
  BY InvTyped DEF Ports
<1>2. /\ {"GetDeviceType", "SetBaudRate", "SetCoordinator", "SetRouter", "ReadPanId",
           "WritePanId"} \subseteq Commands \ {"Restart"}
      /\ {"GetDeviceType", "SetBaudrate9600", "GetPanId", "SetDeviceType", "SetPanId"}
            \subseteq States \ {"TestBaudRate9600"}
  BY CommandsAre DEF States
<1>3. CASE port.command = "TestBaudrate" /\ onBaudrateOk
  <2>1. Concluded
    BY DEF Honest
  <2>2. detector.state = "TestBaudRate9600" => port.baud = 9600
    BY <1>3, <2>1 DEF Concluded
  <2> QED
    BY <1>2, <1>3, <2>2, EnterTells DEF onBaudrateOk
<1>4. ASSUME port.command = "GetDeviceType",
             NEW type \in TypeRead(data), onTypeFound(type)
      PROVE  Told
  <2>1. CASE type = detector.wanted
    <3>1. data[1] = <<detector.wanted, 1>> /\ detector.wanted \in DeviceTypes
      BY <1>4, <2>1 DEF TypeRead
    <3>2. data[1] \in ReceivedBytes
      BY <1>1, <1>2, <1>4, FirstReceived DEF Honest
    <3>3. data[1][1] = detector.wanted /\ detector.wanted # Noise
      BY <3>1 DEF DeviceTypes, Coordinator, Router, Noise
    <3>4. port.baud = 9600
      BY <1>4 DEF Honest, Concluded
    <3>5. device.baud = 9600 /\ device.newType = detector.wanted
      BY <3>2, <3>3, <3>4 DEF ReceivedBytes, HonestBytes
    <3>6. enter("GetPanId", "ReadPanId", port.baud)
      BY <1>4, <2>1 DEF onTypeFound
    <3> QED
      BY <1>2, <3>5, <3>6, EnterTells
  <2>2. CASE type # detector.wanted
    <3>1. enter("SetDeviceType", SetDeviceType(detector.wanted), port.baud)
      BY <1>4, <2>2 DEF onTypeFound
    <3>2. SetDeviceType(detector.wanted) \in {"SetCoordinator", "SetRouter"}
      BY DEF SetDeviceType
    <3> QED
      BY <1>2, <3>1, <3>2, EnterTells
  <2> QED
    BY <2>1, <2>2
<1>5. CASE port.command = "ReadPanId" /\ onPanIdFound(IsAlone(data))
  <2>1. CASE enter("SetPanId", "WritePanId", port.baud)
    BY <1>2, <2>1, EnterTells
  <2>2. CASE /\ KeepsPanId(IsAlone(data))
             /\ info' = "Ok"
             /\ port' = resetStateEngine
             /\ UNCHANGED <<detector, toDevice>>
    <3>1. port'.buffer = <<>> /\ port'.command = Idle
      BY <2>2, InvTyped DEF resetStateEngine, Ports
    <3>2. device.baud = 9600 /\ device.newType = detector.wanted
      BY <1>5 DEF Honest, Concluded
    <3>3. detector.wanted = Router => ~device.joined
      <4>1. SUFFICES ASSUME detector.wanted = Router
                     PROVE  ~device.joined
        OBVIOUS
      <4>2. SubSeq(data, 1, 2) = Message(Alone, 2)
        BY <2>2, <4>1 DEF KeepsPanId, IsAlone
      <4>3. Len(data) >= 2
        BY <1>5 DEF BytesExpected
      <4>4. SubSeq(data, 1, 2)[1] = data[1]
        BY <4>3
      <4>5. Message(Alone, 2)[1] = <<Alone, 1>>
        BY DEF Message
      <4>6. data[1] \in ReceivedBytes
        BY <1>1, <1>2, <1>5, FirstReceived DEF Honest
      <4>7. data[1][1] = Alone
        BY <4>2, <4>4, <4>5
      <4> QED
        BY <4>6, <4>7 DEF ReceivedBytes, HonestBytes
    <3>4. toDevice \in Seq(HonestRequests)
      BY DEF Honest, LineHonest
    <3>5. Idle \notin {"TestBaudrate", "GetDeviceType", "ReadPanId"}
      BY DEF Idle
    <3> QED
      BY <2>2, <3>1, <3>2, <3>3, <3>4, <3>5 DEF Told, Concluded, FoundMeansProgrammed
  <2> QED
    BY <1>5, <2>1, <2>2 DEF onPanIdFound
<1>6. \/ port.command = "TestBaudrate" /\ onBaudrateOk
      \/ restart \/ onError
      \/ port.command = "GetDeviceType" /\ \E type \in TypeRead(data) : onTypeFound(type)
      \/ port.command = "ReadPanId" /\ onPanIdFound(IsAlone(data))
  BY DEF processPacket
<1> QED
  BY <1>3, <1>4, <1>5, <1>6, RestartTells, ErrorTells

-----------------------------------------------------------------------------
(* The steps.                                                              *)
LEMMA ReceivedHonest ==
    ASSUME Inv, LineHonest, toHost # <<>>, NEW n \in 1 .. 8, n <= Len(Head(toHost).bytes)
    PROVE  Received(n) \in Seq(ReceivedBytes)
<1>1. Head(toHost) \in HonestAnswers
  BY HeadTailProperties DEF LineHonest
<1>2. /\ Head(toHost).bytes \in Seq(HonestBytes)
      /\ Head(toHost).baud = 9600 => device.baud = 9600
  BY <1>1 DEF HonestAnswers
<1>3. CASE Head(toHost).baud = port.baud
  <2>1. HonestBytes \subseteq ReceivedBytes \/ (port.baud = 9600 /\ device.baud # 9600)
    BY DEF ReceivedBytes
  <2>2. Head(toHost).bytes \in Seq(ReceivedBytes)
    BY <1>2, <1>3, <2>1, WiderSeq
  <2>3. SubSeq(Head(toHost).bytes, 1, n) \in Seq(ReceivedBytes)
    BY <2>2, PartOf
  <2> QED
    BY <1>3, <2>3, ConcatProperties DEF Received, LineHonest
<1>4. CASE Head(toHost).baud # port.baud
  <2>1. \A i \in 1 .. 8 : <<Noise, i>> \in ReceivedBytes
    <3>1. Noise \in Contents /\ Noise # Alone /\ Noise \notin DeviceTypes
      BY DEF Contents, Noise, Alone, DeviceTypes, Coordinator, Router
    <3>2. detector.wanted # Noise
      BY <3>1, InvTyped DEF Detectors
    <3>3. \A i \in 1 .. 8 : <<Noise, i>> \in Bytes
      BY <3>1 DEF Bytes
    <3> QED
      BY <3>1, <3>2, <3>3 DEF ReceivedBytes, HonestBytes
  <2>2. Message(Noise, n) \in Seq(ReceivedBytes)
    <3>1. n \in 0 .. 8
      OBVIOUS
    <3> QED
      BY <2>1, <3>1, MessageOf
  <2> QED
    BY <1>4, <2>2, ConcatProperties DEF Received, LineHonest
<1> QED
  BY <1>3, <1>4

LEMMA ArrivesHonest ==
    ASSUME Inv, LineHonest, toHost # <<>>, NEW n \in 1 .. 8,
           n <= Len(Head(toHost).bytes), Arrives(n)
    PROVE  toHost' \in Seq(HonestAnswers)
<1> DEFINE reply == Head(toHost)
           rest == SubSeq(reply.bytes, n + 1, Len(reply.bytes))
<1>1. /\ reply \in HonestAnswers /\ Tail(toHost) \in Seq(HonestAnswers)
      /\ reply \in Answers /\ Len(reply.bytes) \in 0 .. 8 /\ reply.bytes \in Seq(Bytes)
  BY HeadTailProperties, FirstAnswer DEF LineHonest
<1>2. toHost' = IF rest = <<>> THEN Tail(toHost)
                ELSE <<[reply EXCEPT !.bytes = rest]>> \o Tail(toHost)
  BY DEF Arrives
<1>3. reply.bytes \in Seq(HonestBytes) /\ (reply.baud = 9600 => device.baud = 9600)
  BY <1>1 DEF HonestAnswers
<1>4. rest \in Seq(HonestBytes)
  BY <1>1, <1>3, PartOf
<1>5. rest \in Texts
  BY <1>1, TailTyped
<1> HIDE DEF rest, reply
<1>6. [reply EXCEPT !.bytes = rest] \in HonestAnswers
  <2> DEFINE left == [reply EXCEPT !.bytes = rest]
  <2>1. left \in Answers /\ left.bytes = rest /\ left.baud = reply.baud
    BY <1>1, <1>5 DEF Answers
  <2> HIDE DEF left
  <2>2. left \in HonestAnswers
    BY <1>3, <1>4, <2>1 DEF HonestAnswers
  <2> QED
    BY <2>2 DEF left
<1>7. <<[reply EXCEPT !.bytes = rest]>> \in Seq(HonestAnswers)
  BY <1>6
<1>8. <<[reply EXCEPT !.bytes = rest]>> \o Tail(toHost) \in Seq(HonestAnswers)
  BY <1>1, <1>7, ConcatProperties
<1> QED
  BY <1>1, <1>2, <1>8

(* While the converter stays as it is, and so does the wanted type, what is*)
(* on the line stays honest.                                               *)
LEMMA StaysHonest ==
    ASSUME UNCHANGED device, detector'.wanted = detector.wanted
    PROVE  /\ HonestBytes' = HonestBytes
           /\ HonestAnswers' = HonestAnswers
           /\ HonestRequests' = HonestRequests
           /\ port' = port => ReceivedBytes' = ReceivedBytes
           /\ port'.baud = port.baud => ReceivedBytes' = ReceivedBytes
           /\ DeviceHonest => DeviceHonest'
<1>1. HonestBytes' = HonestBytes
  BY DEF HonestBytes
<1>2. HonestAnswers' = HonestAnswers
  BY <1>1 DEF HonestAnswers
<1>3. HonestRequests' = HonestRequests
  BY DEF HonestRequests
<1>4. port'.baud = port.baud => ReceivedBytes' = ReceivedBytes
  BY <1>1 DEF ReceivedBytes
<1>5. DeviceHonest => DeviceHonest'
  BY DEF DeviceHonest
<1> QED
  BY <1>1, <1>2, <1>3, <1>4, <1>5

LEMMA ToldKeeps ==
    ASSUME Honest, Told, UNCHANGED device, toHost' \in Seq(HonestAnswers)
    PROVE  Honest'
<1>1. detector'.wanted = detector.wanted
  BY DEF Told
<1>2. toDevice' \in Seq(HonestRequests') /\ toHost' \in Seq(HonestAnswers')
  BY <1>1, StaysHonest DEF Told
<1>3. port'.buffer \in Seq(ReceivedBytes')
  BY EmptySeq DEF Told
<1>4. DeviceHonest'
  BY <1>1, StaysHonest DEF Honest
<1> QED
  BY <1>2, <1>3, <1>4 DEF Honest, LineHonest, Told, Untouched

LEMMA BeginsHonest ==
    ASSUME Init
    PROVE  Honest
<1>1. LineHonest
  BY EmptySeq DEF Init, LineHonest
<1>2. DeviceHonest
  BY DEF Init, DeviceHonest
<1>3. Concluded
  BY DEF Init, Concluded, Idle, FoundMeansProgrammed
<1>4. Untouched
  BY DEF Init, Untouched
<1> QED
  BY <1>1, <1>2, <1>3, <1>4 DEF Honest

LEMMA StartHonest ==
    ASSUME Inv, Honest, NEW type \in DeviceTypes, programStarted(type)
    PROVE  Honest'
<1>1. /\ toDevice = <<>> /\ toHost = <<>>
      /\ device.newType = device.type /\ device.newBaud = device.baud
  BY DEF programStarted, Honest, Untouched
<1>2. /\ detector'.wanted = type
      /\ detector'.state = "TestBaudRate9600"
      /\ info' = "Busy" /\ toHost' = <<>> /\ device' = device
  BY <1>1 DEF programStarted
<1>3. /\ port'.baud = 9600 /\ port'.buffer = <<>> /\ port'.command = "TestBaudrate"
      /\ toDevice' = Append(<<>>, [command |-> "TestBaudrate", baud |-> 9600])
  BY <1>1 DEF programStarted, send, BytesExpected
<1>4. [command |-> "TestBaudrate", baud |-> 9600] \in HonestRequests'
  BY CommandsAre DEF HonestRequests, Requests, HostBauds
<1>5. toDevice' \in Seq(HonestRequests')
  BY <1>3, <1>4, EmptySeq, AppendProperties
<1>6. LineHonest'
  BY <1>2, <1>3, <1>5, EmptySeq DEF LineHonest
<1>7. DeviceHonest'
  BY <1>1, <1>2 DEF DeviceHonest
<1>8. Concluded'
  BY <1>2, <1>3 DEF Concluded, FoundMeansProgrammed
<1>9. Untouched'
  BY <1>2 DEF Untouched
<1> QED
  BY <1>6, <1>7, <1>8, <1>9 DEF Honest

LEMMA ReadyReadHonest ==
    ASSUME Inv, Honest, NEW n \in 1 .. 8, onReadyRead(n)
    PROVE  Honest'
<1>1. /\ toHost # <<>> /\ n <= Len(Head(toHost).bytes) /\ Arrives(n)
      /\ device' = device
  BY DEF onReadyRead
<1>2. LineHonest /\ info # "None"
  BY <1>1 DEF Honest, Untouched
<1>3. toHost' \in Seq(HonestAnswers)
  BY <1>1, <1>2, ArrivesHonest
<1>4. Received(n) \in Seq(ReceivedBytes)
  BY <1>1, <1>2, ReceivedHonest
<1>5. CASE UNCHANGED <<port, toDevice, detector, info>>
  <2>1. /\ HonestAnswers' = HonestAnswers /\ HonestRequests' = HonestRequests
        /\ ReceivedBytes' = ReceivedBytes /\ DeviceHonest'
    BY <1>1, <1>5, StaysHonest DEF Honest
  <2>2. LineHonest'
    BY <1>2, <1>3, <1>5, <2>1 DEF LineHonest
  <2>3. Concluded' /\ Untouched'
    BY <1>1, <1>2, <1>5 DEF Honest, Concluded, FoundMeansProgrammed, Untouched
  <2> QED
    BY <2>1, <2>2, <2>3 DEF Honest
<1>6. CASE /\ port' = [port EXCEPT !.buffer = Received(n)]
           /\ UNCHANGED <<toDevice, detector, info>>
  <2>1. /\ port'.buffer = Received(n) /\ port'.baud = port.baud
        /\ port'.command = port.command
    BY <1>6, InvTyped DEF Ports
  <2>2. /\ HonestAnswers' = HonestAnswers /\ HonestRequests' = HonestRequests
        /\ ReceivedBytes' = ReceivedBytes /\ DeviceHonest'
    BY <1>1, <1>6, <2>1, StaysHonest DEF Honest
  <2>3. LineHonest'
    BY <1>2, <1>3, <1>4, <1>6, <2>1, <2>2 DEF LineHonest
  <2>4. Concluded' /\ Untouched'
    BY <1>1, <1>2, <1>6, <2>1 DEF Honest, Concluded, FoundMeansProgrammed, Untouched
  <2> QED
    BY <2>2, <2>3, <2>4 DEF Honest
<1>7. CASE /\ port.command # Idle
           /\ Len(Received(n)) >= BytesExpected[port.command]
           /\ processPacket(port.command, Received(n))
  BY <1>1, <1>3, <1>4, <1>7, PacketTells, ToldKeeps
<1> QED
  BY <1>5, <1>6, <1>7 DEF onReadyRead

LEMMA TimeoutHonest ==
    ASSUME Inv, Honest, onTimeout
    PROVE  Honest'
<1>1. Told
  BY ErrorTells DEF onTimeout
<1> QED
  BY <1>1, ToldKeeps DEF onTimeout, Honest, LineHonest

LEMMA TimerHonest ==
    ASSUME Inv, Honest, onTimer
    PROVE  Honest'
<1>1. info = "Busy" /\ detector \in Detectors
  BY InvTyped DEF onTimer, Inv, OneActivity
<1>2. "TestBaudrate" \in Commands /\ 9600 \in HostBauds /\ port.baud \in HostBauds
  BY CommandsAre, InvTyped DEF HostBauds, Ports
<1>3. /\ toDevice' \in Seq(HonestRequests)
      /\ port'.buffer = <<>>
      /\ port'.command = "TestBaudrate"
  BY <1>2, SendTells DEF onTimer, Honest
<1>4. /\ detector'.wanted = detector.wanted
      /\ detector'.state = "TestBaudRate9600" => port'.baud = 9600
  <2>1. CASE detector.state # "TestBaudRate38400"
    <3>1. port'.baud = 9600
      BY <1>2, <2>1, SendTells DEF onTimer, Honest
    <3>2. detector' = [detector EXCEPT !.state = "TestBaudRate9600", !.timer = 0]
      BY <2>1 DEF onTimer
    <3> QED
      BY <1>1, <3>1, <3>2 DEF Detectors
  <2>2. CASE detector.state = "TestBaudRate38400"
    BY <1>1, <2>2 DEF onTimer, Detectors
  <2> QED
    BY <2>1, <2>2
<1>5. Told
  BY <1>1, <1>3, <1>4 DEF onTimer, Told, Concluded, FoundMeansProgrammed
<1> QED
  BY <1>5, ToldKeeps DEF onTimer, Honest, LineHonest

(* What a converter has once told stays so.                                *)
LEMMA ObeyAdvances ==
    ASSUME Inv, Honest, NEW request \in HonestRequests, device' = Obey(request.command),
           UNCHANGED detector
    PROVE  /\ DeviceHonest'
           /\ device.newType = detector.wanted => device'.newType = detector.wanted
           /\ device.baud = 9600 => device'.baud = 9600
           /\ device'.joined => device.joined
           /\ request.command \in {"SetCoordinator", "SetRouter"}
                 => device'.newType = detector.wanted
<1>1. device \in Devices /\ DeviceHonest
  BY DEF Inv, LineTyped, Honest
<1>2. detector.wanted \in DeviceTypes /\ request.command \in Commands
  BY InvTyped DEF Detectors, HonestRequests, Requests
<1>3. CASE request.command = "SetBaudRate"
  BY <1>1, <1>3 DEF Obey, Devices, DeviceHonest
<1>4. CASE request.command \in {"SetCoordinator", "SetRouter"}
  <2>1. request.command = SetDeviceType(detector.wanted)
    BY <1>4 DEF HonestRequests
  <2>2. device' = [device EXCEPT !.newType = detector.wanted]
    BY <1>2, <1>4, <2>1 DEF Obey, SetDeviceType, DeviceTypes, Coordinator, Router
  <2> QED
    BY <1>1, <2>2 DEF Devices, DeviceHonest
<1>5. CASE request.command = "WritePanId"
  BY <1>1, <1>5 DEF Obey, Devices, DeviceHonest
<1>6. CASE request.command = "Restart"
  <2>1. device' = [device EXCEPT !.baud = device.newBaud, !.type = device.newType,
                                 !.joined = @ /\ ~device.newPan /\ device.newType = device.type,
                                 !.newPan = FALSE]
    BY <1>6 DEF Obey
  <2>2. /\ device'.baud = device.newBaud /\ device'.type = device.newType
        /\ device'.newBaud = device.newBaud /\ device'.newType = device.newType
        /\ device'.joined => device.joined
    BY <1>1, <2>1 DEF Devices
  <2> QED
    BY <1>1, <1>6, <2>2 DEF DeviceHonest
<1>7. CASE request.command \in {"TestBaudrate", "GetDeviceType", "ReadPanId"}
  BY <1>1, <1>7 DEF Obey, DeviceHonest
<1> QED
  BY <1>2, <1>3, <1>4, <1>5, <1>6, <1>7, CommandsAre

LEMMA AnswersHonest ==
    ASSUME Inv, Honest, DeviceAnswers
    PROVE  Honest'
<1> DEFINE request == Head(toDevice)
<1>1. /\ toDevice # <<>> /\ toDevice' = Tail(toDevice)
      /\ UNCHANGED <<port, detector, info>>
      /\ info # "None"
  BY DEF DeviceAnswers, Honest, Untouched
<1>2. LineHonest /\ DeviceHonest /\ Concluded /\ device \in Devices
  BY DEF Honest, Inv, LineTyped
<1>3. request \in HonestRequests /\ toDevice' \in Seq(HonestRequests)
  BY <1>1, <1>2, HeadTailProperties DEF LineHonest
<1>4. CASE UNCHANGED <<device, toHost>>
  <2>1. /\ HonestAnswers' = HonestAnswers /\ HonestRequests' = HonestRequests
        /\ ReceivedBytes' = ReceivedBytes /\ DeviceHonest'
    BY <1>1, <1>2, <1>4, StaysHonest
  <2>2. LineHonest'
    BY <1>1, <1>2, <1>3, <1>4, <2>1 DEF LineHonest
  <2>3. Concluded' /\ Untouched'
    BY <1>1, <1>2, <1>4 DEF Concluded, FoundMeansProgrammed, Untouched
  <2> QED
    BY <2>1, <2>2, <2>3 DEF Honest
<1>5. CASE /\ device' = Obey(request.command)
           /\ toHost' = IF Answer(request.command) = <<>> THEN toHost
                        ELSE Append(toHost, [baud |-> device.baud,
                                             bytes |-> Answer(request.command)])
  <2>1. /\ DeviceHonest'
        /\ device.newType = detector.wanted => device'.newType = detector.wanted
        /\ device.baud = 9600 => device'.baud = 9600
        /\ device'.joined => device.joined
        /\ request.command \in {"SetCoordinator", "SetRouter"}
              => device'.newType = detector.wanted
    BY <1>1, <1>3, <1>5, ObeyAdvances
  <2>2. HonestBytes \subseteq HonestBytes'
    BY <1>1, <2>1 DEF HonestBytes
  <2>3. HonestAnswers \subseteq HonestAnswers'
    <3>1. ASSUME NEW a \in HonestAnswers
          PROVE  a \in HonestAnswers'
      <4>1. a \in Answers /\ a.bytes \in Seq(HonestBytes) /\ (a.baud = 9600 => device.baud = 9600)
        BY DEF HonestAnswers
      <4>2. a.bytes \in Seq(HonestBytes')
        BY <2>2, <4>1, WiderSeq
      <4> QED
        BY <2>1, <4>1, <4>2 DEF HonestAnswers
    <3> QED
      BY <3>1
  <2>4. ReceivedBytes \subseteq ReceivedBytes'
    BY <1>1, <2>1, <2>2 DEF ReceivedBytes
  <2>5. HonestRequests' = HonestRequests
    BY <1>1 DEF HonestRequests
  <2>6. Answer(request.command) \in Texts /\ Answer(request.command) \in Seq(HonestBytes')
    <3>1. request.command \in Commands
      BY <1>3 DEF HonestRequests, Requests
    <3>2. BytesExpected[request.command] \in 0 .. 8
      BY <3>1, Awaited
    <3>3. ASSUME NEW content \in Contents,
                 content = detector.wanted => device'.newType = detector.wanted,
                 content = Alone => ~device'.joined
          PROVE  Message(content, BytesExpected[request.command]) \in Seq(HonestBytes')
      <4>1. \A i \in 1 .. 8 : <<content, i>> \in Bytes
        BY DEF Bytes
      <4>2. \A i \in 1 .. 8 : <<content, i>> \in HonestBytes'
        BY <1>1, <3>3, <4>1 DEF HonestBytes
      <4> QED
        BY <3>2, <4>2, MessageOf
    <3>4. /\ {Version, BaudSet, PanWritten, Alone, Joined, Coordinator, Router} \subseteq Contents
          /\ device.type \in Contents /\ device.type # Alone
          /\ detector.wanted \notin {Version, BaudSet, PanWritten, Alone, Joined}
          /\ Alone \notin {Version, BaudSet, PanWritten, Joined, Coordinator, Router}
      BY <1>2, InvTyped DEF Contents, Devices, DeviceTypes, Detectors, Version, BaudSet,
                            PanWritten, Alone, Joined, Coordinator, Router
    <3>5. device.type = detector.wanted => device'.newType = detector.wanted
      BY <1>2, <2>1 DEF DeviceHonest
    <3>6. Answer(request.command) \in Seq(HonestBytes')
      <4>1. CASE request.command = "GetDeviceType"
        BY <3>3, <3>4, <3>5, <4>1 DEF Answer
      <4>2. CASE request.command \in {"SetCoordinator", "SetRouter"}
        BY <2>1, <3>3, <3>4, <4>2 DEF Answer
      <4>3. CASE request.command = "ReadPanId"
        BY <2>1, <3>3, <3>4, <4>3 DEF Answer
      <4>4. CASE request.command \in {"TestBaudrate", "WritePanId", "SetBaudRate", "Restart"}
        BY <3>3, <3>4, <4>4 DEF Answer
      <4> QED
        BY <3>1, <4>1, <4>2, <4>3, <4>4, CommandsAre
    <3> QED
      BY <3>1, <3>6, AnswerTyped
  <2>7. [baud |-> device.baud, bytes |-> Answer(request.command)] \in HonestAnswers'
    <3> DEFINE answer == [baud |-> device.baud, bytes |-> Answer(request.command)]
    <3>1. /\ answer \in Answers /\ answer.baud = device.baud
          /\ answer.bytes = Answer(request.command)
      BY <1>2, <2>6 DEF Answers, Devices
    <3> HIDE DEF answer
    <3>2. answer \in HonestAnswers'
      BY <2>1, <2>6, <3>1 DEF HonestAnswers
    <3> QED
      BY <3>2 DEF answer
  <2>8. toHost \in Seq(HonestAnswers')
    BY <1>2, <2>3, WiderSeq DEF LineHonest
  <2>9. toHost' \in Seq(HonestAnswers')
    BY <1>5, <2>7, <2>8, AppendProperties
  <2>10. port'.buffer \in Seq(ReceivedBytes')
    BY <1>1, <1>2, <2>4, WiderSeq DEF LineHonest
  <2>11. LineHonest'
    BY <1>3, <2>5, <2>9, <2>10 DEF LineHonest
  <2>12. Concluded' /\ Untouched'
    BY <1>1, <1>2, <2>1 DEF Concluded, FoundMeansProgrammed, Untouched
  <2> QED
    BY <2>1, <2>11, <2>12 DEF Honest
<1> QED
  BY <1>4, <1>5 DEF DeviceAnswers

LEMMA FailsHonest ==
    ASSUME Inv, Honest, LineFails
    PROVE  Honest'
<1>1. UNCHANGED <<port, detector, info, device>> /\ info # "None"
  BY DEF LineFails, Honest, Untouched
<1>2. LineHonest
  BY DEF Honest
<1>3. toDevice' \in Seq(HonestRequests) /\ toHost' \in Seq(HonestAnswers)
  <2>1. CASE toDevice # <<>> /\ toDevice' = Tail(toDevice) /\ UNCHANGED toHost
    BY <1>2, <2>1, HeadTailProperties DEF LineHonest
  <2>2. CASE toHost # <<>> /\ toHost' = Tail(toHost) /\ UNCHANGED toDevice
    BY <1>2, <2>2, HeadTailProperties DEF LineHonest
  <2>3. CASE /\ toHost # <<>>
             /\ toHost' = [toHost EXCEPT ![1].bytes = Message(Noise, Len(@))]
             /\ UNCHANGED toDevice
    <3> DEFINE reply == toHost[1]
               noise == Message(Noise, Len(reply.bytes))
               noisy == [reply EXCEPT !.bytes = noise]
    <3>1. 1 \in 1 .. Len(toHost) /\ Head(toHost) = toHost[1] /\ reply \in HonestAnswers
      BY <1>2, <2>3, EmptySeq DEF LineHonest
    <3>2. Len(reply.bytes) \in 0 .. 8
      BY <2>3, <3>1, FirstAnswer
    <3>3. noise \in Texts
      BY <3>2, MessageTyped DEF Contents
    <3>4. \A i \in 1 .. 8 : <<Noise, i>> \in HonestBytes
      <4>1. Noise \in Contents /\ Noise # Alone /\ Noise \notin DeviceTypes
        BY DEF Contents, Noise, Alone, DeviceTypes, Coordinator, Router
      <4>2. detector.wanted # Noise
        BY <4>1, InvTyped DEF Detectors
      <4>3. \A i \in 1 .. 8 : <<Noise, i>> \in Bytes
        BY <4>1 DEF Bytes
      <4> QED
        BY <4>1, <4>2, <4>3 DEF HonestBytes
    <3>5. noise \in Seq(HonestBytes)
      BY <3>2, <3>4, MessageOf
    <3>6. noisy \in HonestAnswers
      <4> HIDE DEF noise, reply
      <4>1. reply \in Answers /\ (reply.baud = 9600 => device.baud = 9600)
        BY <3>1 DEF HonestAnswers
      <4>2. noisy \in Answers /\ noisy.baud = reply.baud /\ noisy.bytes = noise
        BY <3>3, <4>1 DEF Answers
      <4> HIDE DEF noisy
      <4> QED
        BY <3>5, <4>1, <4>2 DEF HonestAnswers
    <3>7. toHost' = [toHost EXCEPT ![1] = noisy]
      BY <2>3
    <3> HIDE DEF noisy
    <3>8. [toHost EXCEPT ![1] = noisy] \in Seq(HonestAnswers)
      BY <1>2, <3>1, <3>6, ExceptSeq DEF LineHonest
    <3> QED
      BY <1>2, <2>3, <3>7, <3>8 DEF LineHonest
  <2> QED
    BY <2>1, <2>2, <2>3 DEF LineFails
<1>4. /\ HonestAnswers' = HonestAnswers /\ HonestRequests' = HonestRequests
      /\ ReceivedBytes' = ReceivedBytes /\ DeviceHonest'
  BY <1>1, StaysHonest DEF Honest
<1>5. LineHonest'
  BY <1>1, <1>2, <1>3, <1>4 DEF LineHonest
<1>6. Concluded' /\ Untouched'
  BY <1>1 DEF Honest, Concluded, FoundMeansProgrammed, Untouched
<1> QED
  BY <1>4, <1>5, <1>6 DEF Honest

LEMMA HonestyPreserved ==
    ASSUME Inv, Honest, [Next]_vars
    PROVE  Honest'
<1>1. CASE UNCHANGED vars
  <2>1. /\ HonestAnswers' = HonestAnswers /\ HonestRequests' = HonestRequests
        /\ ReceivedBytes' = ReceivedBytes /\ DeviceHonest'
    BY <1>1, StaysHonest DEF Honest, vars
  <2> QED
    BY <1>1, <2>1 DEF vars, Honest, LineHonest, Concluded, FoundMeansProgrammed, Untouched
<1>2. CASE Next
  BY <1>2, StartHonest, ReadyReadHonest, TimeoutHonest, TimerHonest, AnswersHonest, FailsHonest
     DEF Next
<1> QED
  BY <1>1, <1>2

(* A converter that the user is told to be programmed talks at 9600 baud,  *)
(* is what was wanted or will be with its next restart, and has left the   *)
(* network it was in (qml/main.qml:15, drf1600_detector.cpp:50), however   *)
(* many replies are lost, damaged or so late that they are taken for       *)
(* others (drf1600.cpp:140).                                               *)
THEOREM SuccessIsGenuine == Spec => []FoundMeansProgrammed
<1>1. Init => Honest
  BY BeginsHonest
<1>2. Inv /\ Honest /\ [Next]_vars => Honest'
  BY HonestyPreserved
<1>3. Honest => FoundMeansProgrammed
  BY DEF Honest, Concluded
<1> QED
  BY <1>1, <1>2, <1>3, Invariant, PTL DEF Spec

-----------------------------------------------------------------------------
(* A program that fails.  Each fault costs at most one retry, because the  *)
(* fault it costs comes first: between two errors there is either a fault, *)
(* or a request that the converter understands and whose reply, when it    *)
(* comes, is what it is taken for.  The retries used are paid for, with    *)
(* Paid(n), if there have been that many faults and n more.                *)
Paid(n) == faults >= RetryCount - detector.retries + n

RepliesTo(command) ==
    IF command \in {"GetDeviceType", "SetCoordinator", "SetRouter"} THEN DeviceTypes
    ELSE Contents

(* What is awaited is on the line, and nothing else.                       *)
Asked ==
    /\ toDevice = <<[command |-> port.command, baud |-> port.baud]>>
    /\ toHost = <<>> /\ port.buffer = <<>>

Answered ==
    /\ toDevice = <<>>
    /\ toHost # <<>> /\ Tail(toHost) = <<>>
    /\ Head(toHost).baud = port.baud
    /\ \E content \in RepliesTo(port.command) :
          port.buffer \o Head(toHost).bytes = Message(content, BytesExpected[port.command])

OnTrack == device.baud = port.baud /\ (Asked \/ Answered)

(* The retries at 9600 baud, of a converter that talks at 38400 baud: they *)
(* cost no fault, but those at 38400 baud are still to come.               *)
SlowRequests == {r \in Requests : r.baud = 9600}

Searching ==
    /\ device.baud = 38400 /\ detector.state = "TestBaudRate9600"
    /\ toDevice \in Seq(SlowRequests) /\ toHost = <<>>

(* And once they have come, it is not told to restart before it is told to *)
(* talk at 9600 baud.                                                      *)
KeptRequests == {r \in Requests : r.baud = 38400 => r.command # "Restart"}

Testing38400 ==
    detector.state = "TestBaudRate38400" =>
        /\ port.baud = 38400 /\ device.baud = 38400
        /\ toDevice \in Seq(KeptRequests)

Retrying ==
    \/ Searching
    \/ Paid(1)
    \/ Paid(0) /\ (port.command # Idle => OnTrack)

Mendable == info = "Busy" /\ device.baud \in HostBauds /\ faults < RetryCount

(* What the engine can wait for in the state it is in.                     *)
Asking ==
    /\ port.command # "Restart"
    /\ detector.state = "TestBaudRate38400" => port.command \in {Idle, "TestBaudrate"}

Accounts ==
    /\ device.newBaud \in {device.baud, 9600}
    /\ Asking
    /\ Mendable => Testing38400 /\ Retrying
    /\ FailsOnlyAfterFaults

LEMMA PaidTyped ==
    ASSUME Inv
    PROVE  /\ RetryCount \in Nat \ {0} /\ detector.retries \in 0 .. RetryCount
           /\ faults \in Nat /\ Requests = [command : Commands, baud : HostBauds]
           /\ toDevice \in Seq(Requests) /\ toHost \in Seq(Answers)
BY InvTyped, DetectorAssumption DEF Inv, LineTyped, Detectors, Retries, Requests

LEMMA SendEffects ==
    ASSUME NEW command \in Commands, NEW baud, send(command, baud)
    PROVE  /\ port'.baud = baud /\ port'.buffer = <<>>
           /\ port'.command = IF command = "Restart" THEN Idle ELSE command
           /\ toDevice' = Append(toDevice, [command |-> command, baud |-> baud])
BY Awaited DEF send

LEMMA SendAsks ==
    ASSUME NEW command \in Commands \ {"Restart"}, NEW baud, send(command, baud),
           toDevice = <<>>, toHost' = <<>>
    PROVE  Asked'
<1>1. /\ port'.baud = baud /\ port'.buffer = <<>> /\ port'.command = command
      /\ toDevice' = Append(<<>>, [command |-> command, baud |-> baud])
  BY SendEffects
<1>2. \A x : Append(<<>>, x) = <<x>>
  OBVIOUS
<1> QED
  BY <1>1, <1>2 DEF Asked

(* What a program in progress owes before a step and after it.             *)
LEMMA StaysMendable ==
    ASSUME Inv, UNCHANGED device, faults' \in Nat, faults' >= faults, Mendable', info = "Busy"
    PROVE  Mendable
BY PaidTyped DEF Mendable

LEMMA FailureStays ==
    ASSUME Inv, Accounts, UNCHANGED device, faults' \in Nat, faults' >= faults,
           info' = info \/ info' # "Failed"
    PROVE  device'.newBaud \in {device'.baud, 9600} /\ FailsOnlyAfterFaults'
BY PaidTyped DEF Accounts, FailsOnlyAfterFaults

(* An error is paid for, or is one of those at 9600 baud.                  *)
LEMMA ErrorAccounts ==
    ASSUME Inv, Accounts, port.command # Idle, onError, UNCHANGED device,
           faults' \in Nat, faults' >= faults,
           device.baud \in HostBauds /\ faults' < RetryCount
              => \/ Searching /\ toHost' = <<>> /\ (toDevice = <<>> \/ faults' > 0)
                 \/ faults' >= RetryCount - detector.retries + 1
    PROVE  Accounts'
<1> DEFINE left == detector.retries - 1
<1>1. /\ info = "Busy" /\ detector \in Detectors /\ detector.retries \in 1 .. RetryCount
      /\ RetryCount \in Nat /\ faults \in Nat
  BY Awaiting, InvTyped, PaidTyped
<1>2. /\ resetStateEngine.command = Idle /\ resetStateEngine.baud = port.baud
  BY InvTyped DEF resetStateEngine, Ports
<1>3. device.newBaud \in {device.baud, 9600} /\ Asking /\ (Mendable => Testing38400)
  BY DEF Accounts
<1>4. Mendable' => Mendable
  BY <1>1, StaysMendable
<1>5. left \in 0 .. RetryCount /\ (left <= 0 => left = 0 /\ detector.retries = 1)
  BY <1>1
<1>6. CASE /\ left > 0
           /\ detector' = [detector EXCEPT !.retries = left, !.timer = 250]
           /\ port' = resetStateEngine
           /\ UNCHANGED <<toDevice, info>>
  <2> HIDE DEF left
  <2>1. detector'.state = detector.state /\ detector'.retries = left
    BY <1>1, <1>6 DEF Detectors
  <2>2. port'.command = Idle /\ port'.baud = port.baud /\ toDevice' = toDevice /\ info' = info
    BY <1>2, <1>6
  <2>3. Asking'
    BY <2>2, IdleIsNone, CommandsAre DEF Asking
  <2>4. Testing38400' <=> Testing38400
    BY <2>1, <2>2 DEF Testing38400
  <2>5. ASSUME Mendable'
        PROVE  Retrying'
    <3>1. CASE Searching /\ toHost' = <<>>
      BY <2>1, <2>2, <3>1 DEF Searching, Retrying
    <3>2. CASE faults' >= RetryCount - detector.retries + 1
      <4>1. faults' >= RetryCount - left + 0
        BY <1>1, <3>2 DEF left
      <4>2. Paid(0)'
        BY <2>1, <4>1 DEF Paid
      <4> QED
        BY <2>2, <4>2 DEF Retrying
    <3> QED
      BY <2>5, <3>1, <3>2 DEF Mendable
  <2>6. device'.newBaud \in {device'.baud, 9600} /\ FailsOnlyAfterFaults'
    BY <2>2, FailureStays
  <2> QED
    BY <1>3, <1>4, <2>3, <2>4, <2>5, <2>6 DEF Accounts
<1>7. CASE left <= 0 /\ HasOtherBaud /\ test38400
  <2>1. "TestBaudrate" \in Commands \ {"Restart"}
    BY CommandsAre
  <2>2. send("TestBaudrate", 38400) /\ info' = info
    BY <1>7 DEF test38400
  <2>3. /\ port'.baud = 38400 /\ port'.command = "TestBaudrate"
        /\ toDevice' = Append(toDevice, [command |-> "TestBaudrate", baud |-> 38400])
    BY <2>1, <2>2, SendEffects
  <2>4. detector'.state = "TestBaudRate38400" /\ detector'.retries = RetryCount
    BY <1>1, <1>7 DEF test38400, Detectors
  <2>5. Asking'
    BY <2>3 DEF Asking
  <2>6. ASSUME Mendable'
        PROVE  Testing38400' /\ Retrying'
    <3>1. Searching /\ toHost' = <<>> /\ (toDevice = <<>> \/ faults' > 0)
      BY <1>1, <1>5, <1>7, <2>6 DEF Mendable
    <3>2. toDevice' \in Seq(KeptRequests)
      <4>1. SlowRequests \subseteq KeptRequests
        BY DEF SlowRequests, KeptRequests
      <4>2. toDevice \in Seq(KeptRequests)
        BY <3>1, <4>1, WiderSeq DEF Searching
      <4>3. [command |-> "TestBaudrate", baud |-> 38400] \in KeptRequests
        BY <2>1 DEF KeptRequests, Requests, HostBauds
      <4> QED
        BY <2>3, <4>2, <4>3, AppendProperties
    <3>3. Testing38400'
      BY <2>3, <3>1, <3>2 DEF Testing38400, Searching
    <3>4. CASE toDevice = <<>>
      <4>1. Asked'
        BY <2>1, <2>2, <3>1, <3>4, SendAsks
      <4>2. OnTrack'
        BY <2>3, <3>1, <4>1 DEF OnTrack, Searching
      <4>3. faults' >= RetryCount - RetryCount + 0
        BY <1>1
      <4>4. Paid(0)'
        BY <2>4, <4>3 DEF Paid
      <4> QED
        BY <3>3, <4>2, <4>4 DEF Retrying
    <3>5. CASE faults' > 0
      <4>1. faults' >= RetryCount - RetryCount + 1
        BY <1>1, <3>5
      <4>2. Paid(1)'
        BY <2>4, <4>1 DEF Paid
      <4> QED
        BY <3>3, <4>2 DEF Retrying
    <3> QED
      BY <3>1, <3>4, <3>5
  <2>7. device'.newBaud \in {device'.baud, 9600} /\ FailsOnlyAfterFaults'
    BY <2>2, FailureStays
  <2> QED
    BY <2>5, <2>6, <2>7 DEF Accounts
<1>8. CASE /\ left <= 0
           /\ ~HasOtherBaud
           /\ detector' = [detector EXCEPT !.retries = left]
           /\ info' = "Failed"
           /\ port' = resetStateEngine
           /\ UNCHANGED toDevice
  <2>1. port'.command = Idle /\ ~Mendable'
    BY <1>2, <1>8 DEF Mendable
  <2>2. Asking'
    BY <2>1, IdleIsNone, CommandsAre DEF Asking
  <2>3. ASSUME device.baud \in HostBauds, faults' < RetryCount
        PROVE  FALSE
    <3>1. detector.retries = 1
      BY <1>5, <1>8
    <3>2. ~Searching
      BY <1>8 DEF Searching, HasOtherBaud
    <3> QED
      BY <1>1, <2>3, <3>1, <3>2
  <2>4. FailsOnlyAfterFaults'
    BY <1>1, <2>3 DEF FailsOnlyAfterFaults
  <2> QED
    BY <1>3, <2>1, <2>2, <2>4 DEF Accounts
<1> QED
  BY <1>6, <1>7, <1>8 DEF onError

LEMMA EnterAccounts ==
    ASSUME Inv, Accounts, port.command # Idle, UNCHANGED <<device, faults>>,
           NEW state \in States \ {"TestBaudRate38400"},
           NEW command \in Commands \ {"Restart"}, enter(state, command, port.baud),
           Mendable => \/ Paid(1)
                       \/ /\ Paid(0) /\ device.baud = port.baud
                          /\ toDevice = <<>> /\ toHost' = <<>>
    PROVE  Accounts'
<1>1. info = "Busy" /\ detector \in Detectors /\ faults \in Nat
  BY Awaiting, InvTyped, PaidTyped
<1>2. /\ send(command, port.baud) /\ info' = info
      /\ detector'.state = state /\ detector'.retries = detector.retries
  BY <1>1 DEF enter, Detectors
<1>3. port'.baud = port.baud /\ port'.command = command
  BY <1>2, SendEffects
<1>4. Asking' /\ Testing38400'
  BY <1>2, <1>3 DEF Asking, Testing38400
<1>5. faults' \in Nat /\ faults' >= faults
  BY <1>1
<1>6. ASSUME Mendable'
      PROVE  Retrying'
  <2>1. Mendable
    BY <1>1, <1>5, <1>6, StaysMendable
  <2>2. (Paid(0) => Paid(0)') /\ (Paid(1) => Paid(1)')
    BY <1>2 DEF Paid
  <2>3. CASE Paid(1)
    BY <2>2, <2>3 DEF Retrying
  <2>4. CASE Paid(0) /\ device.baud = port.baud /\ toDevice = <<>> /\ toHost' = <<>>
    <3>1. Asked'
      BY <1>2, <2>4, SendAsks
    <3> QED
      BY <1>3, <2>2, <2>4, <3>1 DEF Retrying, OnTrack
  <2> QED
    BY <2>1, <2>3, <2>4
<1>7. device'.newBaud \in {device'.baud, 9600} /\ FailsOnlyAfterFaults'
  BY <1>2, <1>5, FailureStays
<1> QED
  BY <1>4, <1>6, <1>7 DEF Accounts

LEMMA RestartAccounts ==
    ASSUME Inv, Accounts, port.command \notin {Idle, "TestBaudrate"},
           UNCHANGED <<device, faults>>, restart, Mendable => Paid(0)
    PROVE  Accounts'
<1>1. info = "Busy" /\ detector \in Detectors /\ faults \in Nat
  BY Awaiting, InvTyped, PaidTyped
<1>2. /\ send("Restart", port.baud) /\ info' = info
      /\ detector'.state = detector.state /\ detector'.retries = detector.retries
  BY <1>1 DEF restart, Detectors
<1>3. port'.command = Idle
  BY <1>2, SendEffects, CommandsAre
<1>4. Asking' /\ Testing38400'
  BY <1>2, <1>3, IdleIsNone, CommandsAre DEF Accounts, Asking, Testing38400
<1>5. faults' \in Nat /\ faults' >= faults
  BY <1>1
<1>6. Mendable' => Retrying'
  <2>1. Mendable' => Paid(0)
    BY <1>1, <1>5, StaysMendable
  <2>2. Paid(0) => Paid(0)'
    BY <1>2 DEF Paid
  <2> QED
    BY <1>3, <2>1, <2>2 DEF Retrying
<1>7. device'.newBaud \in {device'.baud, 9600} /\ FailsOnlyAfterFaults'
  BY <1>2, <1>5, FailureStays
<1> QED
  BY <1>4, <1>6, <1>7 DEF Accounts

(* The reply of a converter that is asked is what it is taken for.         *)
LEMMA PacketAccounts ==
    ASSUME Inv, Accounts, port.command # Idle, UNCHANGED <<device, faults>>,
           NEW data, processPacket(port.command, data),
           Mendable =>
              \/ Paid(1)
              \/ /\ Paid(0) /\ device.baud = port.baud
                 /\ toDevice = <<>> /\ toHost' = <<>>
                 /\ \E content \in RepliesTo(port.command) :
                       data = Message(content, BytesExpected[port.command])
    PROVE  Accounts'
<1> DEFINE command == port.command
<1>1. /\ info = "Busy" /\ command \in Commands \ {"Restart"}
      /\ faults \in Nat /\ detector.retries \in 0 .. RetryCount /\ RetryCount \in Nat
  BY Awaiting, InvTyped, PaidTyped DEF Ports, Accounts, Asking
<1>2. Mendable => \/ Paid(1)
                  \/ /\ Paid(0) /\ device.baud = port.baud
                     /\ toDevice = <<>> /\ toHost' = <<>>
  OBVIOUS
<1>3. Mendable => Paid(0)
  BY <1>1 DEF Paid
<1>4. faults' \in Nat /\ faults' >= faults
  BY <1>1
<1>5. ASSUME onError,
             ~\E content \in RepliesTo(command) : data = Message(content, BytesExpected[command])
      PROVE  Accounts'
  <2>1. device.baud \in HostBauds /\ faults' < RetryCount => Mendable
    BY <1>1 DEF Mendable
  <2>2. Mendable => faults' >= RetryCount - detector.retries + 1
    BY <1>5 DEF Paid
  <2> QED
    BY <1>4, <1>5, <2>1, <2>2, ErrorAccounts
<1>6. /\ {"GetDeviceType", "SetBaudRate", "SetCoordinator", "SetRouter", "ReadPanId",
           "WritePanId"} \subseteq Commands \ {"Restart"}
      /\ {"GetDeviceType", "SetBaudrate9600", "GetPanId", "SetDeviceType", "SetPanId"}
            \subseteq States \ {"TestBaudRate38400"}
  BY CommandsAre DEF States
<1>7. CASE command = "TestBaudrate"
  <2>1. onBaudrateOk
    BY <1>7 DEF processPacket
  <2> QED
    BY <1>2, <1>6, <2>1, EnterAccounts DEF onBaudrateOk
<1>8. CASE command = "GetDeviceType"
  <2>1. ASSUME NEW type, onTypeFound(type)
        PROVE  Accounts'
    BY <1>2, <1>6, <2>1, EnterAccounts DEF onTypeFound, SetDeviceType
  <2>2. CASE \E type \in TypeRead(data) : onTypeFound(type)
    BY <2>1, <2>2
  <2>3. CASE onError /\ TypeRead(data) = {}
    <3>1. ASSUME NEW type \in DeviceTypes, data = Message(type, 6)
          PROVE  FALSE
      <4>1. data[1] = <<type, 1>> /\ data[3] = <<type, 3>>
        BY <3>1 DEF Message
      <4> QED
        BY <2>3, <4>1 DEF TypeRead
    <3>2. RepliesTo(command) = DeviceTypes /\ BytesExpected[command] = 6
      BY <1>8 DEF RepliesTo, BytesExpected
    <3> QED
      BY <1>5, <2>3, <3>1, <3>2
  <2> QED
    BY <1>8, <2>2, <2>3 DEF processPacket
<1>9. CASE command = "ReadPanId"
  <2>1. onPanIdFound(IsAlone(data))
    BY <1>9 DEF processPacket
  <2>2. CASE info' = "Ok" /\ port' = resetStateEngine /\ UNCHANGED <<detector, toDevice>>
    <3>1. port'.command = Idle
      BY <2>2, InvTyped DEF resetStateEngine, Ports
    <3>2. Asking' /\ ~Mendable'
      BY <2>2, <3>1, IdleIsNone, CommandsAre DEF Asking, Mendable
    <3> QED
      BY <1>4, <2>2, <3>2, FailureStays DEF Accounts
  <2> QED
    BY <1>2, <1>6, <2>1, <2>2, EnterAccounts DEF onPanIdFound
<1>10. CASE command \in {"SetCoordinator", "SetRouter"}
  <2>1. CASE restart
    BY <1>3, <1>10, <2>1, IdleIsNone, RestartAccounts
  <2>2. CASE onError /\ ~IsConfirmation(data)
    <3>1. RepliesTo(command) = DeviceTypes /\ BytesExpected[command] = 8
      BY <1>10 DEF RepliesTo, BytesExpected
    <3> QED
      BY <1>5, <2>2, <3>1 DEF IsConfirmation
  <2> QED
    BY <1>10, <2>1, <2>2 DEF processPacket
<1>11. CASE command \in {"SetBaudRate", "WritePanId"}
  <2>1. restart
    BY <1>11 DEF processPacket
  <2> QED
    BY <1>3, <1>11, <2>1, RestartAccounts
<1> QED
  BY <1>1, <1>7, <1>8, <1>9, <1>10, <1>11, CommandsAre

(* The part of a message that arrives, and the rest of it.                 *)
LEMMA PartsJoin ==
    ASSUME NEW S, NEW b \in Seq(S), NEW t \in Seq(S), NEW n \in 1 .. Len(t)
    PROVE  (b \o SubSeq(t, 1, n)) \o SubSeq(t, n + 1, Len(t)) = b \o t
<1> DEFINE p == SubSeq(t, 1, n)
           q == SubSeq(t, n + 1, Len(t))
<1>1. Len(t) \in Nat /\ n <= Len(t)
  BY LenProperties
<1>2. p \in Seq(S) /\ q \in Seq(S)
  BY <1>1, PartOf
<1>3. p \o q = t
  <2>1. p \o q = SubSeq(t, 1, Len(t))
    <3>1. /\ 1 \in 1 .. Len(t) + 1 /\ n \in 1 - 1 .. Len(t) /\ Len(t) \in n .. Len(t)
      BY <1>1
    <3> QED
      BY <3>1, ConcatAdjacentSubSeq
  <2> QED
    BY <2>1, SubSeqFull
<1> HIDE DEF p, q
<1>4. ASSUME NEW u \in Seq(S), NEW v \in Seq(S)
      PROVE  (b \o u) \o v = b \o (u \o v)
  OBVIOUS
<1>5. (b \o p) \o q = b \o (p \o q)
  BY <1>2, <1>4
<1> QED
  BY <1>3, <1>5 DEF p, q

LEMMA PartAndRest ==
    ASSUME NEW b \in Seq(Bytes), NEW t \in Seq(Bytes), NEW n \in 1 .. Len(t),
           NEW content \in Contents, NEW k \in 0 .. 8, b \o t = Message(content, k)
    PROVE  /\ (b \o SubSeq(t, 1, n)) \o SubSeq(t, n + 1, Len(t)) = Message(content, k)
           /\ Len(b \o SubSeq(t, 1, n)) >= k
                 => /\ b \o SubSeq(t, 1, n) = Message(content, k)
                    /\ SubSeq(t, n + 1, Len(t)) = <<>>
           /\ Len(b \o SubSeq(t, 1, n)) < k => SubSeq(t, n + 1, Len(t)) # <<>>
<1> DEFINE p == SubSeq(t, 1, n)
           q == SubSeq(t, n + 1, Len(t))
           m == Message(content, k)
<1>1. Len(t) \in Nat /\ n <= Len(t)
  BY LenProperties
<1>2. p \in Seq(Bytes) /\ q \in Seq(Bytes)
  BY <1>1, PartOf
<1>3. (b \o p) \o q = m
  BY PartsJoin
<1> HIDE DEF p, q
<1>4. m \in Seq(Bytes) /\ Len(m) = k
  <2>1. m \in [1 .. k -> Bytes]
    BY DEF Message, Bytes
  <2> QED
    BY <2>1
<1> HIDE DEF m
<1>5. b \o p \in Seq(Bytes) /\ Len(b \o p) + Len(q) = k /\ Len(b \o p) \in Nat /\ Len(q) \in Nat
  <2>1. b \o p \in Seq(Bytes)
    BY <1>2, ConcatProperties
  <2>2. Len(b \o p) \in Nat /\ Len(q) \in Nat
    BY <1>2, <2>1, LenProperties
  <2>3. ASSUME NEW u \in Seq(Bytes), NEW v \in Seq(Bytes)
        PROVE  Len(u \o v) = Len(u) + Len(v)
    OBVIOUS
  <2>4. Len((b \o p) \o q) = Len(b \o p) + Len(q)
    BY <1>2, <2>1, <2>3
  <2> QED
    BY <1>3, <1>4, <2>1, <2>2, <2>4
<1>6. Len(b \o p) >= k => q = <<>>
  BY <1>2, <1>5, EmptySeq
<1>7. Len(b \o p) < k => q # <<>>
  BY <1>5, EmptySeq
<1>8. q = <<>> => b \o p = m
  BY <1>3, <1>5, ConcatEmptySeq
<1> QED
  BY <1>3, <1>6, <1>7, <1>8 DEF p, q, m

LEMMA ReadyReadAccounts ==
    ASSUME Inv, Accounts, NEW n \in 1 .. 8, onReadyRead(n)
    PROVE  Accounts'
<1> DEFINE reply == Head(toHost)
           rest == SubSeq(reply.bytes, n + 1, Len(reply.bytes))
<1>1. /\ toHost # <<>> /\ n <= Len(reply.bytes) /\ Arrives(n)
      /\ UNCHANGED <<device, faults>>
  BY DEF onReadyRead
<1>2. /\ reply \in Answers /\ reply.bytes \in Seq(Bytes) /\ n \in 1 .. Len(reply.bytes)
      /\ port.buffer \in Seq(Bytes)
  BY <1>1, FirstAnswer, InvTyped DEF Ports
<1>3. faults \in Nat /\ faults' >= faults /\ faults' \in Nat
  BY <1>1, PaidTyped
<1>4. toHost' = IF rest = <<>> THEN Tail(toHost)
                ELSE <<[reply EXCEPT !.bytes = rest]>> \o Tail(toHost)
  BY <1>1 DEF Arrives
<1>5. CASE port.command = Idle /\ UNCHANGED <<port, toDevice, detector, info>>
  <2>1. Mendable' => Mendable /\ Testing38400 /\ Retrying
    BY <1>1, <1>3, <1>5, StaysMendable DEF Mendable, Accounts
  <2>2. ~Searching
    BY <1>1 DEF Searching
  <2>3. (Testing38400 => Testing38400') /\ (Asking => Asking')
    BY <1>1, <1>5 DEF Testing38400, Asking
  <2>4. Paid(0) \/ Paid(1) => Paid(0)' \/ Paid(1)'
    BY <1>1, <1>5 DEF Paid
  <2>5. Mendable' => Retrying'
    BY <1>5, <2>1, <2>2, <2>4 DEF Retrying
  <2> QED
    BY <1>1, <1>3, <1>5, <2>1, <2>3, <2>5, FailureStays DEF Accounts
<1>6. ASSUME port.command # Idle, Mendable, ~Paid(1)
      PROVE  /\ Paid(0) /\ device.baud = port.baud /\ toDevice = <<>>
             /\ Tail(toHost) = <<>> /\ reply.baud = port.baud
             /\ \E content \in RepliesTo(port.command) :
                   port.buffer \o reply.bytes = Message(content, BytesExpected[port.command])
  <2> HIDE DEF reply
  <2>1. Retrying /\ toHost # <<>>
    BY <1>1, <1>6 DEF Accounts
  <2>2. Paid(0) /\ OnTrack
    BY <1>6, <2>1 DEF Retrying, Searching
  <2>3. Answered /\ device.baud = port.baud
    BY <2>1, <2>2 DEF OnTrack, Asked
  <2> QED
    BY <2>2, <2>3 DEF Answered, reply
<1>7. reply.baud = port.baud => Received(n) = port.buffer \o SubSeq(reply.bytes, 1, n)
  BY DEF Received
<1>8. ASSUME port.command # Idle
      PROVE  /\ BytesExpected[port.command] \in 0 .. 8
             /\ \A content \in RepliesTo(port.command) : content \in Contents
  BY <1>8, InvTyped, Awaited DEF Ports, RepliesTo, Contents
<1>9. CASE /\ port.command # Idle
           /\ Len(Received(n)) < BytesExpected[port.command]
           /\ port' = [port EXCEPT !.buffer = Received(n)]
           /\ UNCHANGED <<toDevice, detector, info>>
  <2>1. port'.baud = port.baud /\ port'.command = port.command /\ port'.buffer = Received(n)
    BY <1>9, InvTyped DEF Ports
  <2>2. Asking' /\ (Testing38400 => Testing38400')
    BY <1>1, <1>9, <2>1 DEF Accounts, Asking, Testing38400
  <2>3. ASSUME Mendable'
        PROVE  Testing38400 /\ Retrying'
    <3>1. Mendable /\ Testing38400
      BY <1>1, <1>3, <1>9, <2>3, StaysMendable DEF Mendable, Accounts
    <3>2. (Paid(0) => Paid(0)') /\ (Paid(1) => Paid(1)')
      BY <1>1, <1>9 DEF Paid
    <3>3. CASE ~Paid(1)
      <4>1. /\ Paid(0) /\ device.baud = port.baud /\ toDevice = <<>>
            /\ Tail(toHost) = <<>> /\ reply.baud = port.baud
        BY <1>6, <1>9, <3>1, <3>3
      <4>2. PICK content \in RepliesTo(port.command) :
                   port.buffer \o reply.bytes = Message(content, BytesExpected[port.command])
        BY <1>6, <1>9, <3>1, <3>3
      <4>3. /\ (port.buffer \o SubSeq(reply.bytes, 1, n)) \o rest
                  = Message(content, BytesExpected[port.command])
            /\ rest # <<>>
        BY <1>2, <1>7, <1>8, <1>9, <4>1, <4>2, PartAndRest
      <4> HIDE DEF rest, reply
      <4>4. toHost' = <<[reply EXCEPT !.bytes = rest]>>
        <5>1. toHost' = <<[reply EXCEPT !.bytes = rest]>> \o <<>>
          BY <1>4, <4>1, <4>3 DEF rest, reply
        <5>2. \A x : <<x>> \o <<>> = <<x>>
          OBVIOUS
        <5> QED
          BY <5>1, <5>2
      <4>5. /\ toHost' # <<>> /\ Tail(toHost') = <<>>
            /\ Head(toHost').baud = reply.baud /\ Head(toHost').bytes = rest
        BY <1>2, <4>4 DEF Answers
      <4>6. Answered'
        BY <1>7, <1>9, <2>1, <4>1, <4>3, <4>5 DEF Answered
      <4> QED
        BY <1>1, <2>1, <3>1, <3>2, <4>1, <4>6 DEF Retrying, OnTrack
    <3> QED
      BY <3>1, <3>2, <3>3 DEF Retrying
  <2> QED
    BY <1>1, <1>3, <1>9, <2>2, <2>3, FailureStays DEF Accounts
<1>10. CASE /\ port.command # Idle
            /\ Len(Received(n)) >= BytesExpected[port.command]
            /\ processPacket(port.command, Received(n))
  <2>1. ASSUME Mendable, ~Paid(1)
        PROVE  /\ Paid(0) /\ device.baud = port.baud
               /\ toDevice = <<>> /\ toHost' = <<>>
               /\ \E content \in RepliesTo(port.command) :
                     Received(n) = Message(content, BytesExpected[port.command])
    <3>1. /\ Paid(0) /\ device.baud = port.baud /\ toDevice = <<>>
          /\ Tail(toHost) = <<>> /\ reply.baud = port.baud
      BY <1>6, <1>10, <2>1
    <3>2. PICK content \in RepliesTo(port.command) :
                 port.buffer \o reply.bytes = Message(content, BytesExpected[port.command])
      BY <1>6, <1>10, <2>1
    <3>3. Received(n) = Message(content, BytesExpected[port.command]) /\ rest = <<>>
      BY <1>2, <1>7, <1>8, <1>10, <3>1, <3>2, PartAndRest
    <3> QED
      BY <1>4, <3>1, <3>3
  <2> QED
    BY <1>1, <1>10, <2>1, PacketAccounts
<1> QED
  BY <1>5, <1>9, <1>10 DEF onReadyRead

LEMMA StartAccounts ==
    ASSUME Inv, Accounts, Untouched, NEW type \in DeviceTypes, programStarted(type)
    PROVE  Accounts'
<1>1. /\ toDevice = <<>> /\ toHost' = <<>> /\ UNCHANGED <<device, faults>>
      /\ info' = "Busy" /\ send("TestBaudrate", 9600)
      /\ detector' = [state |-> "TestBaudRate9600", wanted |-> type,
                      retries |-> RetryCount, timer |-> 0]
  BY DEF programStarted, Untouched
<1>2. "TestBaudrate" \in Commands \ {"Restart"}
  BY CommandsAre
<1>3. /\ port'.baud = 9600 /\ port'.command = "TestBaudrate" /\ Asked'
      /\ toDevice' = Append(toDevice, [command |-> "TestBaudrate", baud |-> 9600])
  BY <1>1, <1>2, SendEffects, SendAsks
<1>4. faults \in Nat /\ faults' = faults /\ RetryCount \in Nat
  BY <1>1, PaidTyped
<1>5. detector'.state = "TestBaudRate9600" /\ detector'.retries = RetryCount
  BY <1>1
<1>6. Asking' /\ Testing38400'
  BY <1>3, <1>5 DEF Asking, Testing38400
<1>7. CASE device.baud = 9600
  <2>1. faults' >= RetryCount - RetryCount + 0
    BY <1>4
  <2>2. Paid(0)'
    BY <1>5, <2>1 DEF Paid
  <2>3. Retrying'
    BY <1>1, <1>3, <1>7, <2>2 DEF Retrying, OnTrack
  <2> QED
    BY <1>1, <1>4, <1>6, <2>3, FailureStays DEF Accounts
<1>8. CASE device.baud = 38400
  <2>1. toDevice' \in Seq(SlowRequests)
    <3>1. [command |-> "TestBaudrate", baud |-> 9600] \in SlowRequests
      BY <1>2 DEF SlowRequests, Requests, HostBauds
    <3> QED
      BY <1>1, <1>3, <3>1, EmptySeq, AppendProperties
  <2>2. Retrying'
    BY <1>1, <1>5, <1>8, <2>1 DEF Retrying, Searching
  <2> QED
    BY <1>1, <1>4, <1>6, <2>2, FailureStays DEF Accounts
<1>9. CASE device.baud \notin HostBauds
  BY <1>1, <1>4, <1>6, <1>9, FailureStays DEF Accounts, Mendable
<1> QED
  BY <1>7, <1>8, <1>9 DEF HostBauds

(* A timer that overtakes something adds a fault.                          *)
LEMMA OvertakePays ==
    ASSUME Inv, Overtake
    PROVE  /\ faults' \in Nat /\ faults' >= faults
           /\ UnderWay => faults' = faults + 1
BY PaidTyped DEF Overtake

LEMMA TimeoutAccounts ==
    ASSUME Inv, Accounts, onTimeout
    PROVE  Accounts'
<1>1. port.command # Idle /\ onError /\ Overtake /\ UNCHANGED <<toHost, device>>
  BY DEF onTimeout
<1>2. /\ faults' \in Nat /\ faults' >= faults
      /\ UnderWay => faults' = faults + 1
  BY <1>1, OvertakePays
<1>3. /\ info = "Busy" /\ RetryCount \in Nat /\ detector.retries \in 0 .. RetryCount
      /\ faults \in Nat
  BY <1>1, Awaiting, PaidTyped
<1>4. ASSUME device.baud \in HostBauds, faults' < RetryCount
      PROVE  \/ Searching /\ toHost' = <<>> /\ (toDevice = <<>> \/ faults' > 0)
             \/ faults' >= RetryCount - detector.retries + 1
  <2>1. Retrying
    BY <1>2, <1>3, <1>4 DEF Accounts, Mendable
  <2>2. CASE Searching
    <3>1. toHost' = <<>>
      BY <1>1, <2>2 DEF Searching
    <3>2. toDevice # <<>> => faults' > 0
      BY <1>2, <1>3 DEF UnderWay
    <3> QED
      BY <2>2, <3>1, <3>2
  <2>3. CASE Paid(1)
    BY <1>2, <1>3, <2>3 DEF Paid
  <2>4. CASE Paid(0) /\ OnTrack
    <3>1. UnderWay
      <4>1. \A x : <<x>> # <<>>
        OBVIOUS
      <4>2. Asked => toDevice # <<>>
        BY <4>1 DEF Asked
      <4> QED
        BY <2>4, <4>2 DEF UnderWay, OnTrack, Answered
    <3> QED
      BY <1>2, <1>3, <2>4, <3>1 DEF Paid
  <2> QED
    BY <1>1, <2>1, <2>2, <2>3, <2>4 DEF Retrying
<1> QED
  BY <1>1, <1>2, <1>4, ErrorAccounts

(* With nothing on the line, what the timer sends is all there is.         *)
LEMMA TimerAccounts ==
    ASSUME Inv, Accounts, onTimer
    PROVE  Accounts'
<1>1. port.command = Idle /\ info = "Busy" /\ detector \in Detectors
  BY InvTyped DEF onTimer, Inv, OneActivity
<1>2. /\ faults' \in Nat /\ faults' >= faults
      /\ UnderWay => faults' = faults + 1
      /\ UNCHANGED <<toHost, info, device>>
  BY OvertakePays DEF onTimer
<1>3. /\ RetryCount \in Nat /\ detector.retries \in 0 .. RetryCount /\ faults \in Nat
      /\ toDevice \in Seq(Requests)
  BY PaidTyped
<1>4. "TestBaudrate" \in Commands \ {"Restart"}
  BY CommandsAre
<1>5. detector'.retries = detector.retries
  <2>1. CASE detector.state # "TestBaudRate38400"
    <3>1. detector' = [detector EXCEPT !.state = "TestBaudRate9600", !.timer = 0]
      BY <2>1 DEF onTimer
    <3> QED
      BY <1>1, <3>1 DEF Detectors
  <2>2. CASE detector.state = "TestBaudRate38400"
    BY <1>1, <2>2 DEF onTimer, Detectors
  <2> QED
    BY <2>1, <2>2
<1>6. /\ Paid(0) => Paid(0)'
      /\ Paid(1) => Paid(1)'
      /\ Paid(0) /\ UnderWay => Paid(1)'
  BY <1>2, <1>3, <1>5 DEF Paid
<1>7. Mendable' => Mendable /\ Testing38400 /\ Retrying
  BY <1>1, <1>2, StaysMendable DEF Accounts
<1>8. device'.newBaud \in {device'.baud, 9600} /\ FailsOnlyAfterFaults'
  BY <1>2, FailureStays
<1>9. CASE detector.state # "TestBaudRate38400"
  <2>1. send("TestBaudrate", 9600) /\ detector'.state = "TestBaudRate9600"
    <3>1. /\ send("TestBaudrate", 9600)
          /\ detector' = [detector EXCEPT !.state = "TestBaudRate9600", !.timer = 0]
      BY <1>9 DEF onTimer
    <3> QED
      BY <1>1, <3>1 DEF Detectors
  <2>2. /\ port'.baud = 9600 /\ port'.command = "TestBaudrate"
        /\ toDevice' = Append(toDevice, [command |-> "TestBaudrate", baud |-> 9600])
    BY <1>4, <2>1, SendEffects
  <2>3. [command |-> "TestBaudrate", baud |-> 9600] \in SlowRequests
    BY <1>4 DEF SlowRequests, Requests, HostBauds
  <2>4. ASSUME Mendable'
        PROVE  Retrying'
    <3>1. CASE Searching
      <4>1. toDevice' \in Seq(SlowRequests)
        BY <2>2, <2>3, <3>1, AppendProperties DEF Searching
      <4> QED
        BY <1>2, <2>1, <3>1, <4>1 DEF Retrying, Searching
    <3>2. CASE Paid(1)
      BY <1>6, <3>2 DEF Retrying
    <3>3. CASE Paid(0) /\ UnderWay
      BY <1>6, <3>3 DEF Retrying
    <3>4. CASE Paid(0) /\ ~UnderWay
      <4>1. toDevice = <<>> /\ toHost' = <<>>
        BY <1>2, <3>4 DEF UnderWay
      <4>2. Asked'
        BY <1>4, <2>1, <4>1, SendAsks
      <4>3. CASE device.baud = 9600
        BY <1>2, <1>6, <2>2, <3>4, <4>2, <4>3 DEF Retrying, OnTrack
      <4>4. CASE device.baud = 38400
        <5>1. toDevice' \in Seq(SlowRequests)
          BY <2>2, <2>3, <4>1, EmptySeq, AppendProperties
        <5> QED
          BY <1>2, <2>1, <4>1, <4>4, <5>1 DEF Retrying, Searching
      <4> QED
        BY <1>7, <2>4, <4>3, <4>4 DEF Mendable, HostBauds
    <3> QED
      BY <1>7, <2>4, <3>1, <3>2, <3>3, <3>4 DEF Retrying
  <2>5. Asking' /\ Testing38400'
    BY <2>1, <2>2 DEF Asking, Testing38400
  <2> QED
    BY <1>8, <2>4, <2>5 DEF Accounts
<1>10. CASE detector.state = "TestBaudRate38400"
  <2>1. send("TestBaudrate", port.baud) /\ detector'.state = "TestBaudRate38400"
    BY <1>1, <1>10 DEF onTimer, Detectors
  <2>2. /\ port'.baud = port.baud /\ port'.command = "TestBaudrate"
        /\ toDevice' = Append(toDevice, [command |-> "TestBaudrate", baud |-> port.baud])
    BY <1>4, <2>1, SendEffects
  <2>3. Asking'
    BY <2>2 DEF Asking
  <2>4. ASSUME Mendable'
        PROVE  Testing38400' /\ Retrying'
    <3>1. /\ port.baud = 38400 /\ device.baud = 38400 /\ toDevice \in Seq(KeptRequests)
          /\ ~Searching
      BY <1>7, <1>10, <2>4 DEF Testing38400, Searching
    <3>2. [command |-> "TestBaudrate", baud |-> port.baud] \in KeptRequests
      BY <1>4, <3>1 DEF KeptRequests, Requests, HostBauds
    <3>3. Testing38400'
      BY <1>2, <2>2, <3>1, <3>2, AppendProperties DEF Testing38400
    <3>4. CASE Paid(1) \/ (Paid(0) /\ UnderWay)
      BY <1>6, <3>3, <3>4 DEF Retrying
    <3>5. CASE Paid(0) /\ ~UnderWay
      <4>1. toDevice = <<>> /\ toHost' = <<>>
        BY <1>2, <3>5 DEF UnderWay
      <4>2. Asked'
        BY <1>4, <2>1, <4>1, SendAsks
      <4> QED
        BY <1>2, <1>6, <2>2, <3>1, <3>3, <3>5, <4>2 DEF Retrying, OnTrack
    <3> QED
      BY <1>7, <2>4, <3>1, <3>4, <3>5 DEF Retrying
  <2> QED
    BY <1>8, <2>3, <2>4 DEF Accounts
<1> QED
  BY <1>9, <1>10

(* What the converter does.                                                *)
LEMMA ObeyKeeps ==
    ASSUME Inv, NEW command \in Commands, device.newBaud \in {device.baud, 9600},
           device' = Obey(command)
    PROVE  /\ device'.newBaud \in {device'.baud, 9600}
           /\ device'.baud \in {device.baud, 9600}
           /\ command # "Restart" => device'.baud = device.baud
<1>1. device \in Devices
  BY DEF Inv, LineTyped
<1>2. CASE command = "SetBaudRate"
  BY <1>1, <1>2 DEF Obey, Devices
<1>3. CASE command \in {"SetCoordinator", "SetRouter", "WritePanId"}
  BY <1>1, <1>3 DEF Obey, Devices
<1>4. CASE command = "Restart"
  <2>1. device' = [device EXCEPT !.baud = device.newBaud, !.type = device.newType,
                                 !.joined = @ /\ ~device.newPan /\ device.newType = device.type,
                                 !.newPan = FALSE]
    BY <1>4 DEF Obey
  <2>2. device'.baud = device.newBaud /\ device'.newBaud = device.newBaud
    BY <1>1, <2>1 DEF Devices
  <2> QED
    BY <1>4, <2>2
<1>5. CASE command \in {"TestBaudrate", "GetDeviceType", "ReadPanId"}
  BY <1>5 DEF Obey
<1> QED
  BY <1>2, <1>3, <1>4, <1>5, CommandsAre

LEMMA AnswersTo ==
    ASSUME Inv, NEW command \in Commands
    PROVE  \E content \in RepliesTo(command) :
              Answer(command) = Message(content, BytesExpected[command])
<1>1. device.type \in DeviceTypes
  BY DEF Inv, LineTyped, Devices
<1>2. /\ {Version, BaudSet, PanWritten, Alone, Joined} \subseteq Contents
      /\ {Coordinator, Router} \subseteq DeviceTypes
  BY DEF Contents, DeviceTypes
<1>3. CASE command = "GetDeviceType"
  BY <1>1, <1>3 DEF Answer, RepliesTo
<1>4. CASE command = "SetCoordinator"
  BY <1>2, <1>4 DEF Answer, RepliesTo
<1>5. CASE command = "SetRouter"
  BY <1>2, <1>5 DEF Answer, RepliesTo
<1>6. CASE command = "TestBaudrate"
  BY <1>2, <1>6 DEF Answer, RepliesTo
<1>7. CASE command = "ReadPanId"
  BY <1>2, <1>7 DEF Answer, RepliesTo
<1>8. CASE command = "WritePanId"
  BY <1>2, <1>8 DEF Answer, RepliesTo
<1>9. CASE command \in {"SetBaudRate", "Restart"}
  BY <1>2, <1>9 DEF Answer, RepliesTo
<1> QED
  BY <1>3, <1>4, <1>5, <1>6, <1>7, <1>8, <1>9, CommandsAre

LEMMA AnswersAccounts ==
    ASSUME Inv, Accounts, DeviceAnswers
    PROVE  Accounts'
<1> DEFINE request == Head(toDevice)
           command == request.command
<1>1. /\ toDevice # <<>> /\ toDevice' = Tail(toDevice)
      /\ UNCHANGED <<port, detector, info, faults>>
  BY DEF DeviceAnswers
<1>2. /\ request \in Requests /\ command \in Commands /\ request.baud \in HostBauds
      /\ port.buffer \in Seq(Bytes) /\ faults \in Nat
  <2>1. toDevice \in Seq(Requests) /\ faults \in Nat
    BY PaidTyped
  <2>2. request \in Requests
    BY <1>1, <2>1, HeadTailProperties
  <2> HIDE DEF request
  <2>3. command \in Commands /\ request.baud \in HostBauds
    BY <2>2 DEF Requests
  <2>4. port.buffer \in Seq(Bytes)
    BY InvTyped DEF Ports
  <2> QED
    BY <2>1, <2>2, <2>3, <2>4
<1>3. \/ request.baud # device.baud /\ UNCHANGED <<device, toHost>>
      \/ /\ request.baud = device.baud /\ device' = Obey(command)
         /\ toHost' = IF Answer(command) = <<>> THEN toHost
                      ELSE Append(toHost, [baud |-> device.baud, bytes |-> Answer(command)])
  BY DEF DeviceAnswers
<1>4. device.newBaud \in {device.baud, 9600}
  BY DEF Accounts
<1>5. /\ device'.newBaud \in {device'.baud, 9600}
      /\ device'.baud # device.baud
            => device.baud \in HostBauds /\ command = "Restart" /\ request.baud = device.baud
  BY <1>2, <1>3, <1>4, ObeyKeeps
<1> HIDE DEF request, command
<1>6. Asking' /\ (Paid(0) => Paid(0)') /\ (Paid(1) => Paid(1)')
  BY <1>1 DEF Accounts, Asking, Paid
<1>7. FailsOnlyAfterFaults'
  BY <1>1, <1>5 DEF Accounts, FailsOnlyAfterFaults
<1>8. ASSUME Mendable'
      PROVE  Testing38400' /\ Retrying'
  <2>1. Mendable /\ Testing38400 /\ Retrying
    BY <1>1, <1>5, <1>8 DEF Mendable, Accounts
  <2>2. Testing38400'
    <3>1. ASSUME detector.state = "TestBaudRate38400"
          PROVE  device.baud = 38400 /\ toDevice \in Seq(KeptRequests)
      BY <2>1, <3>1 DEF Testing38400
    <3>2. ASSUME detector.state = "TestBaudRate38400"
          PROVE  /\ request \in KeptRequests /\ toDevice' \in Seq(KeptRequests)
                 /\ device'.baud = device.baud
      <4>1. request \in KeptRequests /\ toDevice' \in Seq(KeptRequests)
        BY <1>1, <3>1, <3>2, HeadTailProperties DEF request
      <4> QED
        BY <1>5, <3>1, <3>2, <4>1 DEF KeptRequests, command
    <3> QED
      BY <1>1, <2>1, <3>1, <3>2 DEF Testing38400
  <2>3. CASE Searching
    <3>1. request \in SlowRequests /\ toDevice' \in Seq(SlowRequests)
      BY <1>1, <2>3, HeadTailProperties DEF Searching, request
    <3>2. request.baud # device.baud
      BY <2>3, <3>1 DEF Searching, SlowRequests
    <3> QED
      BY <1>1, <1>3, <2>2, <2>3, <3>1, <3>2 DEF Searching, Retrying
  <2>4. CASE Paid(1)
    BY <1>6, <2>2, <2>4 DEF Retrying
  <2>5. CASE Paid(0) /\ port.command = Idle
    BY <1>1, <1>6, <2>2, <2>5 DEF Retrying
  <2>6. CASE Paid(0) /\ port.command # Idle /\ OnTrack
    <3>1. Asked /\ device.baud = port.baud
      BY <1>1, <2>6 DEF OnTrack, Answered
    <3>2. /\ request = [command |-> port.command, baud |-> port.baud]
          /\ toDevice' = <<>> /\ toHost = <<>> /\ port.buffer = <<>>
      <4>1. \A x : Head(<<x>>) = x /\ Tail(<<x>>) = <<>>
        OBVIOUS
      <4> QED
        BY <1>1, <3>1, <4>1 DEF Asked, request
    <3>3. /\ command = port.command /\ request.baud = device.baud
          /\ command \in Commands /\ command # "Restart"
      BY <1>2, <3>1, <3>2 DEF command, Accounts, Asking
    <3>4. device'.baud = device.baud
      BY <1>5, <3>3
    <3>5. PICK content \in RepliesTo(command) :
                 Answer(command) = Message(content, BytesExpected[command])
      BY <3>3, AnswersTo
    <3>6. Answer(command) \in Seq(Bytes) /\ Answer(command) # <<>>
      <4>1. content \in Contents /\ BytesExpected[command] \in 1 .. 8
        BY <3>3, <3>5, Awaited DEF RepliesTo, Contents
      <4>2. Message(content, BytesExpected[command]) \in [1 .. BytesExpected[command] -> Bytes]
        BY <4>1 DEF Message, Bytes
      <4>3. Len(Answer(command)) = BytesExpected[command] /\ Answer(command) \in Seq(Bytes)
        BY <3>5, <4>1, <4>2
      <4> QED
        BY <4>1, <4>3, EmptySeq
    <3>7. toHost' = <<[baud |-> device.baud, bytes |-> Answer(command)]>>
      <4>1. \A x : Append(<<>>, x) = <<x>>
        OBVIOUS
      <4> QED
        BY <1>3, <3>2, <3>3, <3>6, <4>1
    <3>8. /\ toHost' # <<>> /\ Tail(toHost') = <<>>
          /\ Head(toHost').baud = device.baud /\ Head(toHost').bytes = Answer(command)
      BY <3>7
    <3>9. port'.buffer \o Answer(command) = Answer(command)
      BY <1>1, <3>2, <3>6, ConcatEmptySeq
    <3>10. Answered'
      BY <1>1, <3>1, <3>2, <3>3, <3>5, <3>8, <3>9 DEF Answered
    <3> QED
      BY <1>1, <1>6, <2>2, <2>6, <3>1, <3>4, <3>10 DEF Retrying, OnTrack
  <2> QED
    BY <2>1, <2>3, <2>4, <2>5, <2>6 DEF Retrying
<1> QED
  BY <1>5, <1>6, <1>7, <1>8 DEF Accounts

(* What the line takes is a fault.                                         *)
LEMMA FailsAccounts ==
    ASSUME Inv, Accounts, LineFails
    PROVE  Accounts'
<1>1. /\ faults' = faults + 1 /\ UNCHANGED <<port, detector, info, device>>
      /\ \/ toDevice # <<>> /\ toDevice' = Tail(toDevice) /\ UNCHANGED toHost
         \/ toHost # <<>> /\ UNCHANGED toDevice
  BY DEF LineFails
<1>2. /\ faults \in Nat /\ faults' \in Nat /\ faults' >= faults
      /\ RetryCount \in Nat /\ detector.retries \in 0 .. RetryCount
  BY <1>1, PaidTyped
<1>3. Asking' /\ FailsOnlyAfterFaults' /\ device'.newBaud \in {device'.baud, 9600}
  BY <1>1, <1>2, FailureStays DEF Accounts, Asking
<1>4. /\ Paid(0) => Paid(1)'
      /\ Paid(1) => Paid(1)'
  BY <1>1, <1>2 DEF Paid
<1>5. ASSUME Mendable'
      PROVE  Testing38400' /\ Retrying'
  <2>1. Testing38400 /\ Retrying
    BY <1>1, <1>2, <1>5, StaysMendable DEF Mendable, Accounts
  <2>2. ASSUME NEW S, toDevice \in Seq(S)
        PROVE  toDevice' \in Seq(S)
    BY <1>1, <2>2, HeadTailProperties
  <2>3. Testing38400'
    BY <1>1, <2>1, <2>2 DEF Testing38400
  <2>4. CASE Searching
    BY <1>1, <2>2, <2>3, <2>4 DEF Searching, Retrying
  <2>5. CASE Paid(0) \/ Paid(1)
    BY <1>4, <2>3, <2>5 DEF Retrying
  <2> QED
    BY <2>1, <2>4, <2>5 DEF Retrying
<1> QED
  BY <1>3, <1>5 DEF Accounts

LEMMA BeginsAccounts ==
    ASSUME Init
    PROVE  Accounts
BY IdleIsNone, CommandsAre DEF Init, Accounts, Asking, Mendable, FailsOnlyAfterFaults

LEMMA AccountsPreserved ==
    ASSUME Inv, Honest, Accounts, [Next]_vars
    PROVE  Accounts'
<1>1. CASE UNCHANGED vars
  <2>1. UNCHANGED <<port, toDevice, toHost, detector, info, device, faults>>
    BY <1>1 DEF vars
  <2>2. Searching => Searching'
    BY <2>1 DEF Searching
  <2>3. OnTrack => OnTrack'
    <3>1. Asked => Asked'
      BY <2>1 DEF Asked
    <3>2. Answered => Answered'
      BY <2>1 DEF Answered, RepliesTo
    <3> QED
      BY <2>1, <3>1, <3>2 DEF OnTrack
  <2>4. (Paid(0) => Paid(0)') /\ (Paid(1) => Paid(1)')
    BY <2>1 DEF Paid
  <2>5. /\ Mendable' => Mendable
        /\ Testing38400 => Testing38400'
    BY <2>1 DEF Mendable, Testing38400
  <2>6. Asking' /\ FailsOnlyAfterFaults' /\ device'.newBaud \in {device'.baud, 9600}
    BY <2>1 DEF Accounts, Asking, FailsOnlyAfterFaults
  <2>7. Retrying => Retrying'
    BY <2>1, <2>2, <2>3, <2>4 DEF Retrying
  <2> QED
    BY <2>5, <2>6, <2>7 DEF Accounts
<1>2. CASE Next
  BY <1>2, StartAccounts, ReadyReadAccounts, TimeoutAccounts, TimerAccounts,
     AnswersAccounts, FailsAccounts DEF Next, Honest
<1> QED
  BY <1>1, <1>2

(* A converter that talks at a baud rate that is tried, is only reported to*)
(* have failed after RetryCount faults: the retries, which all the steps of*)
(* the detection share, are not used up by anything else, neither by a     *)
(* restart, nor by a reply taken for another, nor by the search at the     *)
(* other baud rate (drf1600_detector.cpp:166).                             *)
THEOREM FailureTakesFaults == Spec => []FailsOnlyAfterFaults
<1>1. Init => Honest /\ Accounts
  BY BeginsHonest, BeginsAccounts
<1>2. Inv /\ Honest /\ Accounts /\ [Next]_vars => Honest' /\ Accounts'
  BY HonestyPreserved, AccountsPreserved
<1>3. Accounts => FailsOnlyAfterFaults
  BY DEF Accounts
<1> QED
  BY <1>1, <1>2, <1>3, Invariant, PTL DEF Spec

=============================================================================
