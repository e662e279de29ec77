------------------------------ MODULE Drf1600 ------------------------------
(***************************************************************************)
(* The driver of the Zigbee converters (tools/hub4_wireless, drf1600.cpp): *)
(* it sends a command and waits until as many bytes have arrived as the    *)
(* reply should have, or 250 ms have passed.  Replies carry nothing that   *)
(* says what they reply to, and of most of them nothing is verified.       *)
(*                                                                         *)
(* A byte is its place in what was sent: <<content, i>>.                   *)
(***************************************************************************)
EXTENDS Integers, Sequences

Idle == "Idle"
Coordinator == "ZigbeeCoordinator"
Router == "ZigbeeRouter"
DeviceTypes == {Coordinator, Router}

(* What the converters answer, apart from the name of their type.  Alone   *)
(* is the PAN ID 0xFFFE of a router without coordinator, Joined any other. *)
Version == "version"
BaudSet == "baudSet"
PanWritten == "panWritten"
Alone == "alone"
Joined == "joined"
Noise == "noise"
Contents == DeviceTypes \cup {Version, BaudSet, PanWritten, Alone, Joined, Noise}

(* The commands, with the second argument of send.                         *)
BytesExpected ==
    [TestBaudrate |-> 8, GetDeviceType |-> 6, SetCoordinator |-> 8, SetRouter |-> 8,
     ReadPanId |-> 2, WritePanId |-> 2, SetBaudRate |-> 6, Restart |-> 0]
Commands == DOMAIN BytesExpected
SetDeviceType(type) == IF type = Coordinator THEN "SetCoordinator" ELSE "SetRouter"

Message(content, n) == [i \in 1 .. n |-> <<content, i>>]

(* What processPacket makes of the bytes: the first and the third letter   *)
(* tell the types apart, the confirmation of a new type has to be one of   *)
(* the two, and a PAN ID is the first two bytes, whatever they are.        *)
TypeRead(data) == {type \in DeviceTypes : data[1] = <<type, 1>> /\ data[3] = <<type, 3>>}
IsConfirmation(data) == \E type \in DeviceTypes : data = Message(type, 8)
IsAlone(data) == SubSeq(data, 1, 2) = Message(Alone, 2)

VARIABLES
    port,           \* baud rate, mCurrentCommand and what has been received
    toDevice,       \* commands on the line, each with its baud rate
    toHost          \* replies on the line, each with its baud rate

(* resetStateEngine.                                                       *)
resetStateEngine == [port EXCEPT !.command = Idle, !.buffer = <<>>]

(* send, after setBaudRate(baud).  The reply to a restart is not awaited.  *)
send(command, baud) ==
    /\ port' = [baud |-> baud, buffer |-> <<>>,
                command |-> IF BytesExpected[command] = 0 THEN Idle ELSE command]
    /\ toDevice' = Append(toDevice, [command |-> command, baud |-> baud])
=============================================================================
