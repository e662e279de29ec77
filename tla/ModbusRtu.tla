------------------------------ MODULE ModbusRtu ------------------------------
(***************************************************************************)
(* The Modbus driver that the sensors on a bus share (modbus_rtu.cpp): a   *)
(* queue of commands, of which one at a time is on the bus, and a parser   *)
(* that is fed the bytes of the reply as they arrive.  Signals are emitted *)
(* synchronously, so a client's handler calls back into the driver before  *)
(* the driver has returned to Idle.                                        *)
(*                                                                         *)
(* The members of the C++ object are the fields of the record `driver`.    *)
(* A client is an AcSensorUpdater; it has at most one command outstanding  *)
(* (OneActivity of AcSensorUpdater).  The serial line is a sequence of     *)
(* bytes that have been sent by a meter and not yet been read; a timeout   *)
(* may come at any time while a command is on the bus, so that the rest of *)
(* a reply, or all of it, may arrive when the next command is.             *)
(***************************************************************************)
EXTENDS Integers, Sequences, SequencesExt

CONSTANTS
    Slaves,             \* the addresses of the meters on the bus
    Commands,           \* the commands that the clients make
    CrcReset,           \* the checksum of no bytes
    CrcAdd(_, _),       \* the checksum with one more byte (module Crc16)
    MaxLine             \* bound: no reply is sent if more bytes would be under way

ReadHoldingRegisters == 3
WriteSingleRegister == 6
Byte == 0..255
MaxWord == 65535
Word == 0..MaxWord

(* A command: reg and value stand for the two bytes of each; the value of  *)
(* a read is its count.                                                    *)
CommandType ==
    [function : {ReadHoldingRegisters, WriteSingleRegister}, slave : Slaves,
     reg : Byte, value : Byte]
CommandsOf(slave) == {command \in Commands : command.slave = slave}
NoCommand == [function |-> 0, slave |-> 0, reg |-> 0, value |-> 0]

ASSUME ModbusAssumption ==
    /\ Slaves \subseteq 1..247
    /\ Commands \subseteq CommandType
    /\ MaxLine \in Nat

VARIABLES
    driver,     \* the ModbusRtu object
    line,       \* the bytes under way to it
    waiting,    \* the outstanding command of each client, NoCommand if none
    reply,      \* what the meter answers to the command on the bus
    alone       \* no other bytes have been under way since that command was sent

vars == <<driver, line, waiting, reply, alone>>

ReadStates == {"Idle", "Address", "Function", "ByteCount", "StartAddressMsb",
               "StartAddressLsb", "Data", "CrcMsb", "CrcLsb"}

Drivers == [
    state : ReadStates,
    pending : Seq(Commands),                    \* mPendingCommands
    command : Commands \cup {NoCommand},        \* the last frame sent, while not Idle
    currentSlave : Byte,
    function : Byte,
    count : Byte,
    startAddress : Word,
    crc : Word,
    builder : Seq(Byte),                        \* the bytes added to mCrcBuilder
    addToCrc : BOOLEAN,
    data : Seq(Byte),
    timer : BOOLEAN,
    fault : {"none", "assert"}]

-----------------------------------------------------------------------------
(* "Returns the CRC16 computed over all bytes passed to the `add` functions *)
(* since creation of the object or the last call to `reset`" (crc16.h:20).  *)
getValue(bytes) == FoldLeft(CrcAdd, CrcReset, bytes)

(* _readRegisters, _writeRegister and send.                                *)
send(d, command) ==
    IF d.state # "Idle" THEN [d EXCEPT !.fault = "assert"]
    ELSE [d EXCEPT !.state = "Address", !.timer = TRUE, !.command = command,
                   !.currentSlave = command.slave]

(* readRegisters and writeRegister.                                        *)
(* Mutant: the latest command goes first.                                  *)
submitFirst(d, command) ==
    IF d.state = "Idle" THEN send(d, command)
    ELSE [d EXCEPT !.pending = <<command>> \o d.pending]

submit(d, command) ==
    IF d.state = "Idle" THEN send(d, command)
    ELSE [d EXCEPT !.pending = Append(d.pending, command)]

(* The code leaves function, count, startAddress and crc as they are; each *)
(* is assigned by the parser before it is used again, so 0 will do.        *)
resetStateEngine(d) ==
    [d EXCEPT !.state = "Idle", !.builder = <<>>, !.addToCrc = TRUE,
              !.currentSlave = 0, !.command = NoCommand, !.data = <<>>, !.timer = FALSE,
              !.function = 0, !.count = 0, !.startAddress = 0, !.crc = 0]

(* Mutant: the command stays in the queue.                                 *)
processPendingAgain(d) ==
    IF d.pending = <<>> THEN d ELSE send(d, Head(d.pending))

processPending(d) ==
    IF d.pending = <<>> THEN d
    ELSE [send(d, Head(d.pending)) EXCEPT !.pending = Tail(d.pending)]

(* A signal is emitted; the client's handler makes the commands `asked`,   *)
(* at most one, while the driver is not yet Idle.                          *)
(* Mutant: pending commands wait for the next call of readRegisters.       *)
finishIdle(d, asked) ==
    resetStateEngine(IF asked = <<>> THEN d ELSE submit(d, Head(asked)))

finish(d, asked) ==
    processPending(resetStateEngine(IF asked = <<>> THEN d ELSE submit(d, Head(asked))))

(* handleByteRead, but for the packet that the byte may complete.          *)
IsException(function) == function >= 128
AfterFunction(function) ==
    CASE IsException(function)              -> "Data"
      [] function \in {3, 4}                -> "ByteCount"
      [] function = WriteSingleRegister     -> "StartAddressMsb"
      [] OTHER                              -> "Address"

(* Mutant: a reply without data is not noticed.                            *)
acceptNoData(d, byte) ==
    CASE d.state = "ByteCount" -> [d EXCEPT !.count = byte, !.state = "Data"]
      [] d.state = "Address"   -> [d EXCEPT !.state = "Function"]
      [] d.state = "Function"  -> [d EXCEPT !.function = byte, !.state = "ByteCount"]
      [] OTHER -> [d EXCEPT !.data = Append(d.data, byte), !.count = d.count - 1,
                            !.state = IF d.count = 1 THEN "CrcMsb" ELSE "Data"]

accept(d, byte) ==
    CASE d.state = "Address" ->
            [d EXCEPT !.state = IF byte = d.currentSlave THEN "Function" ELSE "Address"]
      [] d.state = "Function" ->
            [d EXCEPT !.function = byte, !.state = AfterFunction(byte),
                      !.count = IF IsException(byte) THEN 1 ELSE d.count]
      [] d.state = "ByteCount" ->
            [d EXCEPT !.count = byte, !.state = IF byte = 0 THEN "CrcMsb" ELSE "Data",
                      !.addToCrc = (byte # 0)]
      [] d.state = "StartAddressMsb" ->
            [d EXCEPT !.startAddress = byte * 256, !.state = "StartAddressLsb"]
      [] d.state = "StartAddressLsb" ->
            [d EXCEPT !.startAddress = d.startAddress + byte, !.count = 2, !.state = "Data"]
      [] d.state = "Data" ->
            [d EXCEPT !.data = Append(d.data, byte), !.count = d.count - 1,
                      !.state = IF d.count = 1 THEN "CrcMsb" ELSE "Data",
                      !.addToCrc = (d.count # 1)]
      [] d.state = "CrcMsb" -> [d EXCEPT !.crc = byte * 256, !.state = "CrcLsb"]
      [] d.state = "CrcLsb" -> [d EXCEPT !.crc = d.crc + byte]
      [] d.state = "Idle"   -> d

handleByteRead(d, byte) ==
    accept(IF d.addToCrc THEN [d EXCEPT !.builder = Append(d.builder, byte)] ELSE d, byte)

(* Mutants: the checksum is not looked at; writes are reported as reads.   *)
SignalUnchecked(d) ==
    [kind |-> IF d.function = WriteSingleRegister THEN "writeCompleted" ELSE "readCompleted",
     slave |-> d.currentSlave, values |-> d.data]
SignalRead(d) ==
    [kind |-> IF d.crc = getValue(d.builder) THEN "readCompleted" ELSE "CrcError",
     slave |-> d.currentSlave, values |-> d.data]

(* processPacket: the signal that is emitted for a complete packet.  The   *)
(* case Unsupported of the code needs mState = Function, which is over     *)
(* when a packet is complete.                                              *)
Signal(d) ==
    LET valid == d.crc = getValue(d.builder)
        signal(kind, values) == [kind |-> kind, slave |-> d.currentSlave, values |-> values]
    IN  CASE ~valid -> signal("CrcError", <<>>)
          [] valid /\ IsException(d.function)   -> signal("Exception", <<d.data[1]>>)
          [] valid /\ d.function \in {3, 4}    -> signal("readCompleted", d.data)
          [] valid /\ d.function = WriteSingleRegister ->
                signal("writeCompleted", <<d.startAddress>> \o d.data)

-----------------------------------------------------------------------------
(* The meters.                                                             *)
WithCrc(bytes) ==
    bytes \o <<getValue(bytes) \div 256, getValue(bytes) % 256>>

(* The data of a reply are the worst that it could be for the parser: they *)
(* look like the beginning of another reply.                               *)
DataOf(slave) == <<slave, ReadHoldingRegisters>>
GoodReplies == [command \in Commands |-> WithCrc(
    IF command.function = ReadHoldingRegisters
    THEN <<command.slave, ReadHoldingRegisters, 2>> \o DataOf(command.slave)
    ELSE <<command.slave, WriteSingleRegister, 0, command.reg, 0, command.value>>)]
Exceptions == [command \in Commands |->
    WithCrc(<<command.slave, command.function + 128, 2>>)]

(* A meter sends bytes: its checksum is two of them.                       *)
ASSUME RepliesAssumption ==
    \A command \in Commands :
        GoodReplies[command] \in Seq(Byte) /\ Exceptions[command] \in Seq(Byte)

(* What the line makes of it: nothing at all, another byte in front, the   *)
(* last byte lost, or a byte damaged.                                      *)
Replies(command) ==
    LET good == GoodReplies[command]
    IN  {<<>>, good, Exceptions[command], <<0>> \o good, Front(good)}
            \cup {[good EXCEPT ![i] = 0] : i \in {2, 3}}

(* If a command has just been sent, its meter replies (or not), after the  *)
(* bytes that are already under way.                                       *)
MeterReplies(rest) ==
    IF driver'.command = NoCommand
    THEN line' = rest /\ reply' = <<>> /\ UNCHANGED alone
    ELSE /\ reply' \in {r \in Replies(driver'.command) : r = <<>> \/ Len(rest) + Len(r) <= MaxLine}
         /\ line' = rest \o reply'
         /\ alone' = (rest = <<>>)

Handled(slave, asked) ==
    waiting' = [waiting EXCEPT ![slave] = IF asked = <<>> THEN NoCommand ELSE Head(asked)]

(* The next commands a client may make in a handler.                       *)
Asked(slave) == {<<>>} \cup {<<command>> : command \in CommandsOf(slave)}

-----------------------------------------------------------------------------
Init ==
    /\ driver = [state |-> "Idle", pending |-> <<>>, command |-> NoCommand,
                 currentSlave |-> 0, function |-> 0, count |-> 0, startAddress |-> 0,
                 crc |-> 0, builder |-> <<>>, addToCrc |-> TRUE, data |-> <<>>,
                 timer |-> FALSE, fault |-> "none"]
    /\ line = <<>>
    /\ waiting = [slave \in Slaves |-> NoCommand]
    /\ reply = <<>>
    /\ alone = TRUE

(* A client that waits for nothing makes a command, from a timer of its.   *)
Ask(slave) ==
    /\ waiting[slave] = NoCommand
    /\ \E command \in CommandsOf(slave) :
          /\ driver' = submit(driver, command)
          /\ waiting' = [waiting EXCEPT ![slave] = command]
    /\ IF driver.state = "Idle" THEN MeterReplies(line) ELSE UNCHANGED <<line, reply, alone>>

ByteReceived ==
    /\ line # <<>>
    /\ ~(driver.state = "CrcLsb")
    /\ driver' = handleByteRead(driver, Head(line))
    /\ line' = Tail(line)
    /\ UNCHANGED <<waiting, reply, alone>>

PacketReceived ==
    /\ line # <<>>
    /\ driver.state = "CrcLsb"
    /\ \E asked \in Asked(driver.currentSlave) :
          /\ driver' = finish(handleByteRead(driver, Head(line)), asked)
          /\ Handled(driver.currentSlave, asked)
    /\ MeterReplies(Tail(line))

onTimeout ==
    /\ driver.timer
    /\ driver.state # "Idle"
    /\ \E asked \in Asked(driver.currentSlave) :
          /\ driver' = finish(driver, asked)
          /\ Handled(driver.currentSlave, asked)
    /\ MeterReplies(line)

Next == (\E slave \in Slaves : Ask(slave)) \/ ByteReceived \/ PacketReceived \/ onTimeout

Spec == Init /\ [][Next]_vars

(* Every command on the bus comes to an end: its timer, which is started   *)
(* with it and not stopped before its end, expires if no packet does it.   *)
FairSpec == Spec /\ WF_vars(PacketReceived \/ onTimeout)

-----------------------------------------------------------------------------
(* Type correctness of the object and the line.                            *)
TypeOK ==
    /\ driver \in Drivers
    /\ line \in Seq(Byte)
    /\ waiting \in [Slaves -> Commands \cup {NoCommand}]
    /\ alone \in BOOLEAN

(* The queue never waits for nothing: whenever commands are pending one is *)
(* on the bus, and its timer is running, so that processPending is called  *)
(* again.  With an Idle driver and a pending command, nothing would ever   *)
(* send it; two commands on the bus would be the failure of the assertions *)
(* of _readRegisters, _writeRegister and send.                             *)
NothingForgotten ==
    /\ driver.fault = "none"
    /\ driver.state = "Idle" <=> ~driver.timer
    /\ driver.state = "Idle" => driver.pending = <<>>

(* Every command is accounted for: what a client waits for is on the bus   *)
(* or in the queue, once, and nothing else is.  So every signal reaches a  *)
(* client that waits for it: handlers compare slave addresses only.        *)
Queue == (IF driver.state = "Idle" THEN <<>> ELSE <<driver.command>>) \o driver.pending
EachWaitsOnce ==
    /\ IsInjective([i \in DOMAIN Queue |-> Queue[i].slave])
    /\ ToSet(Queue) = {waiting[slave] : slave \in Slaves} \ {NoCommand}
    /\ \A slave \in Slaves : waiting[slave] # NoCommand => waiting[slave].slave = slave
    /\ driver.currentSlave = driver.command.slave

(* Whatever the line does - bytes lost, damaged or in front, replies late  *)
(* or cut by a timeout - a completed read gives the registers of that      *)
(* meter and a completed write what was written to it.                     *)
Completing == driver.state = "CrcLsb" /\ line # <<>>
Completed == Signal(handleByteRead(driver, Head(line)))
SignalsGenuine ==
    Completing =>
        /\ Completed.kind = "readCompleted" => Completed.values = DataOf(Completed.slave)
        /\ Completed.kind = "writeCompleted" =>
              \E command \in CommandsOf(Completed.slave) :
                  command.function = WriteSingleRegister
                  /\ Completed.values = <<command.reg, 0, command.value>>

(* When no bytes of another reply are under way, a command is answered by  *)
(* its own kind of completion or by an error.  (Otherwise it need not be:  *)
(* the late replies of AcSensorUpdater.)                                   *)
ReplyMatchesCommand ==
    Completing /\ alone =>
        CASE Completed.kind = "readCompleted"  -> driver.command.function = ReadHoldingRegisters
          [] Completed.kind = "writeCompleted" -> driver.command.function = WriteSingleRegister
          [] OTHER -> TRUE

(* No client starves, even when others make their next command from every  *)
(* handler: a queued command gets its turn on the bus.                     *)
EveryoneServed ==
    \A slave \in Slaves :
        (\E i \in DOMAIN driver.pending : driver.pending[i].slave = slave)
            ~> driver.currentSlave = slave

(* The driver implements the server that its header describes.             *)
Server == INSTANCE RequestServer WITH queue <- Queue
ServerSpec == Server!Spec

-----------------------------------------------------------------------------
(* "We received data when we were not expecting any. Ignore the data."     *)
(* (modbus_rtu.cpp:147): data that arrived before a command was sent makes *)
(* no difference to the reply, which is not rejected for its checksum when *)
(* it arrives undamaged and alone.                                         *)
IdleDataIgnored ==
    Completing /\ alone /\ reply = GoodReplies[driver.command] =>
        Completed.kind # "CrcError"
=============================================================================
