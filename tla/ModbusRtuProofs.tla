-------------------------- MODULE ModbusRtuProofs --------------------------
(***************************************************************************)
(* Proofs about ModbusRtu, for any number of meters on the bus, any        *)
(* commands and any checksum: the types, the queue that never forgets a    *)
(* command, each client's one command in it, and the server that the       *)
(* driver's header describes; and that a command is answered by its own    *)
(* kind of completion.  Nothing is assumed of the checksum: what it takes  *)
(* for the values of a reply to be genuine depends on its strength.        *)
(***************************************************************************)
EXTENDS ModbusRtu, SequenceTheorems, TLAPS

-----------------------------------------------------------------------------
(* The driver, without its parser: one command is on the bus, with its     *)
(* timer, exactly while it is not Idle.                                    *)
OnBus(d) ==
    /\ d \in Drivers
    /\ d.fault = "none"
    /\ d.timer <=> d.state # "Idle"
    /\ IF d.state = "Idle" THEN d.command = NoCommand /\ d.currentSlave = 0
       ELSE d.command \in Commands /\ d.currentSlave = d.command.slave

(* The words of which only the first byte has been read.                   *)
MaxHalfWord == 255 * 256
HalfWord == 0 .. MaxHalfWord

(* The parser between two bytes: a word of which the first byte is read    *)
(* has room for the second, and data are expected only while some are due. *)
Parsing(d) ==
    /\ d.state = "Data" => d.count >= 1
    /\ d.state = "StartAddressLsb" => d.startAddress \in HalfWord
    /\ d.state = "CrcLsb" => d.crc \in HalfWord

(* Nothing is pending while nothing is on the bus.                         *)
Settled(d) == OnBus(d) /\ Parsing(d) /\ (d.state = "Idle" => d.pending = <<>>)

(* What is on the bus, then what is pending.                               *)
QueueOf(d) == (IF d.state = "Idle" THEN <<>> ELSE <<d.command>>) \o d.pending

-----------------------------------------------------------------------------
(* The width of the parser's words.                                        *)

(* The largest first byte leaves room for any second byte.                 *)
LEMMA WordBounds ==
    MaxHalfWord \in Nat /\ MaxWord \in Nat /\ MaxWord = MaxHalfWord + 255
BY SMT DEF MaxHalfWord, MaxWord

(* The first byte of a word.                                               *)
LEMMA FirstByte ==
    ASSUME NEW byte \in Byte
    PROVE  byte * 256 \in HalfWord /\ byte * 256 \in Word
<1>1. byte \in Nat /\ byte <= 255
    BY SMT DEF Byte
<1>2. byte * 256 \in Nat /\ byte * 256 <= MaxHalfWord
    BY <1>1, SMT DEF MaxHalfWord
<1> QED BY <1>2, WordBounds, SMT DEF HalfWord, Word

(* The second byte of a word does not overflow it.                         *)
LEMMA SecondByte ==
    ASSUME NEW half \in HalfWord, NEW byte \in Byte
    PROVE  half + byte \in Word
BY WordBounds, SMT DEF HalfWord, Word, Byte

-----------------------------------------------------------------------------
(* The operations of the driver.                                           *)

(* A command of a client is for a meter, and is not NoCommand.             *)
LEMMA CommandFields ==
    ASSUME NEW command \in Commands
    PROVE  /\ command.slave \in Slaves
           /\ command.slave \in 1 .. 247
           /\ command # NoCommand
<1>1. command \in CommandType
    BY ModbusAssumption
<1>2. command.function \in {3, 6} /\ command.slave \in Slaves
    BY <1>1 DEF CommandType, ReadHoldingRegisters, WriteSingleRegister
<1>3. NoCommand.function = 0
    BY DEF NoCommand
<1>4. command # NoCommand
    BY <1>2, <1>3
<1> QED BY <1>2, <1>4, ModbusAssumption

(* A driver, field by field.                                               *)
LEMMA DriverFields ==
    ASSUME NEW d \in Drivers
    PROVE  /\ d.state \in ReadStates
           /\ d.pending \in Seq(Commands)
           /\ d.command \in Commands \cup {NoCommand}
           /\ d.currentSlave \in Byte
           /\ d.function \in Byte
           /\ d.count \in Byte
           /\ d.startAddress \in Word
           /\ d.crc \in Word
           /\ d.builder \in Seq(Byte)
           /\ d.addToCrc \in BOOLEAN
           /\ d.data \in Seq(Byte)
           /\ d.timer \in BOOLEAN
           /\ d.fault \in {"none", "assert"}
BY DEF Drivers

(* Another list of pending commands changes nothing else.                  *)
LEMMA PendingReplaced ==
    ASSUME NEW d \in Drivers, NEW pending \in Seq(Commands)
    PROVE  LET s == [d EXCEPT !.pending = pending]
           IN  /\ s \in Drivers
               /\ s.state = d.state /\ s.timer = d.timer /\ s.fault = d.fault
               /\ s.command = d.command /\ s.currentSlave = d.currentSlave
               /\ s.function = d.function
               /\ s.count = d.count /\ s.startAddress = d.startAddress /\ s.crc = d.crc
               /\ s.pending = pending
BY DEF Drivers

(* An Idle driver sends the command at once, without an assertion failing. *)
LEMMA SendOccupiesBus ==
    ASSUME NEW d, OnBus(d), d.state = "Idle", NEW command \in Commands
    PROVE  /\ OnBus(send(d, command))
           /\ send(d, command).state = "Address"
           /\ send(d, command).command = command
           /\ send(d, command).pending = d.pending
<1>1. d \in Drivers /\ d.fault = "none"
    BY DEF OnBus
<1>2. send(d, command) = [d EXCEPT !.state = "Address", !.timer = TRUE,
                                   !.command = command, !.currentSlave = command.slave]
    BY DEF send
<1>3. command.slave \in Byte
    BY CommandFields DEF Byte
<1>4. send(d, command) \in Drivers
    BY <1>1, <1>2, <1>3 DEF Drivers, ReadStates
<1>5. /\ send(d, command).state = "Address"
      /\ send(d, command).timer = TRUE
      /\ send(d, command).command = command
      /\ send(d, command).currentSlave = command.slave
      /\ send(d, command).pending = d.pending
      /\ send(d, command).fault = "none"
    BY <1>1, <1>2 DEF Drivers
<1> QED BY <1>4, <1>5 DEF OnBus

(* A request is added at the end of the queue: sent at once if the driver  *)
(* is Idle, pending otherwise.                                             *)
LEMMA SubmitQueues ==
    ASSUME NEW d, Settled(d), NEW command \in Commands
    PROVE  /\ Settled(submit(d, command))
           /\ submit(d, command).state # "Idle"
           /\ QueueOf(submit(d, command)) = Append(QueueOf(d), command)
<1>1. d \in Drivers /\ OnBus(d) /\ d.pending \in Seq(Commands)
    BY DEF Settled, OnBus, Drivers
<1>2. CASE d.state = "Idle"
    <2>1. submit(d, command) = send(d, command)
        BY <1>2 DEF submit
    <2>2. d.pending = <<>>
        BY <1>2 DEF Settled
    <2>3. QueueOf(d) = <<>> \o <<>> /\ QueueOf(send(d, command)) = <<command>> \o <<>>
        BY <1>1, <1>2, <2>2, SendOccupiesBus DEF QueueOf
    <2>4. <<command>> \o <<>> = Append(<<>> \o <<>>, command)
        <3>1. <<>> \in Seq(Commands) /\ <<command>> \in Seq(Commands)
            OBVIOUS
        <3>2. <<command>> \o <<>> = <<command>> /\ <<>> \o <<>> = <<>>
            BY <3>1, ConcatEmptySeq
        <3> QED BY <3>2
    <2> QED BY <1>1, <1>2, <2>1, <2>3, <2>4, SendOccupiesBus DEF Settled, Parsing
<1>3. CASE d.state # "Idle"
    <2> DEFINE s == submit(d, command)
    <2>1. s = [d EXCEPT !.pending = Append(d.pending, command)]
        BY <1>3 DEF submit
    <2> HIDE DEF s
    <2>2. Append(d.pending, command) \in Seq(Commands)
        BY <1>1, AppendProperties
    <2>3. /\ s \in Drivers
          /\ s.state = d.state /\ s.timer = d.timer /\ s.fault = d.fault
          /\ s.command = d.command /\ s.currentSlave = d.currentSlave
          /\ s.count = d.count /\ s.startAddress = d.startAddress /\ s.crc = d.crc
          /\ s.pending = Append(d.pending, command)
        BY <1>1, <2>1, <2>2, PendingReplaced, Zenon
    <2>4. Settled(s)
        BY <1>3, <2>3 DEF Settled, OnBus, Parsing
    <2>5. d.command \in Commands
        BY <1>1, <1>3 DEF OnBus
    <2>6. QueueOf(d) = <<d.command>> \o d.pending
          /\ QueueOf(s) = <<d.command>> \o Append(d.pending, command)
        BY <1>3, <2>3 DEF QueueOf
    <2>7. <<d.command>> \o Append(d.pending, command)
            = Append(<<d.command>> \o d.pending, command)
        <3>1. <<d.command>> \in Seq(Commands) /\ <<command>> \in Seq(Commands)
            BY <2>5
        <3>2. Append(d.pending, command) = d.pending \o <<command>>
            BY <1>1, AppendIsConcat
        <3>3. <<d.command>> \o d.pending \in Seq(Commands)
            BY <1>1, <3>1, ConcatProperties
        <3>4. Append(<<d.command>> \o d.pending, command)
                = (<<d.command>> \o d.pending) \o <<command>>
            BY <3>3, AppendIsConcat
        <3> QED BY <1>1, <3>1, <3>2, <3>4, ConcatAssociative
    <2> QED BY <1>3, <2>3, <2>4, <2>6, <2>7 DEF s
<1> QED BY <1>2, <1>3

(* What is left after the command on the bus has come to an end.           *)
Rest(d, asked) == IF asked = <<>> THEN d.pending ELSE Append(d.pending, Head(asked))

(* However a command ends, the next of the queue is sent, the one that the *)
(* handler has just made coming last; the driver is Idle only when none is *)
(* left.                                                                   *)
LEMMA FinishServesNext ==
    ASSUME NEW d, OnBus(d), d.state # "Idle",
           NEW asked, asked # <<>> => Head(asked) \in Commands
    PROVE  /\ Settled(finish(d, asked))
           /\ finish(d, asked).state \in {"Idle", "Address"}
           /\ QueueOf(finish(d, asked)) = Rest(d, asked)
           /\ Rest(d, asked) \in Seq(Commands)
<1>1. d \in Drivers /\ d.pending \in Seq(Commands) /\ d.fault = "none"
    BY DEF OnBus, Drivers
<1> DEFINE s == IF asked = <<>> THEN d ELSE submit(d, Head(asked))
           r == resetStateEngine(s)
           p == Rest(d, asked)
<1>2. p \in Seq(Commands)
    BY <1>1 DEF Rest
<1>3. s \in Drivers /\ s.pending = p /\ s.fault = "none"
    <2>1. CASE asked = <<>>
        BY <1>1, <2>1 DEF Rest
    <2>2. CASE asked # <<>>
        <3>1. s = [d EXCEPT !.pending = Append(d.pending, Head(asked))]
            BY <2>2 DEF submit
        <3>2. Rest(d, asked) = Append(d.pending, Head(asked))
            BY <2>2 DEF Rest
        <3> HIDE DEF s, p
        <3>3. s = [d EXCEPT !.pending = p] BY <3>1, <3>2 DEF p
        <3>4. s \in Drivers /\ s.pending = p /\ s.fault = d.fault
            BY <1>1, <1>2, <3>3, PendingReplaced
        <3> QED BY <1>1, <3>4
    <2> QED BY <2>1, <2>2
<1>4. finish(d, asked) = processPending(r)
    BY DEF finish
<1> HIDE DEF s, p
<1>5. r \in Drivers
    <2>1. 0 \in Byte /\ 0 \in Word /\ <<>> \in Seq(Byte)
        BY WordBounds DEF Byte, Word
    <2> QED BY <1>3, <2>1 DEF resetStateEngine, Drivers, ReadStates
<1>6. /\ r.state = "Idle" /\ r.timer = FALSE /\ r.command = NoCommand
      /\ r.currentSlave = 0 /\ r.fault = "none" /\ r.pending = p
    BY <1>3 DEF resetStateEngine, Drivers
<1>7. OnBus(r)
    BY <1>5, <1>6 DEF OnBus
<1> HIDE DEF r
<1>8. CASE p = <<>>
    <2>1. processPending(r) = r
        BY <1>6, <1>8 DEF processPending
    <2>2. QueueOf(r) = <<>> \o <<>>
        BY <1>6, <1>8 DEF QueueOf
    <2>3. <<>> \in Seq(Commands) /\ <<>> \o <<>> = <<>>
        BY ConcatEmptySeq
    <2> QED BY <1>2, <1>4, <1>6, <1>7, <1>8, <2>1, <2>2, <2>3 DEF Settled, Parsing, p
<1>9. CASE p # <<>>
    <2>1. Head(p) \in Commands /\ Tail(p) \in Seq(Commands)
        BY <1>2, <1>9, HeadTailProperties
    <2> DEFINE t == send(r, Head(p))
               f == [t EXCEPT !.pending = Tail(p)]
    <2>2. processPending(r) = f
        BY <1>6, <1>9 DEF processPending
    <2>3. OnBus(t) /\ t.state = "Address" /\ t.command = Head(p)
        BY <1>6, <1>7, <2>1, SendOccupiesBus
    <2> HIDE DEF t
    <2>4. f \in Drivers
        BY <2>1, <2>3 DEF OnBus, Drivers
    <2>5. /\ f.state = t.state /\ f.timer = t.timer /\ f.command = t.command
          /\ f.currentSlave = t.currentSlave /\ f.fault = t.fault /\ f.pending = Tail(p)
        BY <2>3 DEF OnBus, Drivers
    <2> HIDE DEF f
    <2>6. Settled(f)
        BY <2>3, <2>4, <2>5 DEF Settled, OnBus, Parsing
    <2>7. QueueOf(f) = <<Head(p)>> \o Tail(p)
        BY <2>3, <2>5 DEF QueueOf
    <2>8. <<Head(p)>> \o Tail(p) = p
        BY <1>2, <1>9
    <2>9. f.state = "Address"
        BY <2>3, <2>5
    <2> QED BY <1>2, <1>4, <2>2, <2>6, <2>7, <2>8, <2>9 DEF p
<1> QED BY <1>8, <1>9
-----------------------------------------------------------------------------
(* The parser.                                                             *)

(* What a byte may change: the parser's fields, not the queue.             *)
SameRequest(d, e) ==
    /\ e.state = "Idle" <=> d.state = "Idle"
    /\ e.command = d.command
    /\ e.pending = d.pending
    /\ e.currentSlave = d.currentSlave
    /\ e.timer = d.timer
    /\ e.fault = d.fault

(* The checksum builder takes the byte.                                    *)
LEMMA BuilderExtended ==
    ASSUME NEW d \in Drivers, NEW builder \in Seq(Byte)
    PROVE  LET e == [d EXCEPT !.builder = builder]
           IN  /\ e \in Drivers
               /\ e.state = d.state
               /\ SameRequest(d, e)
               /\ e.function = d.function
               /\ e.count = d.count /\ e.startAddress = d.startAddress /\ e.crc = d.crc
BY DEF Drivers, SameRequest

(* A byte takes the parser to its next state; it neither ends the request  *)
(* nor makes one, and its counters keep their width.                       *)
LEMMA AcceptParses ==
    ASSUME NEW d \in Drivers, Parsing(d), NEW byte \in Byte
    PROVE  /\ accept(d, byte) \in Drivers
           /\ SameRequest(d, accept(d, byte))
           /\ d.state # "CrcLsb" => Parsing(accept(d, byte))
<1> DEFINE e == accept(d, byte)
<1>0. d.count \in Byte /\ d.startAddress \in Word /\ d.crc \in Word /\ d.state \in ReadStates
    BY DriverFields
<1>1. CASE d.state = "Address"
    <2> DEFINE next == IF byte = d.currentSlave THEN "Function" ELSE "Address"
    <2>1. e = [d EXCEPT !.state = next]
        BY <1>1 DEF accept
    <2>2. next \in {"Function", "Address"}
        OBVIOUS
    <2> HIDE DEF e, next
    <2> QED BY <1>1, <2>1, <2>2 DEF Drivers, ReadStates, SameRequest, Parsing, e
<1>2. CASE d.state = "Function"
    <2> DEFINE next == AfterFunction(byte)
               count == IF IsException(byte) THEN 1 ELSE d.count
    <2>1. e = [d EXCEPT !.function = byte, !.state = next, !.count = count]
        BY <1>2 DEF accept
    <2>2. next \in {"Data", "ByteCount", "StartAddressMsb", "Address"}
        BY DEF AfterFunction
    <2>3. count \in Byte /\ (next = "Data" => count >= 1)
        <3>1. d.count \in Byte
            BY DriverFields
        <3>2. next = "Data" <=> IsException(byte)
            BY DEF AfterFunction, IsException, WriteSingleRegister, Byte
        <3> QED BY <3>1, <3>2 DEF Byte
    <2> HIDE DEF e, next, count
    <2> QED BY <1>2, <2>1, <2>2, <2>3 DEF Drivers, ReadStates, SameRequest, Parsing, e
<1>3. CASE d.state = "ByteCount"
    <2> DEFINE next == IF byte = 0 THEN "CrcMsb" ELSE "Data"
               add == byte # 0
    <2>1. e = [d EXCEPT !.count = byte, !.state = next, !.addToCrc = add]
        BY <1>3 DEF accept
    <2>2. next \in {"CrcMsb", "Data"} /\ (next = "Data" => byte >= 1) /\ add \in BOOLEAN
        BY DEF Byte
    <2> HIDE DEF e, next, add
    <2> QED BY <1>3, <2>1, <2>2 DEF Drivers, ReadStates, SameRequest, Parsing, e
<1>4. CASE d.state = "StartAddressMsb"
    <2> DEFINE word == byte * 256
    <2>1. e = [d EXCEPT !.startAddress = word, !.state = "StartAddressLsb"]
        BY <1>4 DEF accept
    <2>2. word \in Word /\ word \in HalfWord
        BY FirstByte
    <2> HIDE DEF e, word
    <2> QED BY <1>4, <2>1, <2>2 DEF Drivers, ReadStates, SameRequest, Parsing, e
<1>5. CASE d.state = "StartAddressLsb"
    <2> DEFINE word == d.startAddress + byte
    <2>1. e = [d EXCEPT !.startAddress = word, !.count = 2, !.state = "Data"]
        BY <1>5 DEF accept
    <2>2. word \in Word /\ 2 \in Byte /\ 2 >= 1
        <3>1. d.startAddress \in HalfWord
            BY <1>5 DEF Parsing
        <3>2. word \in Word
            BY <3>1, SecondByte
        <3>3. 2 \in Byte
            BY DEF Byte
        <3> QED BY <3>2, <3>3
    <2> HIDE DEF e, word
    <2> QED BY <1>5, <2>1, <2>2 DEF Drivers, ReadStates, SameRequest, Parsing, e
<1>6. CASE d.state = "Data"
    <2> DEFINE data == Append(d.data, byte)
               count == d.count - 1
               next == IF d.count = 1 THEN "CrcMsb" ELSE "Data"
               add == d.count # 1
    <2>1. e = [d EXCEPT !.data = data, !.count = count, !.state = next, !.addToCrc = add]
        BY <1>6 DEF accept
    <2>2. next \in {"CrcMsb", "Data"} /\ add \in BOOLEAN
        OBVIOUS
    <2>3. count \in Byte /\ (next = "Data" => count >= 1)
        BY <1>0, <1>6 DEF Parsing, Byte
    <2>4. data \in Seq(Byte)
        BY DriverFields, AppendProperties
    <2> HIDE DEF e, data, count, next, add
    <2> QED BY <1>6, <2>1, <2>2, <2>3, <2>4 DEF Drivers, ReadStates, SameRequest, Parsing, e
<1>7. CASE d.state = "CrcMsb"
    <2> DEFINE word == byte * 256
    <2>1. e = [d EXCEPT !.crc = word, !.state = "CrcLsb"]
        BY <1>7 DEF accept
    <2>2. word \in Word /\ word \in HalfWord
        BY FirstByte
    <2> HIDE DEF e, word
    <2> QED BY <1>7, <2>1, <2>2 DEF Drivers, ReadStates, SameRequest, Parsing, e
<1>8. CASE d.state = "CrcLsb"
    <2> DEFINE word == d.crc + byte
    <2>1. e = [d EXCEPT !.crc = word]
        BY <1>8 DEF accept
    <2>2. word \in Word
        <3>1. d.crc \in HalfWord
            BY <1>8 DEF Parsing
        <3> QED BY <3>1, SecondByte DEF Byte
    <2> HIDE DEF e, word
    <2> QED BY <1>8, <2>1, <2>2 DEF Drivers, SameRequest, e
<1>9. CASE d.state = "Idle"
    BY <1>9 DEF accept, SameRequest, Parsing
<1> QED BY <1>1, <1>2, <1>3, <1>4, <1>5, <1>6, <1>7, <1>8, <1>9, <1>0 DEF ReadStates

(* The whole of handleByteRead, the byte that completes a packet included. *)
LEMMA ByteParsed ==
    ASSUME NEW d, Settled(d), NEW byte \in Byte
    PROVE  /\ OnBus(handleByteRead(d, byte))
           /\ SameRequest(d, handleByteRead(d, byte))
           /\ d.state # "CrcLsb" => Settled(handleByteRead(d, byte))
<1>1. d \in Drivers /\ OnBus(d) /\ Parsing(d)
    BY DEF Settled, OnBus
<1> DEFINE builder == Append(d.builder, byte)
           b == IF d.addToCrc THEN [d EXCEPT !.builder = builder] ELSE d
           e == accept(b, byte)
<1>2. builder \in Seq(Byte)
    BY <1>1, DriverFields, AppendProperties
<1> HIDE DEF builder
<1>3. b \in Drivers /\ SameRequest(d, b) /\ b.state = d.state /\ Parsing(b)
    <2>1. CASE d.addToCrc
        BY <1>1, <1>2, <2>1, BuilderExtended DEF Parsing
    <2>2. CASE ~d.addToCrc
        BY <1>1, <2>2 DEF SameRequest
    <2> QED BY <2>1, <2>2
<1>4. handleByteRead(d, byte) = e
    BY DEF handleByteRead, builder
<1> HIDE DEF b
<1>5. e \in Drivers /\ SameRequest(b, e) /\ (b.state # "CrcLsb" => Parsing(e))
    BY <1>3, AcceptParses
<1> HIDE DEF e
<1>6. SameRequest(d, e)
    BY <1>3, <1>5 DEF SameRequest
<1>7. OnBus(e)
    BY <1>1, <1>5, <1>6 DEF OnBus, SameRequest
<1>8. d.state # "CrcLsb" => Settled(e)
    BY <1>3, <1>5, <1>6, <1>7 DEF Settled, SameRequest
<1> QED BY <1>4, <1>6, <1>7, <1>8
-----------------------------------------------------------------------------
(* The queue and the clients.                                              *)

Waiting == [Slaves -> Commands \cup {NoCommand}]

(* Every client waits for its own command of the queue, or for nothing.    *)
Matches(q, w) ==
    /\ q \in Seq(Commands)
    /\ w \in Waiting
    /\ \A i \in 1 .. Len(q) : w[q[i].slave] = q[i]
    /\ \A i, j \in 1 .. Len(q) : q[i].slave = q[j].slave => i = j
    /\ \A slave \in Slaves : w[slave] # NoCommand =>
          w[slave].slave = slave /\ \E i \in 1 .. Len(q) : q[i] = w[slave]

(* A client that waits for nothing has no command in the queue, so that    *)
(* its next one can join it.                                               *)
LEMMA ClientJoins ==
    ASSUME NEW q, NEW w, Matches(q, w),
           NEW command \in Commands, w[command.slave] = NoCommand
    PROVE  Matches(Append(q, command), [w EXCEPT ![command.slave] = command])
<1> DEFINE r == Append(q, command)
           v == [w EXCEPT ![command.slave] = command]
           n == Len(q)
<1>1. q \in Seq(Commands) /\ w \in Waiting
    BY DEF Matches
<1>2. /\ r \in Seq(Commands) /\ Len(r) = n + 1 /\ n \in Nat
      /\ \A i \in 1 .. n : r[i] = q[i] /\ q[i] \in Commands
      /\ r[n + 1] = command
    BY <1>1, AppendProperties, LenProperties, ElementOfSeq
<1>3. /\ v \in Waiting
      /\ v[command.slave] = command
      /\ \A slave \in Slaves : slave # command.slave => v[slave] = w[slave]
    BY <1>1, CommandFields DEF Waiting
<1>4. \A i \in 1 .. n : q[i].slave \in Slaves /\ q[i] # NoCommand
    BY <1>2, CommandFields
<1>5. \A i \in 1 .. n : w[q[i].slave] = q[i]
    BY DEF Matches
<1>6. \A i \in 1 .. n : q[i].slave # command.slave
    BY <1>4, <1>5
<1>7. \A i, j \in 1 .. n : q[i].slave = q[j].slave => i = j
    BY DEF Matches
<1>8. \A slave \in Slaves : w[slave] # NoCommand =>
          w[slave].slave = slave /\ \E i \in 1 .. n : q[i] = w[slave]
    BY DEF Matches
<1> HIDE DEF r, v, n
<1>9. \A i \in 1 .. n + 1 : i \in 1 .. n \/ i = n + 1
    BY <1>2
<1>10. \A i \in 1 .. n + 1 : v[r[i].slave] = r[i]
    BY <1>2, <1>3, <1>4, <1>5, <1>6, <1>9
<1>11. \A i, j \in 1 .. n + 1 : r[i].slave = r[j].slave => i = j
    BY <1>2, <1>6, <1>7, <1>9
<1>12. ASSUME NEW slave \in Slaves, v[slave] # NoCommand
       PROVE  v[slave].slave = slave /\ \E i \in 1 .. n + 1 : r[i] = v[slave]
    <2>1. CASE slave = command.slave
        <3>1. n + 1 \in 1 .. n + 1
            BY <1>2
        <3> QED BY <1>2, <1>3, <2>1, <3>1
    <2>2. CASE slave # command.slave
        <3>1. PICK i \in 1 .. n : q[i] = w[slave]
            BY <1>3, <1>8, <1>12, <2>2
        <3>2. i \in 1 .. n + 1
            BY <1>2
        <3> QED BY <1>2, <1>3, <1>8, <1>12, <2>2, <3>1, <3>2
    <2> QED BY <2>1, <2>2
<1>13. Matches(r, v)
    BY <1>2, <1>3, <1>10, <1>11, <1>12 DEF Matches
<1> QED BY <1>13 DEF r, v

(* The client whose command has been served waits for nothing.             *)
LEMMA ClientServed ==
    ASSUME NEW q, NEW w, Matches(q, w), q # <<>>
    PROVE  Matches(Tail(q), [w EXCEPT ![Head(q).slave] = NoCommand])
<1> DEFINE r == Tail(q)
           first == q[1].slave
           v == [w EXCEPT ![first] = NoCommand]
           n == Len(r)
<1>1. q \in Seq(Commands) /\ w \in Waiting
    BY DEF Matches
<1>2. /\ r \in Seq(Commands) /\ n \in Nat /\ Len(q) = n + 1
      /\ \A i \in 1 .. n : r[i] = q[i + 1]
    BY <1>1, HeadTailProperties, LenProperties
<1>3. Head(q) = q[1]
    BY <1>1
<1>4. \A i \in 1 .. n + 1 : q[i] \in Commands
    BY <1>1, <1>2, ElementOfSeq
<1>5. \A i \in 1 .. n + 1 : q[i].slave \in Slaves /\ q[i] # NoCommand
    BY <1>4, CommandFields
<1>6. 1 \in 1 .. n + 1 /\ first \in Slaves
    BY <1>2, <1>5
<1>7. /\ v \in Waiting
      /\ v[first] = NoCommand
      /\ \A slave \in Slaves : slave # first => v[slave] = w[slave]
    BY <1>1, <1>6 DEF Waiting
<1>8. \A i \in 1 .. n + 1 : w[q[i].slave] = q[i]
    BY <1>2 DEF Matches
<1>9. \A i, j \in 1 .. n + 1 : q[i].slave = q[j].slave => i = j
    BY <1>2 DEF Matches
<1>10. \A slave \in Slaves : w[slave] # NoCommand =>
          w[slave].slave = slave /\ \E i \in 1 .. n + 1 : q[i] = w[slave]
    BY <1>2 DEF Matches
<1> HIDE DEF r, v, n
<1>11. \A i \in 1 .. n : i + 1 \in 1 .. n + 1 /\ i + 1 # 1
    BY <1>2
<1>12. \A i \in 1 .. n : r[i].slave # first
    BY <1>2, <1>6, <1>9, <1>11
<1> HIDE DEF first
<1>13. \A i \in 1 .. n : v[r[i].slave] = r[i]
    BY <1>2, <1>5, <1>7, <1>8, <1>11, <1>12
<1>14. \A i, j \in 1 .. n : r[i].slave = r[j].slave => i = j
    <2> SUFFICES ASSUME NEW i \in 1 .. n, NEW j \in 1 .. n, r[i].slave = r[j].slave
                 PROVE  i = j
        OBVIOUS
    <2>1. i + 1 = j + 1
        BY <1>2, <1>9, <1>11
    <2> QED BY <1>2, <2>1
<1>15. ASSUME NEW slave \in Slaves, v[slave] # NoCommand
       PROVE  v[slave].slave = slave /\ \E i \in 1 .. n : r[i] = v[slave]
    <2>1. slave # first /\ v[slave] = w[slave]
        BY <1>7, <1>15
    <2>2. PICK i \in 1 .. n + 1 : q[i] = w[slave]
        BY <1>10, <1>15, <2>1
    <2>3. w[slave].slave = slave
        BY <1>10, <1>15, <2>1
    <2>4. i # 1
        BY <2>1, <2>2, <2>3 DEF first
    <2>5. i - 1 \in 1 .. n /\ (i - 1) + 1 = i
        BY <1>2, <2>4
    <2>6. r[i - 1] = w[slave]
        BY <1>2, <2>2, <2>5
    <2> QED BY <2>1, <2>3, <2>5, <2>6
<1>16. Matches(r, v)
    BY <1>2, <1>7, <1>13, <1>14, <1>15 DEF Matches, n
<1> QED BY <1>3, <1>16 DEF r, v, first

(* The end of a command and what its client asks for in the handler.       *)
LEMMA ClientHandles ==
    ASSUME NEW q, NEW w, Matches(q, w), q # <<>>,
           NEW asked \in Asked(Head(q).slave)
    PROVE  LET rest == IF asked = <<>> THEN Tail(q) ELSE Append(Tail(q), Head(asked))
           IN  Matches(rest, [w EXCEPT ![Head(q).slave] =
                                 IF asked = <<>> THEN NoCommand ELSE Head(asked)])
<1> DEFINE first == Head(q).slave
           v == [w EXCEPT ![first] = NoCommand]
<1>1. w \in Waiting /\ first \in Slaves
    BY HeadTailProperties, CommandFields DEF Matches
<1>2. Matches(Tail(q), v)
    BY ClientServed
<1>3. CASE asked = <<>>
    BY <1>2, <1>3
<1>4. CASE asked # <<>>
    <2>1. PICK command \in CommandsOf(first) : asked = <<command>>
        BY <1>4 DEF Asked
    <2>2. command \in Commands /\ command.slave = first /\ Head(asked) = command
        BY <2>1 DEF CommandsOf
    <2>3. v[first] = NoCommand
        BY <1>1 DEF Waiting
    <2>4. Matches(Append(Tail(q), command), [v EXCEPT ![first] = command])
        BY <1>2, <2>2, <2>3, ClientJoins
    <2>5. [v EXCEPT ![first] = command] = [w EXCEPT ![first] = command]
        BY <1>1 DEF Waiting
    <2> QED BY <1>4, <2>2, <2>4, <2>5
<1> QED BY <1>3, <1>4
-----------------------------------------------------------------------------
(* The line.                                                               *)

(* Whatever the line does to a reply, bytes arrive.                        *)
LEMMA RepliesAreBytes ==
    ASSUME NEW command \in Commands, NEW r \in Replies(command)
    PROVE  r \in Seq(Byte)
<1> DEFINE good == GoodReplies[command]
<1>1. good \in Seq(Byte) /\ Exceptions[command] \in Seq(Byte)
    BY RepliesAssumption
<1>2. 0 \in Byte
    BY DEF Byte
<1>3. <<>> \in Seq(Byte) /\ <<0>> \in Seq(Byte)
    BY <1>2
<1> HIDE DEF good
<1>4. <<0>> \o good \in Seq(Byte)
    BY <1>1, <1>3, ConcatProperties
<1>5. Front(good) \in Seq(Byte)
    <2>1. Len(good) \in Nat
        BY <1>1, LenProperties
    <2>2. \A i \in 1 .. Len(good) - 1 : good[i] \in Byte
        BY <1>1, <2>1, ElementOfSeq
    <2> QED BY <2>1, <2>2, SubSeqProperties DEF Front
<1>6. ASSUME NEW i \in {2, 3}
      PROVE  [good EXCEPT ![i] = 0] \in Seq(Byte)
    <2>1. CASE i \in 1 .. Len(good)
        BY <1>1, <1>2, <2>1, ExceptSeq
    <2>2. CASE i \notin 1 .. Len(good)
        <3>1. good \in [1 .. Len(good) -> Byte]
            BY <1>1, LenProperties
        <3>2. [good EXCEPT ![i] = 0] = good
            BY <2>2, <3>1
        <3> QED BY <1>1, <3>2
    <2> QED BY <2>1, <2>2
<1>7. r \in {<<>>, good, Exceptions[command], <<0>> \o good, Front(good)}
              \cup {[good EXCEPT ![i] = 0] : i \in {2, 3}}
    BY DEF Replies, good
<1> QED BY <1>1, <1>3, <1>4, <1>5, <1>6, <1>7

(* The bytes under way to the driver.                                      *)
LineTyped == line \in Seq(Byte) /\ alone \in BOOLEAN

(* The reply of a meter follows the bytes that are already under way.      *)
LEMMA MeterSendsBytes ==
    ASSUME NEW rest \in Seq(Byte), MeterReplies(rest), LineTyped,
           driver'.command \in Commands \cup {NoCommand}
    PROVE  LineTyped'
<1>1. CASE driver'.command = NoCommand
    BY <1>1 DEF MeterReplies, LineTyped
<1>2. CASE driver'.command # NoCommand
    <2>1. driver'.command \in Commands
        BY <1>2
    <2>2. reply' \in Replies(driver'.command) /\ line' = rest \o reply'
        BY <1>2 DEF MeterReplies
    <2>3. alone' \in BOOLEAN
        BY <1>2, Zenon DEF MeterReplies
    <2>4. reply' \in Seq(Byte)
        BY <2>1, <2>2, RepliesAreBytes
    <2> QED BY <2>2, <2>3, <2>4, ConcatProperties DEF LineTyped
<1> QED BY <1>1, <1>2

-----------------------------------------------------------------------------
(* The inductive invariant: between two handlers the driver is settled,    *)
(* its queue and its clients match, and bytes are on the line.             *)
IInv ==
    /\ Settled(driver)
    /\ Matches(QueueOf(driver), waiting)
    /\ LineTyped

(* An Idle driver has nothing to do.                                       *)
LEMMA IdleQueue ==
    ASSUME NEW d, Settled(d)
    PROVE  /\ d.pending \in Seq(Commands)
           /\ d.state = "Idle" => QueueOf(d) = <<>>
           /\ d.state # "Idle" => /\ d.command \in Commands
                                 /\ QueueOf(d) # <<>>
                                 /\ Head(QueueOf(d)) = d.command
                                 /\ Tail(QueueOf(d)) = d.pending
                                 /\ d.currentSlave = d.command.slave
<1>1. d.pending \in Seq(Commands) /\ OnBus(d)
    BY DEF Settled, OnBus, Drivers
<1>2. CASE d.state = "Idle"
    <2>1. QueueOf(d) = <<>> \o <<>>
        BY <1>2 DEF QueueOf, Settled
    <2>2. <<>> \in Seq(Commands) /\ <<>> \o <<>> = <<>>
        BY ConcatEmptySeq
    <2> QED BY <1>1, <1>2, <2>1, <2>2
<1>3. CASE d.state # "Idle"
    <2>1. d.command \in Commands /\ d.currentSlave = d.command.slave
        BY <1>1, <1>3 DEF OnBus
    <2> DEFINE c == d.command  p == d.pending  q == <<c>> \o p
    <2>2. QueueOf(d) = q
        BY <1>3 DEF QueueOf
    <2>3. c \in Commands /\ p \in Seq(Commands)
        BY <1>1, <2>1
    <2> HIDE DEF c, p
    <2>4. q # <<>> /\ Head(q) = c /\ Tail(q) = p
        <3>1. <<c>> \in Seq(Commands) /\ Len(<<c>>) = 1 /\ <<c>>[1] = c
            BY <2>3
        <3>2. /\ q \in Seq(Commands) /\ Len(q) = 1 + Len(p) /\ Len(p) \in Nat
              /\ \A i \in 1 .. 1 + Len(p) : q[i] = IF i <= 1 THEN <<c>>[i] ELSE p[i - 1]
            BY <2>3, <3>1, ConcatProperties, LenProperties
        <3>3. q # <<>>
            BY <3>2, EmptySeq
        <3>4. q[1] = c
            BY <3>1, <3>2
        <3>5. Head(q) = c
            BY <3>2, <3>4
        <3>6. /\ Tail(q) \in Seq(Commands) /\ Len(Tail(q)) = Len(p)
              /\ \A i \in 1 .. Len(p) : Tail(q)[i] = q[i + 1]
            BY <3>2, <3>3, HeadTailProperties
        <3>7. \A i \in 1 .. Len(p) : q[i + 1] = p[i]
            BY <3>2
        <3>8. Tail(q) = p
            BY <2>3, <3>6, <3>7, SeqEqual
        <3> QED BY <3>3, <3>5, <3>8
    <2> QED BY <1>1, <1>3, <2>1, <2>2, <2>4 DEF c, p
<1> QED BY <1>2, <1>3
(* What Handled records and finish does, for whatever has ended a command. *)
LEMMA RequestEnds ==
    ASSUME IInv, driver.state # "Idle",
           NEW d, OnBus(d), SameRequest(driver, d),
           NEW asked \in Asked(driver.currentSlave)
    PROVE  LET q == QueueOf(driver)
           IN  /\ q # <<>>
               /\ Settled(finish(d, asked))
               /\ asked # <<>> => Head(asked) \in Commands
               /\ QueueOf(finish(d, asked)) =
                     IF asked = <<>> THEN Tail(q) ELSE Append(Tail(q), Head(asked))
               /\ Matches(QueueOf(finish(d, asked)),
                          [waiting EXCEPT ![driver.currentSlave] =
                              IF asked = <<>> THEN NoCommand ELSE Head(asked)])
<1> DEFINE q == QueueOf(driver)
<1>1. Settled(driver) /\ Matches(q, waiting)
    BY DEF IInv
<1>2. /\ q # <<>> /\ Head(q) = driver.command /\ Tail(q) = driver.pending
      /\ driver.currentSlave = driver.command.slave
    BY <1>1, IdleQueue
<1>3. d.pending = driver.pending /\ d.state # "Idle"
    BY DEF SameRequest
<1>4. asked # <<>> => Head(asked) \in Commands
    <2> SUFFICES ASSUME asked # <<>> PROVE Head(asked) \in Commands
        OBVIOUS
    <2>1. PICK command \in CommandsOf(driver.currentSlave) : asked = <<command>>
        BY DEF Asked
    <2> QED BY <2>1 DEF CommandsOf
<1>5. Settled(finish(d, asked)) /\ QueueOf(finish(d, asked)) = Rest(d, asked)
    BY <1>3, <1>4, FinishServesNext
<1>6. Rest(d, asked) = IF asked = <<>> THEN Tail(q) ELSE Append(Tail(q), Head(asked))
    BY <1>2, <1>3 DEF Rest
<1> HIDE DEF q
<1>7. Matches(Rest(d, asked), [waiting EXCEPT ![driver.currentSlave] =
                                  IF asked = <<>> THEN NoCommand ELSE Head(asked)])
    BY <1>1, <1>2, <1>6, ClientHandles
<1> QED BY <1>2, <1>4, <1>5, <1>6, <1>7 DEF q

(* What a step does to the queue, in the words of the server.              *)
Served ==
    \/ \E command \in Commands : QueueOf(driver)' = Append(QueueOf(driver), command)
    \/ /\ QueueOf(driver) # <<>>
       /\ \/ QueueOf(driver)' = Tail(QueueOf(driver))
          \/ \E command \in Commands :
                QueueOf(driver)' = Append(Tail(QueueOf(driver)), command)
    \/ QueueOf(driver)' = QueueOf(driver)

(* The end of a command is a step of the server.                           *)
LEMMA EndServes ==
    ASSUME IInv, driver.state # "Idle",
           NEW d, OnBus(d), SameRequest(driver, d),
           NEW asked \in Asked(driver.currentSlave), NEW rest \in Seq(Byte),
           driver' = finish(d, asked), Handled(driver.currentSlave, asked),
           MeterReplies(rest)
    PROVE  IInv' /\ Served
<1> DEFINE q == QueueOf(driver)
           f == finish(d, asked)
           w == [waiting EXCEPT ![driver.currentSlave] =
                    IF asked = <<>> THEN NoCommand ELSE Head(asked)]
<1>1. /\ q # <<>>
      /\ Settled(f)
      /\ asked # <<>> => Head(asked) \in Commands
      /\ QueueOf(f) = IF asked = <<>> THEN Tail(q) ELSE Append(Tail(q), Head(asked))
      /\ Matches(QueueOf(f), w)
    BY RequestEnds
<1>2. waiting' = w
    BY DEF Handled
<1>3. QueueOf(driver)' = QueueOf(f)
    BY DEF QueueOf
<1>4. driver' = f
    OBVIOUS
<1> HIDE DEF f, w, q
<1>5. Settled(driver)' /\ Matches(QueueOf(driver), waiting)'
    <2>1. Settled(driver')
        BY <1>1, <1>4
    <2>2. Matches(QueueOf(driver'), waiting')
        BY <1>1, <1>2, <1>4
    <2> QED BY <2>1, <2>2
<1>6. LineTyped'
    <2>1. driver'.command \in Commands \cup {NoCommand}
        BY <1>1, <1>4 DEF Settled, OnBus, Drivers
    <2> QED BY <2>1, MeterSendsBytes DEF IInv
<1>7. Served
    BY <1>1, <1>3 DEF Served, q
<1> QED BY <1>5, <1>6, <1>7 DEF IInv

(* Nothing is queued, and nobody waits, at first.                          *)
LEMMA Initially ==
    Init => IInv /\ QueueOf(driver) = <<>>
<1> SUFFICES ASSUME Init PROVE IInv /\ QueueOf(driver) = <<>>
    OBVIOUS
<1>1. /\ <<>> \in Seq(Commands) /\ <<>> \in Seq(Byte) /\ Len(<<>>) = 0
      /\ 0 \in Byte /\ 0 \in Word
    BY WordBounds DEF Byte, Word
<1>2. driver \in Drivers
    BY <1>1 DEF Init, Drivers, ReadStates
<1>3. /\ driver.state = "Idle" /\ driver.pending = <<>> /\ driver.fault = "none"
      /\ driver.timer = FALSE /\ driver.command = NoCommand /\ driver.currentSlave = 0
    BY DEF Init
<1>4. Settled(driver)
    BY <1>2, <1>3 DEF Settled, OnBus, Parsing
<1>5. QueueOf(driver) = <<>>
    BY <1>3, <1>4, IdleQueue
<1>6. waiting \in Waiting /\ \A slave \in Slaves : waiting[slave] = NoCommand
    BY DEF Init, Waiting
<1>7. Matches(<<>>, waiting)
    BY <1>1, <1>6 DEF Matches
<1>8. LineTyped
    BY <1>1 DEF Init, LineTyped
<1> QED BY <1>4, <1>5, <1>7, <1>8 DEF IInv

(* Every step of the driver and its clients keeps the invariant, and is a  *)
(* step of the server or leaves the queue as it is.                        *)
LEMMA Preserved ==
    IInv /\ [Next]_vars => IInv' /\ Served
<1> SUFFICES ASSUME IInv, [Next]_vars PROVE IInv' /\ Served
    OBVIOUS
<1> USE DEF LineTyped
<1>1. Settled(driver) /\ Matches(QueueOf(driver), waiting) /\ line \in Seq(Byte)
    BY DEF IInv
<1>2. ASSUME NEW slave \in Slaves, Ask(slave) PROVE IInv' /\ Served
    <2>1. PICK command \in CommandsOf(slave) :
              /\ driver' = submit(driver, command)
              /\ waiting' = [waiting EXCEPT ![slave] = command]
        BY <1>2 DEF Ask
    <2>2. command \in Commands /\ command.slave = slave /\ waiting[slave] = NoCommand
        BY <1>2 DEF Ask, CommandsOf
    <2> DEFINE s == submit(driver, command)
    <2>3. Settled(s) /\ QueueOf(s) = Append(QueueOf(driver), command)
        BY <1>1, <2>2, SubmitQueues
    <2>4. driver' = s
        BY <2>1
    <2> HIDE DEF s
    <2>5. QueueOf(driver') = Append(QueueOf(driver), command) /\ Settled(driver')
        BY <2>3, <2>4
    <2>6. Matches(QueueOf(driver'), waiting')
        <3>1. waiting' = [waiting EXCEPT ![command.slave] = command]
            BY <2>1, <2>2
        <3>2. waiting[command.slave] = NoCommand
            BY <2>2
        <3>3. Matches(Append(QueueOf(driver), command),
                      [waiting EXCEPT ![command.slave] = command])
            BY <1>1, <2>2, <3>2, ClientJoins
        <3>4. QueueOf(driver') = Append(QueueOf(driver), command)
            BY <2>5
        <3> QED BY <3>1, <3>3, <3>4
    <2>7. driver'.command \in Commands \cup {NoCommand}
        BY <2>5 DEF Settled, OnBus, Drivers
    <2>8. LineTyped'
        <3>1. CASE driver.state = "Idle"
            BY <1>1, <1>2, <2>7, <3>1, MeterSendsBytes DEF Ask, IInv
        <3>2. CASE driver.state # "Idle"
            BY <1>2, <3>2 DEF Ask, IInv
        <3> QED BY <3>1, <3>2
    <2> QED BY <2>2, <2>5, <2>6, <2>8 DEF IInv, Served
<1>3. CASE ByteReceived
    <2>1. Head(line) \in Byte /\ Tail(line) \in Seq(Byte) /\ driver.state # "CrcLsb"
        BY <1>1, <1>3, HeadTailProperties DEF ByteReceived
    <2> DEFINE e == handleByteRead(driver, Head(line))
    <2>2. Settled(e) /\ SameRequest(driver, e)
        BY <1>1, <2>1, ByteParsed
    <2>3. driver' = e /\ line' = Tail(line) /\ waiting' = waiting /\ alone' = alone
        BY <1>3 DEF ByteReceived
    <2> HIDE DEF e
    <2>4. QueueOf(e) = QueueOf(driver)
        BY <2>2 DEF QueueOf, SameRequest
    <2>5. Settled(driver') /\ QueueOf(driver') = QueueOf(driver)
        BY <2>2, <2>3, <2>4
    <2>6. Matches(QueueOf(driver'), waiting')
        BY <1>1, <2>3, <2>5
    <2>7. LineTyped'
        BY <2>1, <2>3 DEF IInv
    <2> QED BY <2>5, <2>6, <2>7 DEF IInv, Served
<1>4. CASE PacketReceived
    <2>1. Head(line) \in Byte /\ Tail(line) \in Seq(Byte) /\ driver.state = "CrcLsb"
        BY <1>1, <1>4, HeadTailProperties DEF PacketReceived
    <2> DEFINE e == handleByteRead(driver, Head(line))
    <2>2. OnBus(e) /\ SameRequest(driver, e)
        BY <1>1, <2>1, ByteParsed
    <2>3. PICK asked \in Asked(driver.currentSlave) :
              driver' = finish(e, asked) /\ Handled(driver.currentSlave, asked)
        BY <1>4 DEF PacketReceived
    <2>4. MeterReplies(Tail(line))
        BY <1>4 DEF PacketReceived
    <2> HIDE DEF e
    <2> QED BY <2>1, <2>2, <2>3, <2>4, EndServes
<1>5. CASE onTimeout
    <2>1. driver.state # "Idle" /\ MeterReplies(line)
        BY <1>5 DEF onTimeout
    <2>2. PICK asked \in Asked(driver.currentSlave) :
              driver' = finish(driver, asked) /\ Handled(driver.currentSlave, asked)
        BY <1>5 DEF onTimeout
    <2>3. OnBus(driver) /\ SameRequest(driver, driver)
        BY <1>1 DEF Settled, SameRequest
    <2> QED BY <1>1, <2>1, <2>2, <2>3, EndServes
<1>6. CASE UNCHANGED vars
    <2>1. driver' = driver /\ waiting' = waiting /\ line' = line /\ alone' = alone
        BY <1>6 DEF vars
    <2>2. QueueOf(driver)' = QueueOf(driver)
        BY <2>1
    <2> QED BY <2>1, <2>2 DEF IInv, Served
<1> QED BY <1>2, <1>3, <1>4, <1>5, <1>6 DEF Next

-----------------------------------------------------------------------------
(* The invariant holds in every reachable state.                           *)
THEOREM Invariant == Spec => []IInv
<1>1. Init => IInv
    BY Initially
<1>2. IInv /\ [Next]_vars => IInv'
    BY Preserved
<1> QED BY <1>1, <1>2, PTL DEF Spec

(* Type correctness, for any checksum: no byte that arrives, in whatever   *)
(* state of the parser, overflows a count, an address or a checksum.       *)
THEOREM TypeCorrect == Spec => []TypeOK
<1>1. IInv => TypeOK
    BY DEF IInv, Settled, OnBus, LineTyped, Matches, Waiting, TypeOK
<1> QED BY <1>1, Invariant, PTL

(* No command is forgotten in the queue, and no assertion of the driver    *)
(* fails, whenever clients make their commands.                            *)
THEOREM NothingIsForgotten == Spec => []NothingForgotten
<1>1. IInv => NothingForgotten
    <2> SUFFICES ASSUME IInv PROVE NothingForgotten
        OBVIOUS
    <2>1. /\ driver.fault = "none"
          /\ driver.timer <=> driver.state # "Idle"
          /\ driver.state = "Idle" => driver.pending = <<>>
        BY DEF IInv, Settled, OnBus
    <2> QED BY <2>1 DEF NothingForgotten
<1> QED BY <1>1, Invariant, PTL

(* Each client waits for one command, which is in the queue, once, and the *)
(* signal of the command on the bus goes to the client that made it.       *)
THEOREM ClientsWaitOnce == Spec => []EachWaitsOnce
<1>1. IInv => EachWaitsOnce
    <2> SUFFICES ASSUME IInv PROVE EachWaitsOnce
        OBVIOUS
    <2> DEFINE q == QueueOf(driver)
    <2>1. Queue = q
        BY DEF Queue, QueueOf
    <2>2. Matches(q, waiting) /\ Settled(driver)
        BY DEF IInv
    <2> HIDE DEF q
    <2>3. q \in Seq(Commands) /\ DOMAIN q = 1 .. Len(q)
        BY <2>2, LenProperties DEF Matches
    <2>4. IsInjective([i \in DOMAIN q |-> q[i].slave])
        BY <2>2, <2>3 DEF Matches, IsInjective
    <2>5. ToSet(q) = {waiting[slave] : slave \in Slaves} \ {NoCommand}
        <3>1. ASSUME NEW i \in 1 .. Len(q)
              PROVE  q[i] \in {waiting[slave] : slave \in Slaves} \ {NoCommand}
            <4>1. q[i].slave \in Slaves /\ q[i] # NoCommand
                BY <2>3, ElementOfSeq, CommandFields
            <4> QED BY <2>2, <4>1 DEF Matches
        <3>2. ASSUME NEW slave \in Slaves, waiting[slave] # NoCommand
              PROVE  \E i \in 1 .. Len(q) : q[i] = waiting[slave]
            BY <2>2, <3>2 DEF Matches
        <3> QED BY <2>3, <3>1, <3>2 DEF ToSet
    <2>6. driver.currentSlave = driver.command.slave
        <3>1. NoCommand.slave = 0
            BY DEF NoCommand
        <3> QED BY <2>2, <3>1 DEF Settled, OnBus
    <2> QED BY <2>1, <2>2, <2>4, <2>5, <2>6 DEF EachWaitsOnce, Matches
<1> QED BY <1>1, Invariant, PTL

(* The driver implements the server of its header: requests are served one *)
(* at a time in the order of their arrival, whatever the line does.        *)
THEOREM ServesInOrder == Spec => ServerSpec
<1>1. Init => Server!Init
    BY Initially DEF Server!Init, Queue, QueueOf
<1>2. IInv /\ [Next]_vars => [Server!Next]_Queue
    <2> SUFFICES ASSUME IInv, [Next]_vars PROVE [Server!Next]_Queue
        OBVIOUS
    <2>1. Served
        BY Preserved
    <2>2. Queue = QueueOf(driver) /\ Queue' = QueueOf(driver)'
        BY DEF Queue, QueueOf
    <2> QED BY <2>1, <2>2 DEF Served, Server!Next, Server!Submit, Server!Finish
<1> QED BY <1>1, <1>2, Invariant, PTL DEF Spec, ServerSpec, Server!Spec

-----------------------------------------------------------------------------
(* A reply that is alone on the line.  The parser may lose its place in it *)
(* when a byte is damaged, and begin again in the data, which look like    *)
(* another reply; but what is left is then too short to be one.            *)
(* A function that a driver acts on is expected if it is that of the       *)
(* command; the others end in an exception or are passed over.             *)
Functions == {3, 4, WriteSingleRegister}
Expected(command, function) == function \in Functions => function = command.function

(* No reply to another kind of command fits into the text.                 *)
InStep(t, command) ==
    \A i \in 1 .. Len(t) :
        t[i] = command.slave /\ i + 4 <= Len(t) => Expected(command, t[i + 1])

(* The bytes that a packet lacks whose function is known.                  *)
Lacks(d) ==
    CASE d.state = "ByteCount"       -> 3
      [] d.state = "StartAddressMsb" -> 6
      [] d.state = "StartAddressLsb" -> 5
      [] d.state = "Data"            -> d.count + 2
      [] d.state = "CrcMsb"          -> 2
      [] d.state = "CrcLsb"          -> 1

Within == {"ByteCount", "StartAddressMsb", "StartAddressLsb", "Data", "CrcMsb", "CrcLsb"}

Recognized(d) == d.state \in Within => d.function \in Functions \/ IsException(d.function)

Following(d, t) ==
    /\ d.state \in {"Address", "Function"} => InStep(t, d.command)
    /\ d.state = "Function" => Len(t) < 4 \/ Expected(d.command, t[1])
    /\ d.state \in Within => Expected(d.command, d.function) \/ Len(t) < Lacks(d)

Attending ==
    /\ Recognized(driver)
    /\ alone => Following(driver, line)


LEMMA CommandKinds ==
    ASSUME NEW command \in Commands
    PROVE  /\ command.function \in {3, 6} /\ command.slave \in 1 .. 247
           /\ command.slave \in Byte
BY CommandFields, ModbusAssumption
   DEF CommandType, ReadHoldingRegisters, WriteSingleRegister, Byte

(* A reply and the two bytes of its checksum.                              *)
LEMMA Checked ==
    ASSUME NEW S, NEW bytes \in Seq(S)
    PROVE  /\ Len(WithCrc(bytes)) = Len(bytes) + 2
           /\ \A i \in 1 .. Len(bytes) : WithCrc(bytes)[i] = bytes[i]
<1> DEFINE msb == getValue(bytes) \div 256
           lsb == getValue(bytes) % 256
           T == S \cup {msb, lsb}
<1>1. WithCrc(bytes) = bytes \o <<msb, lsb>>
    BY DEF WithCrc
<1> HIDE DEF msb, lsb
<1>2. bytes \in Seq(T) /\ <<msb, lsb>> \in Seq(T) /\ Len(<<msb, lsb>>) = 2
    <2>1. S \subseteq T
        OBVIOUS
    <2>2. bytes \in Seq(T)
        BY <2>1, SeqMonotonic
    <2>3. msb \in T /\ lsb \in T
        OBVIOUS
    <2> HIDE DEF T
    <2> QED BY <2>2, <2>3
<1> HIDE DEF T
<1>3. /\ Len(bytes \o <<msb, lsb>>) = Len(bytes) + 2
      /\ \A i \in 1 .. Len(bytes) + 2 :
            (bytes \o <<msb, lsb>>)[i] = IF i <= Len(bytes) THEN bytes[i]
                                         ELSE <<msb, lsb>>[i - Len(bytes)]
    BY <1>2, ConcatProperties
<1>4. Len(bytes) \in Nat
    BY LenProperties
<1> QED BY <1>1, <1>3, <1>4

(* The replies of the meters, byte by byte, but for their checksums.       *)
LEMMA ReadReply ==
    ASSUME NEW command \in Commands, command.function = 3
    PROVE  LET good == GoodReplies[command]
           IN  /\ good \in Seq(Byte) /\ Len(good) = 7
               /\ good[1] = command.slave /\ good[2] = 3 /\ good[3] = 2
               /\ good[4] = command.slave /\ good[5] = 3
<1> DEFINE head == <<command.slave, 3, 2>>
           data == <<command.slave, 3>>
           bytes == head \o data
<1>1. /\ bytes \in Seq(Byte) /\ Len(bytes) = 5
      /\ bytes[1] = command.slave /\ bytes[2] = 3 /\ bytes[3] = 2
      /\ bytes[4] = command.slave /\ bytes[5] = 3
    <2>1. command.slave \in Byte /\ 2 \in Byte /\ 3 \in Byte
        BY CommandKinds DEF Byte
    <2>2. /\ head \in Seq(Byte) /\ Len(head) = 3
          /\ head[1] = command.slave /\ head[2] = 3 /\ head[3] = 2
        BY <2>1
    <2>3. /\ data \in Seq(Byte) /\ Len(data) = 2
          /\ data[1] = command.slave /\ data[2] = 3
        BY <2>1
    <2> HIDE DEF head, data
    <2>4. /\ bytes \in Seq(Byte) /\ Len(bytes) = Len(head) + Len(data)
          /\ \A i \in 1 .. Len(head) + Len(data) :
                bytes[i] = IF i <= Len(head) THEN head[i] ELSE data[i - Len(head)]
        BY <2>2, <2>3, ConcatProperties
    <2> HIDE DEF bytes
    <2>5. 4 - 3 = 1 /\ 5 - 3 = 2 /\ 3 + 2 = 5
        OBVIOUS
    <2>6. \A i \in 1 .. 5 : bytes[i] = IF i <= 3 THEN head[i] ELSE data[i - 3]
        BY <2>2, <2>3, <2>4, <2>5
    <2> QED BY <2>2, <2>3, <2>4, <2>5, <2>6
<1>3. GoodReplies[command] = WithCrc(bytes)
    BY DEF GoodReplies, DataOf, ReadHoldingRegisters
<1> HIDE DEF bytes
<1>4. /\ Len(WithCrc(bytes)) = Len(bytes) + 2
      /\ \A i \in 1 .. Len(bytes) : WithCrc(bytes)[i] = bytes[i]
    BY <1>1, Checked
<1>5. GoodReplies[command] \in Seq(Byte)
    BY RepliesAssumption
<1> QED BY <1>1, <1>3, <1>4, <1>5

LEMMA WriteReply ==
    ASSUME NEW command \in Commands, command.function = 6
    PROVE  LET good == GoodReplies[command]
           IN  /\ good \in Seq(Byte) /\ Len(good) = 8
               /\ good[1] = command.slave /\ good[2] = 6 /\ good[3] = 0
               /\ good[5] = 0
<1> DEFINE bytes == <<command.slave, 6, 0, command.reg, 0, command.value>>
<1>1. /\ bytes \in Seq(Byte) /\ Len(bytes) = 6
      /\ bytes[1] = command.slave /\ bytes[2] = 6 /\ bytes[3] = 0 /\ bytes[5] = 0
    <2>1. command.slave \in Byte /\ 0 \in Byte /\ 6 \in Byte
        BY CommandKinds DEF Byte
    <2>2. command.reg \in Byte /\ command.value \in Byte
        BY ModbusAssumption DEF CommandType
    <2> QED BY <2>1, <2>2
<1>2. GoodReplies[command] = WithCrc(bytes)
    BY DEF GoodReplies, ReadHoldingRegisters, WriteSingleRegister
<1> HIDE DEF bytes
<1>3. /\ Len(WithCrc(bytes)) = Len(bytes) + 2
      /\ \A i \in 1 .. Len(bytes) : WithCrc(bytes)[i] = bytes[i]
    BY <1>1, Checked
<1>4. GoodReplies[command] \in Seq(Byte)
    BY RepliesAssumption
<1> QED BY <1>1, <1>2, <1>3, <1>4

LEMMA ExceptionReply ==
    ASSUME NEW command \in Commands
    PROVE  LET e == Exceptions[command]
           IN  /\ e \in Seq(Byte) /\ Len(e) = 5
               /\ e[1] = command.slave /\ e[2] = command.function + 128
<1> DEFINE bytes == <<command.slave, command.function + 128, 2>>
<1>1. /\ bytes \in Seq(Byte) /\ Len(bytes) = 3
      /\ bytes[1] = command.slave /\ bytes[2] = command.function + 128
    <2>1. command.slave \in Byte /\ command.function + 128 \in Byte /\ 2 \in Byte
        BY CommandKinds DEF Byte
    <2> QED BY <2>1
<1>2. Exceptions[command] = WithCrc(bytes)
    BY DEF Exceptions
<1> HIDE DEF bytes
<1>3. /\ Len(WithCrc(bytes)) = Len(bytes) + 2
      /\ \A i \in 1 .. Len(bytes) : WithCrc(bytes)[i] = bytes[i]
    BY <1>1, Checked
<1>4. Exceptions[command] \in Seq(Byte)
    BY RepliesAssumption
<1> QED BY <1>1, <1>2, <1>3, <1>4

(* Whatever the line makes of a reply, but for its delay, no reply to      *)
(* another kind of command can be found in it.                             *)
LEMMA RepliesInStep ==
    ASSUME NEW command \in Commands, NEW r \in Replies(command)
    PROVE  InStep(r, command)
<1> DEFINE good == GoodReplies[command]
           slave == command.slave
<1>1. command.function \in {3, 6} /\ slave \in 1 .. 247
    BY CommandKinds
<1>2. good \in Seq(Byte) /\ Len(good) \in {7, 8}
    BY <1>1, ReadReply, WriteReply
<1>3. /\ command.function = 3 =>
            /\ Len(good) = 7
            /\ good[1] = slave /\ good[2] = 3 /\ good[3] = 2 /\ good[4] = slave /\ good[5] = 3
      /\ command.function = 6 =>
            /\ Len(good) = 8
            /\ good[1] = slave /\ good[2] = 6 /\ good[3] = 0 /\ good[5] = 0
    BY ReadReply, WriteReply
<1> HIDE DEF good, slave
<1>4. ASSUME NEW t, NEW n \in Nat, Len(t) = n, n <= Len(good),
             t[1] = slave,
             t[2] \in {0, good[2]},
             command.function = 3 =>
                t[3] \in {0, 2} /\ t[4] = slave /\ t[5] = 3,
             command.function = 6 => t[3] = 0 /\ t[5] = 0
      PROVE  InStep(t, command)
    <2>1. ASSUME NEW i \in 1 .. n, t[i] = slave, i + 4 <= n
          PROVE  Expected(command, t[i + 1])
        <3>1. CASE command.function = 3
            <4>1. i \in {1, 2, 3}
                <5>1. n <= 7
                    BY <1>3, <1>4, <3>1
                <5> QED BY <1>4, <2>1, <5>1
            <4>2. CASE i = 1
                BY <1>3, <1>4, <3>1, <4>2
                   DEF Expected, Functions, WriteSingleRegister
            <4>3. CASE i = 2
                BY <1>4, <3>1, <4>3 DEF Expected, Functions, WriteSingleRegister
            <4>4. CASE i = 3
                <5>1. t[4] = slave /\ slave \in {0, 2}
                    BY <1>4, <2>1, <3>1, <4>4
                <5> QED BY <4>4, <5>1 DEF Expected, Functions, WriteSingleRegister
            <4> QED BY <4>1, <4>2, <4>3, <4>4
        <3>2. CASE command.function = 6
            <4>1. i \in {1, 2, 3, 4}
                <5>1. n <= 8
                    BY <1>3, <1>4, <3>2
                <5> QED BY <1>4, <2>1, <5>1
            <4>2. CASE i = 1
                BY <1>3, <1>4, <3>2, <4>2
                   DEF Expected, Functions, WriteSingleRegister
            <4>3. CASE i = 2
                BY <1>4, <3>2, <4>3 DEF Expected, Functions, WriteSingleRegister
            <4>4. CASE i = 3
                BY <1>1, <1>4, <2>1, <3>2, <4>4
            <4>5. CASE i = 4
                BY <1>4, <3>2, <4>5 DEF Expected, Functions, WriteSingleRegister
            <4> QED BY <4>1, <4>2, <4>3, <4>4, <4>5
        <3> QED BY <1>1, <3>1, <3>2
    <2> QED BY <1>4, <2>1 DEF InStep, slave
<1>5. InStep(good, command)
    BY <1>1, <1>2, <1>3, <1>4
<1>6. InStep(<<>>, command)
    BY DEF InStep
<1>7. InStep(Exceptions[command], command)
    <2> DEFINE e == Exceptions[command]
    <2>1. Len(e) = 5 /\ e[2] = command.function + 128
        BY ExceptionReply
    <2> HIDE DEF e
    <2>2. ASSUME NEW i \in 1 .. Len(e), i + 4 <= Len(e)
          PROVE  Expected(command, e[i + 1])
        <3>1. i = 1 /\ 1 + 1 = 2
            BY <2>1, <2>2
        <3> QED BY <1>1, <2>1, <3>1 DEF Expected, Functions, WriteSingleRegister
    <2> QED BY <2>2 DEF InStep, e
<1>8. InStep(<<0>> \o good, command)
    <2> DEFINE t == <<0>> \o good
    <2>1. /\ Len(t) = 1 + Len(good)
          /\ \A i \in 1 .. 1 + Len(good) : t[i] = IF i <= 1 THEN <<0>>[i] ELSE good[i - 1]
        <3>1. <<0>> \in Seq(Byte) /\ Len(<<0>>) = 1
            BY DEF Byte
        <3> QED BY <1>2, <3>1, ConcatProperties
    <2> HIDE DEF t
    <2>2. ASSUME NEW i \in 1 .. Len(t), t[i] = slave, i + 4 <= Len(t)
          PROVE  Expected(command, t[i + 1])
        <3>1. i # 1
            BY <1>1, <1>2, <2>1, <2>2
        <3>2. /\ i - 1 \in 1 .. Len(good) /\ (i - 1) + 4 <= Len(good)
              /\ good[i - 1] = slave /\ t[i + 1] = good[(i - 1) + 1]
            BY <1>2, <2>1, <2>2, <3>1
        <3> QED BY <1>5, <3>2 DEF InStep, slave
    <2> QED BY <2>2 DEF InStep, slave, t
<1>9. InStep(Front(good), command)
    <2> DEFINE t == Front(good)
               n == Len(good) - 1
    <2>1. /\ Len(t) = n /\ n \in Nat
          /\ \A i \in 1 .. n : t[i] = good[i]
        <3>1. t = SubSeq(good, 1, n) /\ n \in 1 .. 7
            BY <1>2 DEF Front
        <3>2. \A i \in 1 .. n : good[i] \in Byte
            BY <1>2, ElementOfSeq
        <3>3. /\ Len(SubSeq(good, 1, n)) = IF 1 <= n THEN n - 1 + 1 ELSE 0
              /\ \A i \in 1 .. n - 1 + 1 : SubSeq(good, 1, n)[i] = good[1 + i - 1]
            BY <3>1, <3>2, SubSeqProperties
        <3>4. n - 1 + 1 = n /\ 1 <= n /\ n \in Nat
            <4>1. \A m \in 1 .. 7 : m - 1 + 1 = m /\ 1 <= m /\ m \in Nat
                OBVIOUS
            <4> QED BY <3>1, <4>1
        <3>5. \A i \in 1 .. n : 1 + i - 1 = i
            BY <3>4
        <3> HIDE DEF n
        <3>6. Len(SubSeq(good, 1, n)) = n
            BY <3>3, <3>4
        <3>7. \A i \in 1 .. n : SubSeq(good, 1, n)[i] = good[i]
            BY <3>3, <3>4, <3>5
        <3> QED BY <3>1, <3>4, <3>6, <3>7
    <2>2. n \in 1 .. 7
        BY <1>2
    <2> HIDE DEF t, n
    <2>3. ASSUME NEW i \in 1 .. n, t[i] = slave, i + 4 <= n
          PROVE  Expected(command, t[i + 1])
        <3>1. i + 1 \in 1 .. n /\ i \in 1 .. Len(good) /\ i + 4 <= Len(good)
            BY <1>2, <2>2, <2>3 DEF n
        <3> QED BY <1>5, <2>1, <2>3, <3>1 DEF InStep, slave
    <2> QED BY <2>1, <2>3 DEF InStep, slave, t
<1>10. ASSUME NEW k \in {2, 3}
       PROVE  InStep([good EXCEPT ![k] = 0], command)
    <2> DEFINE t == [good EXCEPT ![k] = 0]
    <2>1. /\ Len(t) = Len(good)
          /\ \A i \in 1 .. Len(good) : t[i] = IF i = k THEN 0 ELSE good[i]
        <3>1. k \in 1 .. Len(good)
            <4>1. CASE Len(good) = 7
                BY <4>1
            <4>2. CASE Len(good) = 8
                BY <4>2
            <4> QED BY <1>2, <4>1, <4>2
        <3>2. 0 \in Byte
            BY DEF Byte
        <3> QED BY <1>2, <3>1, <3>2, ExceptSeq
    <2> HIDE DEF t
    <2>2. /\ t[1] = good[1] /\ t[2] \in {0, good[2]} /\ t[3] \in {0, good[3]}
          /\ t[4] = good[4] /\ t[5] = good[5]
        BY <1>2, <2>1
    <2>3. Len(good) \in Nat
        BY <1>2
    <2>4. InStep(t, command)
        BY <1>1, <1>3, <1>4, <2>1, <2>2, <2>3
    <2> QED BY <2>4 DEF t
<1>11. r \in {<<>>, good, Exceptions[command], <<0>> \o good, Front(good)}
              \cup {[good EXCEPT ![i] = 0] : i \in {2, 3}}
    BY DEF Replies, good
<1> QED BY <1>5, <1>6, <1>7, <1>8, <1>9, <1>10, <1>11

-----------------------------------------------------------------------------
(* One byte less on the line.                                              *)
LEMMA OneLess ==
    ASSUME NEW t \in Seq(Byte), t # <<>>
    PROVE  /\ Len(t) \in Nat /\ Len(t) >= 1
           /\ Head(t) = t[1] /\ Head(t) \in Byte
           /\ Tail(t) \in Seq(Byte) /\ Len(Tail(t)) = Len(t) - 1
           /\ \A i \in 1 .. Len(t) - 1 : Tail(t)[i] = t[i + 1]
<1>1. Len(t) \in Nat /\ Len(t) >= 1
    BY LenProperties, EmptySeq
<1>2. /\ Head(t) \in Byte /\ Tail(t) \in Seq(Byte) /\ Len(Tail(t)) = Len(t) - 1
      /\ \A i \in 1 .. Len(Tail(t)) : Tail(t)[i] = t[i + 1]
    BY HeadTailProperties
<1>3. Head(t) = t[1]
    OBVIOUS
<1> QED BY <1>1, <1>2, <1>3

(* What is left of a text has nothing in it that the text had not.         *)
LEMMA InStepLater ==
    ASSUME NEW t \in Seq(Byte), t # <<>>, NEW command, InStep(t, command)
    PROVE  InStep(Tail(t), command)
<1> DEFINE n == Len(t)
           u == Tail(t)
<1>1. /\ n \in Nat /\ n >= 1 /\ Len(u) = n - 1
      /\ \A i \in 1 .. n - 1 : u[i] = t[i + 1]
    BY OneLess
<1>2. \A i \in 1 .. n :
          t[i] = command.slave /\ i + 4 <= n => Expected(command, t[i + 1])
    BY DEF InStep
<1> HIDE DEF n, u
<1>3. ASSUME NEW i \in 1 .. n - 1, u[i] = command.slave, i + 4 <= n - 1
      PROVE  Expected(command, u[i + 1])
    <2>1. i + 1 \in 1 .. n /\ (i + 1) + 4 <= n /\ i + 1 \in 1 .. n - 1
        BY <1>1, <1>3
    <2>2. t[i + 1] = command.slave /\ u[i + 1] = t[(i + 1) + 1]
        BY <1>1, <1>3, <2>1
    <2> QED BY <1>2, <2>1, <2>2
<1>4. InStep(u, command)
    BY <1>1, <1>3 DEF InStep
<1> QED BY <1>4 DEF u

(* While the bytes that are lacking do not become fewer than those that    *)
(* are left, a packet that cannot be completed stays so.                   *)
LEMMA StillLacking ==
    ASSUME NEW d, NEW e, NEW t \in Seq(Byte), t # <<>>, Following(d, t),
           d.state \in Within, e.state \in Within,
           e.command = d.command, e.function = d.function,
           Lacks(d) \in Int, Lacks(e) \in Int, Lacks(e) >= Lacks(d) - 1
    PROVE  Following(e, Tail(t))
<1>1. Len(t) \in Nat /\ Len(Tail(t)) = Len(t) - 1
    BY OneLess
<1>2. Expected(d.command, d.function) \/ Len(t) < Lacks(d)
    BY DEF Following
<1>3. Expected(e.command, e.function) \/ Len(Tail(t)) < Lacks(e)
    BY <1>1, <1>2
<1>4. e.state \notin {"Address", "Function"}
    BY DEF Within
<1> QED BY <1>3, <1>4 DEF Following

(* A byte that is parsed leaves the text behind it as harmless as it was.  *)
LEMMA AcceptFollows ==
    ASSUME NEW d \in Drivers, Parsing(d), Recognized(d),
           d.state # "Idle", d.state # "CrcLsb", d.currentSlave = d.command.slave,
           NEW t \in Seq(Byte), t # <<>>
    PROVE  /\ Recognized(accept(d, Head(t)))
           /\ Following(d, t) => Following(accept(d, Head(t)), Tail(t))
<1> DEFINE byte == Head(t)
           e == accept(d, byte)
           n == Len(t)
           u == Tail(t)
<1>1. /\ n \in Nat /\ n >= 1 /\ byte = t[1] /\ byte \in Byte /\ Len(u) = n - 1
      /\ n - 1 >= 1 => u[1] = t[2]
    <2>1. /\ Len(t) \in Nat /\ Len(t) >= 1
          /\ Head(t) = t[1] /\ Head(t) \in Byte /\ Len(Tail(t)) = Len(t) - 1
          /\ \A i \in 1 .. Len(t) - 1 : Tail(t)[i] = t[i + 1]
        BY OneLess
    <2>2. 1 + 1 = 2
        OBVIOUS
    <2> HIDE DEF n, u
    <2>3. n - 1 >= 1 => 1 \in 1 .. n - 1
        BY <2>1 DEF n
    <2> QED BY <2>1, <2>2, <2>3 DEF n, u
<1>2. d.count \in Byte /\ d.state \in ReadStates
    BY DriverFields
<1>0. \A b \in Byte : b \in Nat
    BY DEF Byte
<1>3. CASE d.state = "Address"
    <2> DEFINE next == IF byte = d.currentSlave THEN "Function" ELSE "Address"
    <2>1. e = [d EXCEPT !.state = next]
        BY <1>3 DEF accept
    <2>2. next \in {"Function", "Address"} /\ (next = "Function" <=> byte = d.command.slave)
        OBVIOUS
    <2> HIDE DEF e, next
    <2>3. e.state = next /\ e.command = d.command
        BY <2>1 DEF Drivers
    <2>4. Recognized(e)
        BY <2>2, <2>3 DEF Recognized, Within
    <2>5. ASSUME Following(d, t) PROVE Following(e, u)
        <3>1. InStep(t, d.command)
            BY <1>3, <2>5 DEF Following
        <3>2. InStep(u, e.command)
            BY <2>3, <3>1, InStepLater
        <3>3. ASSUME next = "Function" PROVE Len(u) < 4 \/ Expected(e.command, u[1])
            <4>1. CASE n >= 5
                <5>1. t[1] = d.command.slave
                    BY <1>1, <2>2, <3>3
                <5>2. 1 \in 1 .. n /\ 1 + 4 <= n /\ 1 + 1 = 2
                    BY <1>1, <4>1
                <5>3. Expected(d.command, t[2])
                    BY <3>1, <5>1, <5>2 DEF InStep
                <5> QED BY <1>1, <2>3, <4>1, <5>3
            <4>2. CASE n < 5
                BY <1>1, <4>2
            <4> QED BY <1>1, <4>1, <4>2
        <3> QED BY <2>2, <2>3, <3>2, <3>3 DEF Following, Within
    <2> QED BY <2>4, <2>5 DEF e
<1>4. CASE d.state = "Function"
    <2> DEFINE next == AfterFunction(byte)
               count == IF IsException(byte) THEN 1 ELSE d.count
    <2>1. e = [d EXCEPT !.function = byte, !.state = next, !.count = count]
        BY <1>4 DEF accept
    <2>2. /\ next = "Data" => IsException(byte)
          /\ next = "ByteCount" => byte \in Functions
          /\ next = "StartAddressMsb" => byte \in Functions
          /\ next \in {"Data", "ByteCount", "StartAddressMsb", "Address"}
        BY DEF AfterFunction, Functions
    <2> HIDE DEF e, next, count
    <2>3. e.state = next /\ e.command = d.command /\ e.function = byte
        BY <2>1 DEF Drivers
    <2>4. Recognized(e)
        BY <2>2, <2>3 DEF Recognized, Within
    <2>5. ASSUME Following(d, t) PROVE Following(e, u)
        <3>1. InStep(t, d.command) /\ (n < 4 \/ Expected(d.command, t[1]))
            BY <1>4, <2>5 DEF Following
        <3>2. InStep(u, e.command)
            BY <2>3, <3>1, InStepLater
        <3>3. ASSUME next = "Data" PROVE Expected(e.command, e.function)
            BY <1>1, <2>2, <2>3, <3>3
               DEF Expected, Functions, WriteSingleRegister, IsException, Byte
        <3>4. ASSUME next = "ByteCount" \/ next = "StartAddressMsb"
              PROVE  Expected(e.command, e.function) \/ Len(u) < Lacks(e)
            <4>1. CASE n < 4
                <5>1. Lacks(e) = 3 \/ Lacks(e) = 6
                    BY <2>3, <3>4 DEF Lacks
                <5> QED BY <1>1, <4>1, <5>1
            <4>2. CASE Expected(d.command, t[1])
                BY <1>1, <2>3, <4>2
            <4> QED BY <3>1, <4>1, <4>2
        <3> QED BY <2>2, <2>3, <3>2, <3>3, <3>4 DEF Following, Within
    <2> QED BY <2>4, <2>5 DEF e
<1>5. ASSUME e.state \in Within, d.state \in Within,
             e.command = d.command, e.function = d.function,
             Lacks(d) \in Int, Lacks(e) \in Int, Lacks(e) >= Lacks(d) - 1
      PROVE  Recognized(e) /\ (Following(d, t) => Following(e, u))
    BY <1>5, StillLacking DEF Recognized
<1>6. CASE d.state = "ByteCount"
    <2> DEFINE next == IF byte = 0 THEN "CrcMsb" ELSE "Data"
               add == byte # 0
    <2>1. e = [d EXCEPT !.count = byte, !.state = next, !.addToCrc = add]
        BY <1>6 DEF accept
    <2>2. next = "CrcMsb" \/ (next = "Data" /\ byte >= 1)
        <3>1. byte = 0 \/ byte >= 1
            <4>1. \A b \in Nat : b = 0 \/ b >= 1
                OBVIOUS
            <4> QED BY <1>0, <1>1, <4>1
        <3> QED BY <3>1
    <2> HIDE DEF e, next, add
    <2>3. /\ e.state = next /\ e.count = byte
          /\ e.command = d.command /\ e.function = d.function
        BY <2>1 DEF Drivers
    <2>4. Lacks(d) = 3
        BY <1>6 DEF Lacks
    <2>5. Lacks(e) \in Int /\ Lacks(e) >= 2
        <3>1. CASE next = "CrcMsb"
            BY <2>3, <3>1 DEF Lacks
        <3>2. CASE next = "Data" /\ byte >= 1
            <4>1. Lacks(e) = byte + 2
                BY <2>3, <3>2 DEF Lacks
            <4>2. \A b \in Nat : b + 2 \in Int /\ b + 2 >= 2
                OBVIOUS
            <4> QED BY <1>0, <1>1, <4>1, <4>2
        <3> QED BY <2>2, <3>1, <3>2
    <2>6. d.state \in Within /\ e.state \in Within
        BY <1>6, <2>2, <2>3 DEF Within
    <2> QED BY <1>5, <2>3, <2>4, <2>5, <2>6 DEF e
<1>7. CASE d.state = "StartAddressMsb"
    <2> DEFINE word == byte * 256
    <2>1. e = [d EXCEPT !.startAddress = word, !.state = "StartAddressLsb"]
        BY <1>7 DEF accept
    <2> HIDE DEF e, word
    <2>2. e.state = "StartAddressLsb" /\ e.command = d.command /\ e.function = d.function
        BY <2>1 DEF Drivers
    <2>3. Lacks(d) = 6 /\ Lacks(e) = 5
        BY <1>7, <2>2 DEF Lacks
    <2>4. d.state \in Within /\ e.state \in Within
        BY <1>7, <2>2 DEF Within
    <2> QED BY <1>5, <2>2, <2>3, <2>4 DEF e
<1>8. CASE d.state = "StartAddressLsb"
    <2> DEFINE word == d.startAddress + byte
    <2>1. e = [d EXCEPT !.startAddress = word, !.count = 2, !.state = "Data"]
        BY <1>8 DEF accept
    <2> HIDE DEF e, word
    <2>2. e.state = "Data" /\ e.count = 2 /\ e.command = d.command /\ e.function = d.function
        BY <2>1 DEF Drivers
    <2>3. Lacks(d) = 5 /\ Lacks(e) = 4
        <3>1. Lacks(e) = e.count + 2
            BY <2>2 DEF Lacks
        <3> QED BY <1>8, <2>2, <3>1 DEF Lacks
    <2>4. d.state \in Within /\ e.state \in Within
        BY <1>8, <2>2 DEF Within
    <2> QED BY <1>5, <2>2, <2>3, <2>4 DEF e
<1>9. CASE d.state = "Data"
    <2> DEFINE data == Append(d.data, byte)
               count == d.count - 1
               next == IF d.count = 1 THEN "CrcMsb" ELSE "Data"
               add == d.count # 1
    <2>1. e = [d EXCEPT !.data = data, !.count = count, !.state = next, !.addToCrc = add]
        BY <1>9 DEF accept
    <2>2. (next = "CrcMsb" /\ d.count = 1) \/ next = "Data"
        OBVIOUS
    <2>3. count = d.count - 1 /\ count \in Int /\ d.count \in Int
        <3>1. d.count \in Nat
            BY <1>0, <1>2
        <3> QED BY <3>1
    <2> HIDE DEF e, data, count, next, add
    <2>4. /\ e.state = next /\ e.count = count
          /\ e.command = d.command /\ e.function = d.function
        BY <2>1 DEF Drivers
    <2>5. Lacks(d) = d.count + 2
        BY <1>9 DEF Lacks
    <2>6. Lacks(e) = d.count + 1
        <3>1. CASE next = "CrcMsb" /\ d.count = 1
            BY <2>4, <3>1 DEF Lacks
        <3>2. CASE next = "Data"
            <4>1. Lacks(e) = count + 2
                BY <2>4, <3>2 DEF Lacks
            <4> QED BY <2>3, <4>1
        <3> QED BY <2>2, <3>1, <3>2
    <2>7. d.state \in Within /\ e.state \in Within
        BY <1>9, <2>2, <2>4 DEF Within
    <2>8. Lacks(d) \in Int /\ Lacks(e) \in Int /\ Lacks(e) >= Lacks(d) - 1
        BY <2>3, <2>5, <2>6
    <2> QED BY <1>5, <2>4, <2>7, <2>8 DEF e
<1>10. CASE d.state = "CrcMsb"
    <2> DEFINE word == byte * 256
    <2>1. e = [d EXCEPT !.crc = word, !.state = "CrcLsb"]
        BY <1>10 DEF accept
    <2> HIDE DEF e, word
    <2>2. e.state = "CrcLsb" /\ e.command = d.command /\ e.function = d.function
        BY <2>1 DEF Drivers
    <2>3. Lacks(d) = 2 /\ Lacks(e) = 1
        BY <1>10, <2>2 DEF Lacks
    <2>4. d.state \in Within /\ e.state \in Within
        BY <1>10, <2>2 DEF Within
    <2> QED BY <1>5, <2>2, <2>3, <2>4 DEF e
<1> QED BY <1>2, <1>3, <1>4, <1>6, <1>7, <1>8, <1>9, <1>10 DEF ReadStates

(* The same of handleByteRead, while the parser is not at its end.         *)
LEMMA ByteFollows ==
    ASSUME NEW d, Settled(d), d.state # "Idle", d.state # "CrcLsb", Recognized(d),
           NEW t \in Seq(Byte), t # <<>>
    PROVE  /\ Recognized(handleByteRead(d, Head(t)))
           /\ Following(d, t) => Following(handleByteRead(d, Head(t)), Tail(t))
<1> DEFINE builder == Append(d.builder, Head(t))
           b == IF d.addToCrc THEN [d EXCEPT !.builder = builder] ELSE d
           e == accept(b, Head(t))
<1>1. /\ d \in Drivers /\ Parsing(d) /\ d.currentSlave = d.command.slave
      /\ Head(t) \in Byte
    BY OneLess DEF Settled, OnBus
<1>2. builder \in Seq(Byte)
    BY <1>1, DriverFields, AppendProperties
<1> HIDE DEF builder
<1>3. /\ b \in Drivers /\ b.state = d.state /\ b.command = d.command
      /\ b.currentSlave = d.currentSlave /\ b.function = d.function
      /\ b.count = d.count /\ Parsing(b)
    <2>1. CASE d.addToCrc
        BY <1>1, <1>2, <2>1, BuilderExtended DEF Parsing, SameRequest
    <2>2. CASE ~d.addToCrc
        BY <1>1, <2>2
    <2> QED BY <2>1, <2>2
<1>4. handleByteRead(d, Head(t)) = e
    BY DEF handleByteRead, builder
<1> HIDE DEF b
<1>5. Lacks(b) = Lacks(d)
    BY <1>3 DEF Lacks
<1>6. Recognized(b) /\ (Following(d, t) => Following(b, t))
    BY <1>3, <1>5 DEF Recognized, Following
<1>7. Recognized(e) /\ (Following(b, t) => Following(e, Tail(t)))
    BY <1>1, <1>3, <1>6, AcceptFollows
<1> QED BY <1>4, <1>6, <1>7

(* A meter's reply to a command that has just been sent, or none.          *)
LEMMA MeterStarts ==
    ASSUME NEW rest, MeterReplies(rest), Settled(driver)',
           driver'.state \in {"Idle", "Address"}
    PROVE  Attending'
<1>1. Recognized(driver')
    BY DEF Recognized, Within
<1>2. CASE driver'.state = "Idle"
    <2>1. Following(driver', line')
        BY <1>2 DEF Following, Within
    <2> QED BY <1>1, <2>1 DEF Attending
<1>3. CASE driver'.state = "Address"
    <2>1. driver'.command \in Commands
        BY <1>3 DEF Settled, OnBus
    <2>2. driver'.command # NoCommand
        BY <2>1, CommandFields
    <2>3. /\ reply' \in Replies(driver'.command)
          /\ line' = rest \o reply'
          /\ alone' = (rest = <<>>)
        BY <2>2 DEF MeterReplies
    <2>4. ASSUME alone' PROVE Following(driver', line')
        <3>1. rest = <<>>
            BY <2>3, <2>4
        <3>2. reply' \in Seq(Byte)
            BY <2>1, <2>3, RepliesAreBytes
        <3>3. line' = reply'
            <4>1. \A s \in Seq(Byte) : <<>> \o s = s
                OBVIOUS
            <4> QED BY <2>3, <3>1, <3>2, <4>1
        <3>4. InStep(line', driver'.command)
            BY <2>1, <2>3, <3>3, RepliesInStep
        <3> QED BY <1>3, <3>4 DEF Following, Within
    <2> QED BY <1>1, <2>4 DEF Attending
<1> QED BY <1>2, <1>3

(* Every step keeps it.                                                    *)
LEMMA StaysAttending ==
    IInv /\ Attending /\ [Next]_vars => Attending'
<1> SUFFICES ASSUME IInv, Attending, [Next]_vars PROVE Attending'
    OBVIOUS
<1>1. Settled(driver) /\ line \in Seq(Byte) /\ OnBus(driver) /\ driver \in Drivers
    BY DEF IInv, LineTyped, Settled, OnBus
<1>2. Settled(driver)'
    BY Preserved DEF IInv
<1>3. ASSUME NEW slave \in Slaves, Ask(slave) PROVE Attending'
    <2>1. PICK command \in CommandsOf(slave) : driver' = submit(driver, command)
        BY <1>3 DEF Ask
    <2>2. command \in Commands
        BY DEF CommandsOf
    <2>3. CASE driver.state = "Idle"
        <3>1. MeterReplies(line)
            BY <1>3, <2>3 DEF Ask
        <3>2. driver' = send(driver, command)
            BY <2>1, <2>3 DEF submit
        <3>3. driver'.state = "Address"
            BY <1>1, <2>2, <2>3, <3>2, SendOccupiesBus
        <3> QED BY <1>2, <3>1, <3>3, MeterStarts
    <2>4. CASE driver.state # "Idle"
        <3> DEFINE pending == Append(driver.pending, command)
        <3>1. driver' = [driver EXCEPT !.pending = pending]
            BY <2>1, <2>4 DEF submit
        <3>2. pending \in Seq(Commands)
            BY <1>1, <2>2, DriverFields, AppendProperties
        <3> HIDE DEF pending
        <3>3. /\ driver'.state = driver.state /\ driver'.command = driver.command
              /\ driver'.function = driver.function /\ driver'.count = driver.count
            BY <1>1, <3>1, <3>2, PendingReplaced
        <3>4. Lacks(driver') = Lacks(driver)
            BY <3>3 DEF Lacks
        <3>5. line' = line /\ alone' = alone
            BY <1>3, <2>4 DEF Ask
        <3>6. Recognized(driver')
            BY <3>3 DEF Attending, Recognized
        <3>7. Following(driver, line) => Following(driver', line')
            BY <3>3, <3>4, <3>5 DEF Following
        <3> QED BY <3>5, <3>6, <3>7 DEF Attending
    <2> QED BY <2>3, <2>4
<1>4. CASE ByteReceived
    <2>1. /\ line # <<>> /\ driver.state # "CrcLsb"
          /\ driver' = handleByteRead(driver, Head(line))
          /\ line' = Tail(line) /\ alone' = alone
        BY <1>4 DEF ByteReceived
    <2>2. CASE driver.state = "Idle"
        <3>1. Head(line) \in Byte
            BY <1>1, <2>1, OneLess
        <3>2. driver'.state = "Idle"
            BY <1>1, <2>1, <2>2, <3>1, ByteParsed DEF SameRequest
        <3> QED BY <3>2 DEF Attending, Recognized, Following, Within
    <2>3. CASE driver.state # "Idle"
        <3>1. Recognized(driver)
            BY DEF Attending
        <3>2. /\ Recognized(driver')
              /\ Following(driver, line) => Following(driver', line')
            BY <1>1, <2>1, <2>3, <3>1, ByteFollows
        <3> QED BY <2>1, <3>2 DEF Attending
    <2> QED BY <2>2, <2>3
<1>5. ASSUME NEW d, OnBus(d), SameRequest(driver, d), driver.state # "Idle",
             NEW asked \in Asked(driver.currentSlave), driver' = finish(d, asked)
      PROVE  driver'.state \in {"Idle", "Address"}
    <2>1. d.state # "Idle"
        BY <1>5 DEF SameRequest
    <2>2. asked # <<>> => Head(asked) \in Commands
        BY <1>5, RequestEnds
    <2> QED BY <1>5, <2>1, <2>2, FinishServesNext
<1>6. CASE PacketReceived
    <2>1. Head(line) \in Byte /\ driver.state = "CrcLsb"
        BY <1>1, <1>6, OneLess DEF PacketReceived
    <2> DEFINE e == handleByteRead(driver, Head(line))
    <2>2. OnBus(e) /\ SameRequest(driver, e)
        BY <1>1, <2>1, ByteParsed
    <2>3. PICK asked \in Asked(driver.currentSlave) : driver' = finish(e, asked)
        BY <1>6 DEF PacketReceived
    <2>4. MeterReplies(Tail(line))
        BY <1>6 DEF PacketReceived
    <2> HIDE DEF e
    <2>5. driver'.state \in {"Idle", "Address"}
        BY <1>5, <2>1, <2>2, <2>3
    <2> QED BY <1>2, <2>4, <2>5, MeterStarts
<1>7. CASE onTimeout
    <2>1. driver.state # "Idle" /\ MeterReplies(line)
        BY <1>7 DEF onTimeout
    <2>2. PICK asked \in Asked(driver.currentSlave) : driver' = finish(driver, asked)
        BY <1>7 DEF onTimeout
    <2>3. SameRequest(driver, driver)
        BY DEF SameRequest
    <2>4. driver'.state \in {"Idle", "Address"}
        BY <1>1, <1>5, <2>1, <2>2, <2>3
    <2> QED BY <1>2, <2>1, <2>4, MeterStarts
<1>8. CASE UNCHANGED vars
    BY <1>8 DEF vars, Attending
<1> QED BY <1>3, <1>4, <1>6, <1>7, <1>8 DEF Next

(* The function of a packet does not change with its last byte.            *)
LEMMA LastByte ==
    ASSUME NEW d \in Drivers, d.state = "CrcLsb", NEW byte \in Byte
    PROVE  handleByteRead(d, byte).function = d.function
<1> DEFINE builder == Append(d.builder, byte)
           b == IF d.addToCrc THEN [d EXCEPT !.builder = builder] ELSE d
<1>1. builder \in Seq(Byte)
    BY DriverFields, AppendProperties
<1> HIDE DEF builder
<1>2. b \in Drivers /\ b.state = "CrcLsb" /\ b.function = d.function
    <2>1. CASE d.addToCrc
        BY <1>1, <2>1, BuilderExtended
    <2>2. CASE ~d.addToCrc
        BY <2>2
    <2> QED BY <2>1, <2>2
<1>3. handleByteRead(d, byte) = accept(b, byte)
    BY DEF handleByteRead, builder
<1> HIDE DEF b
<1> DEFINE word == b.crc + byte
<1>4. accept(b, byte) = [b EXCEPT !.crc = word]
    BY <1>2 DEF accept
<1> HIDE DEF word
<1>5. [b EXCEPT !.crc = word].function = b.function
    BY <1>2 DEF Drivers
<1> QED BY <1>2, <1>3, <1>4, <1>5

(* A command is answered by its own kind of completion, or by an error,    *)
(* when no bytes of another reply are under way: whatever the line does to *)
(* the reply, wherever in it the parser begins, and with any checksum.     *)
THEOREM RepliesMatchCommands == Spec => []ReplyMatchesCommand
<1>1. Init => Attending
    <2> SUFFICES ASSUME Init PROVE Attending
        OBVIOUS
    <2>1. driver.state = "Idle"
        BY DEF Init
    <2> QED BY <2>1 DEF Attending, Recognized, Following, Within
<1>2. IInv /\ Attending => ReplyMatchesCommand
    <2> SUFFICES ASSUME IInv, Attending, Completing, alone
                 PROVE  CASE Completed.kind = "readCompleted" ->
                                driver.command.function = ReadHoldingRegisters
                          [] Completed.kind = "writeCompleted" ->
                                driver.command.function = WriteSingleRegister
                          [] OTHER -> TRUE
        BY DEF ReplyMatchesCommand
    <2>1. driver.state = "CrcLsb" /\ line # <<>>
        BY DEF Completing
    <2>2. driver \in Drivers /\ driver.command \in Commands /\ line \in Seq(Byte)
        BY <2>1 DEF IInv, Settled, OnBus, LineTyped
    <2>3. Head(line) \in Byte /\ Len(line) \in Nat /\ Len(line) >= 1
        BY <2>1, <2>2, OneLess
    <2>4. Lacks(driver) = 1 /\ driver.state \in Within
        BY <2>1 DEF Lacks, Within
    <2>5. Expected(driver.command, driver.function)
        <3>1. ~(Len(line) < Lacks(driver))
            BY <2>3, <2>4
        <3> QED BY <2>4, <3>1 DEF Attending, Following
    <2> DEFINE e == handleByteRead(driver, Head(line))
               valid == e.crc = getValue(e.builder)
    <2>6. e.function = driver.function
        BY <2>1, <2>2, <2>3, LastByte
    <2>7. Completed = Signal(e)
        BY DEF Completed
    <2> HIDE DEF e
    <2>8. driver.command.function \in {3, 6}
        BY <2>2, CommandKinds
    <2>9. CASE ~valid
        <3>1. Completed.kind = "CrcError"
            BY <2>7, <2>9 DEF Signal
        <3> QED BY <3>1
    <2>10. CASE valid /\ IsException(driver.function)
        <3>1. e.function \notin {3, 4, 6}
            BY <2>6, <2>10 DEF IsException
        <3>2. Completed.kind = "Exception"
            BY <2>6, <2>7, <2>10, <3>1 DEF Signal, WriteSingleRegister
        <3> QED BY <3>2
    <2>11. CASE valid /\ driver.function \in {3, 4}
        <3>1. e.function \in {3, 4} /\ ~IsException(e.function) /\ e.function # 6
            BY <2>6, <2>11 DEF IsException
        <3>2. Completed.kind = "readCompleted"
            BY <2>7, <2>11, <3>1 DEF Signal, WriteSingleRegister
        <3>3. driver.command.function = 3
            BY <2>5, <2>8, <2>11 DEF Expected, Functions, WriteSingleRegister
        <3> QED BY <3>2, <3>3 DEF ReadHoldingRegisters
    <2>12. CASE valid /\ driver.function = 6
        <3>1. e.function = 6 /\ ~IsException(e.function) /\ e.function \notin {3, 4}
            BY <2>6, <2>12 DEF IsException
        <3>2. Completed.kind = "writeCompleted"
            BY <2>7, <2>12, <3>1 DEF Signal, WriteSingleRegister
        <3>3. driver.command.function = 6
            BY <2>5, <2>12 DEF Expected, Functions, WriteSingleRegister
        <3> QED BY <3>2, <3>3 DEF WriteSingleRegister
    <2> QED BY <2>4, <2>9, <2>10, <2>11, <2>12
            DEF Attending, Recognized, Functions, WriteSingleRegister
<1> QED BY <1>1, <1>2, StaysAttending, Invariant, PTL DEF Spec
=============================================================================
