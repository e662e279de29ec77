---------------------------- MODULE MCModbusRtu ----------------------------
(***************************************************************************)
(* Two meters on a bus, with the checksum of the program.                  *)
(***************************************************************************)
EXTENDS ModbusRtu, Bitwise

Checksum == INSTANCE Crc16

TwoMeters == {1, 2}
Command(function, slave, value) ==
    [function |-> function, slave |-> slave, reg |-> 0, value |-> value]
ReadsAndAWrite ==
    {Command(ReadHoldingRegisters, 1, 1), Command(ReadHoldingRegisters, 2, 1),
     Command(WriteSingleRegister, 1, ReadHoldingRegisters)}

RealReset == Checksum!getValue(Checksum!ResetValue)
RealAdd(crc, byte) ==
    Checksum!getValue(Checksum!add([hi |-> crc \div 256, lo |-> crc % 256], byte))

(* The tables (512 typed entries) are reached by all pairs of bytes.       *)
TablesAgree == Checksum!TwoBytesAgree

(* The table-driven checksum is that of the Modbus standard, first byte    *)
(* first, so that meters accept what the program sends, and the other way  *)
(* round: for every sequence of two bytes, and for what has been fed to it *)
(* whenever a reply is about to be complete.                               *)
IsModbusCrc ==
    /\ TablesAgree
    /\ driver.state = "CrcLsb" =>
          getValue(driver.builder) = Checksum!Remainder(driver.builder)
=============================================================================
