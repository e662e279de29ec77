---------------------------- MODULE CommandTables ----------------------------
(***************************************************************************)
(* The static data of AcSensorUpdater: which meters exist, which protocol  *)
(* they speak, and the tables of CompositeCommands that are read while     *)
(* measuring (ac_sensor_updater.cpp, ac_sensor.cpp).                       *)
(*                                                                         *)
(* A command reads `count` consecutive registers starting at `reg`.  It is *)
(* due in an acquisition round r when its interval is 0 (every round) or   *)
(* when its interval equals r.  `actions` says what the registers mean: a  *)
(* set of <<offset, quantity, phase>>, phase 0 being the total.            *)
(***************************************************************************)
EXTENDS Integers, Sequences

Protocols == {"Em24", "Et112", "Et340", "Em540", "Em300S27", "Em300", "Unknown"}

(* The protocol of a device type, as reported in register 0x000B.  The    *)
(* tests are tried in this order: 338 lies in the range of the ET340.     *)
ProtocolOf(deviceType) ==
    CASE deviceType \in 71..73                       -> "Em24"
      [] deviceType \in 102..121                     -> "Et112"
      [] deviceType \in {338, 348}                   -> "Em300S27"
      [] deviceType \in (330..345) \ {338}           -> "Et340"
      [] deviceType \in (1744..1763) \cup {2096, 1956} -> "Em540"
      [] OTHER                                       -> "Unknown"

SupportFastloop(protocol)   == protocol = "Em540"
SupportMultiphase(protocol) == protocol # "Et112"

-----------------------------------------------------------------------------
(* Shorthands for the action lists: one quantity on one phase (0 = total), *)
(* on L1..L2, or on L1..L3; values are 2 registers wide.                    *)
Command(reg, count, interval, actions) ==
    [reg |-> reg, count |-> count, interval |-> interval, actions |-> actions]

On(offset, quantity, phase) == {<<offset, quantity, phase>>}
Total(offset, quantity) == On(offset, quantity, 0)
L12(offset, quantity)   == On(offset, quantity, 1) \cup On(offset + 2, quantity, 2)
L123(offset, quantity)  == L12(offset, quantity) \cup On(offset + 4, quantity, 3)

(* The tables, by the name of the array without its suffix `Commands`.     *)
Em24Commands == <<
    Command(\h0028,  2, 0, Total(0, "Power")),
    Command(\h0012,  6, 0, L123(0, "Power")),
    Command(\h0000,  6, 2, L123(0, "Voltage")),
    Command(\h000C,  6, 3, L123(0, "Current")),
    Command(\h003E, 10, 4, Total(0, "PositiveEnergy")),
    Command(\h0046,  8, 5, L123(0, "PositiveEnergy")),
    Command(\h005C,  4, 6, Total(0, "NegativeEnergy")),
    Command(\h0037,  3, 7, Total(0, "Frequency")) >>

Em24CommandsP1 == <<
    Command(\h0028, 2, 0, Total(0, "Power")),
    Command(\h0024, 5, 1, Total(0, "Voltage")),
    Command(\h000C, 4, 2, Total(0, "Current")),
    Command(\h003E, 7, 3, Total(0, "PositiveEnergy")),
    Command(\h005C, 6, 4, Total(0, "NegativeEnergy")),
    Command(\h0037, 3, 5, Total(0, "Frequency")) >>

Em24CommandsP1PV == <<
    Command(\h0012,  6, 0, L12(0, "Power")),
    Command(\h0000,  5, 1, L12(0, "Voltage")),
    Command(\h000C, 10, 2, L12(0, "Current")),
    Command(\h0046,  8, 3, L12(0, "PositiveEnergy")),
    Command(\h005C,  4, 4, On(0, "NegativeEnergy", 1)) >>

Em112Commands == <<
    Command(\h0004, 4, 0, Total(0, "Power")),
    Command(\h0000, 6, 1, Total(0, "Voltage") \cup Total(2, "Current")),
    Command(\h000F, 3, 2, Total(0, "Frequency") \cup Total(1, "PositiveEnergy")),
    Command(\h0020, 2, 3, Total(0, "NegativeEnergy")) >>

Et340Commands == <<
    Command(\h0028,  2, 0, Total(0, "Power")),
    Command(\h0012, 12, 0, L123(0, "Power")),
    Command(\h0000, 18, 1, L123(0, "Voltage") \cup L123(12, "Current")),
    Command(\h0033,  3, 2, Total(0, "Frequency") \cup Total(1, "PositiveEnergy")),
    Command(\h0040, 16, 3, L123(0, "PositiveEnergy") \cup Total(14, "NegativeEnergy")),
    Command(\h0060,  8, 4, L123(0, "NegativeEnergy")) >>

Et340P1Commands == <<
    Command(\h0012,  2, 0, Total(0, "Power")),
    Command(\h0000, 14, 1, Total(0, "Voltage") \cup Total(12, "Current")),
    Command(\h0033, 15, 2, Total(0, "Frequency") \cup Total(13, "PositiveEnergy")),
    Command(\h0060,  4, 3, Total(0, "NegativeEnergy")) >>

Et340CommandsP1PV == <<
    Command(\h0012,  4, 0, L12(0, "Power")),
    Command(\h0000, 16, 1, L12(0, "Voltage") \cup L12(12, "Current")),
    Command(\h0040,  8, 2, L12(0, "PositiveEnergy")),
    Command(\h0060,  6, 3, L12(0, "NegativeEnergy")) >>

Em300Commands == <<
    Command(\h0028,  2, 0, Total(0, "Power")),
    Command(\h0012,  6, 0, L123(0, "Power")),
    Command(\h0000, 18, 1, L123(0, "Voltage") \cup L123(12, "Current")),
    Command(\h0033,  3, 2, Total(0, "Frequency") \cup Total(1, "PositiveEnergy")),
    Command(\h0040, 16, 3, L123(0, "PositiveEnergy") \cup Total(14, "NegativeEnergy")) >>

Em300P1Commands == <<
    Command(\h0012,  2, 0, Total(0, "Power")),
    Command(\h0000, 14, 1, Total(0, "Voltage") \cup Total(12, "Current")),
    Command(\h0033, 15, 2, Total(0, "Frequency") \cup Total(13, "PositiveEnergy")),
    Command(\h004E,  4, 3, Total(0, "NegativeEnergy")) >>

Em300CommandsP1PV == <<
    Command(\h0012,  6, 0, L12(0, "Power")),
    Command(\h0000, 18, 1, L12(0, "Voltage") \cup L12(12, "Current")),
    Command(\h0040, 16, 2, L12(0, "PositiveEnergy") \cup On(14, "NegativeEnergy", 1)) >>

(* A power factor is a single register, so L1..L3 and the total follow     *)
(* each other.                                                             *)
Em540Commands == <<
    Command(\h0028, 11, 0, Total(0, "Power") \cup On(6, "PowerFactor", 1)
        \cup On(7, "PowerFactor", 2) \cup On(8, "PowerFactor", 3) \cup Total(9, "PowerFactor")),
    Command(\h0012,  6, 0, L123(0, "Power")),
    Command(\h0000, 18, 1, L123(0, "Voltage") \cup L123(12, "Current")),
    Command(\h0034,  4, 2, Total(0, "PositiveEnergy")),
    Command(\h0040, 16, 3, L123(0, "PositiveEnergy") \cup Total(14, "NegativeEnergy")),
    Command(\h053C,  2, 4, Total(0, "Frequency")) >>

Em540P1Commands == <<
    Command(\h0012,  4, 0, Total(0, "Power")),
    Command(\h0000, 14, 1, Total(0, "Voltage") \cup Total(12, "Current")),
    Command(\h0040, 16, 2, Total(0, "PositiveEnergy") \cup Total(14, "NegativeEnergy")),
    Command(\h053C,  2, 3, Total(0, "Frequency")),
    Command(\h002E,  6, 4, Total(0, "PowerFactor")) >>

Em540CommandsP1PV == <<
    Command(\h0012,  4, 0, L12(0, "Power")),
    Command(\h0000, 16, 1, L12(0, "Voltage") \cup L12(12, "Current")),
    Command(\h0040, 18, 2, L12(0, "PositiveEnergy") \cup On(14, "NegativeEnergy", 1)),
    Command(\h002E,  3, 4, On(0, "PowerFactor", 1) \cup On(1, "PowerFactor", 2)) >>

Em300S27P1Commands == <<
    Command(\h0028,  2, 0, Total(0, "Power")),
    Command(\h0000, 14, 1, Total(0, "Voltage") \cup Total(12, "Current")),
    Command(\h0037,  9, 2, Total(0, "Frequency") \cup Total(7, "PositiveEnergy")),
    Command(\h005C,  4, 3, Total(0, "NegativeEnergy")) >>

Tables == [
    Em24     |-> Em24Commands,  Em24P1  |-> Em24CommandsP1,  Em24P1PV  |-> Em24CommandsP1PV,
    Em112    |-> Em112Commands,
    Et340    |-> Et340Commands, Et340P1 |-> Et340P1Commands, Et340P1PV |-> Et340CommandsP1PV,
    Em300    |-> Em300Commands, Em300P1 |-> Em300P1Commands, Em300P1PV |-> Em300CommandsP1PV,
    Em540    |-> Em540Commands, Em540P1 |-> Em540P1Commands, Em540P1PV |-> Em540CommandsP1PV,
    Em300S27P1 |-> Em300S27P1Commands]

TableNames == DOMAIN Tables

-----------------------------------------------------------------------------
(* The measuring mode that the settings ask for: all phases, one phase, or *)
(* one phase with a PV inverter on L2 ("piggy").                           *)
Modes == {"multi", "single", "piggy"}

(* The table startNextAction selects on entering Acquisition.              *)
TableOf(protocol, mode) ==
    CASE protocol \in {"Em24", "Em300S27"} /\ mode = "multi" -> "Em24"
      [] protocol \in {"Em24", "Em300S27"} /\ mode = "piggy" -> "Em24P1PV"
      [] protocol = "Em24"     /\ mode = "single" -> "Em24P1"
      [] protocol = "Em300S27" /\ mode = "single" -> "Em300S27P1"
      [] protocol = "Et112"                       -> "Em112"
      [] protocol = "Et340" /\ mode = "multi"     -> "Et340"
      [] protocol = "Et340" /\ mode = "piggy"     -> "Et340P1PV"
      [] protocol = "Et340" /\ mode = "single"    -> "Et340P1"
      [] protocol = "Em300" /\ mode = "multi"     -> "Em300"
      [] protocol = "Em300" /\ mode = "piggy"     -> "Em300P1PV"
      [] protocol = "Em300" /\ mode = "single"    -> "Em300P1"
      [] protocol = "Em540" /\ mode = "multi"     -> "Em540"
      [] protocol = "Em540" /\ mode = "piggy"     -> "Em540P1PV"
      [] protocol = "Em540" /\ mode = "single"    -> "Em540P1"

(* Command i of a table; the code counts from 0.                           *)
(* Mutants: a total energy is read together with the registers around it,  *)
(* as the powers are; the last value of a command is left out.             *)
CommandAtWider(table, i) ==
    LET command == Tables[table][i + 1]
    IN  IF command.count = 4 THEN [command EXCEPT !.count = 6] ELSE command
CommandAtShorter(table, i) ==
    LET command == Tables[table][i + 1]
    IN  IF command.count = 15 THEN [command EXCEPT !.count = 14] ELSE command
CommandAt(table, i) == Tables[table][i + 1]

(* getMaxInterval: the interval of the last command.                       *)
MaxInterval(table) == Tables[table][Len(Tables[table])].interval

(* The commands at or after index i that are due in a round.               *)
DueCommands(table, i, round) ==
    {k \in i..(Len(Tables[table]) - 1) : CommandAt(table, k).interval \in {0, round}}

IsEnergy(command) ==
    \E action \in command.actions : action[2] \in {"PositiveEnergy", "NegativeEnergy"}

=============================================================================
