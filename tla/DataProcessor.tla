--------------------------- MODULE DataProcessor ---------------------------
(***************************************************************************)
(* The reverse energy of each phase (data_processor.cpp), for the meters   *)
(* that count it for all phases together: the EM24, EM540 and EM300.  Each *)
(* rise of the counter is divided among the phases in proportion to the    *)
(* power that has flowed back through them since the one before.  The      *)
(* estimates are saved in the settings every ten minutes and taken up      *)
(* again when the meter is found again, or measured in another way.        *)
(*                                                                         *)
(* A register that reads 0x7FFFFFFF has no value (getDouble,               *)
(* ac_sensor_updater.cpp:1012); a counter without one makes the estimates  *)
(* start anew.                                                             *)
(*                                                                         *)
(* An action is a handler of AcSensorUpdater, with the startNextAction it  *)
(* ends with.  Energies and powers are integers; the counter is read when  *)
(* its rise is a multiple of the accumulated power, so that the code's     *)
(* quotient is one too.                                                    *)
(***************************************************************************)
EXTENDS Integers

CONSTANTS
    Powers,         \* the powers of a phase, negative when it feeds back
    MaxEnergy,      \* bound: no counter or estimate passes it
    MaxNegative     \* bound: no power is read when more has been accumulated

Multiphase == 0
PhaseL1 == 1
Phases == 1 .. 3
Channels == {Multiphase} \cup Phases

(* Energies are not negative (qAbs at ac_sensor_updater.cpp:972).          *)
NaN == -1
Energy == Nat \cup {NaN}
qIsFinite(e) == e # NaN

ASSUME DataAssumption ==
    /\ Powers \subseteq Int
    /\ MaxEnergy \in Nat
    /\ MaxNegative \in Nat

VARIABLES
    phaseCount,         \* AcSensorSettings::phaseCount(), 0 if there are no settings
    setupRequested,     \* mSetupRequested of the updater
    processor,          \* the DataProcessor: mNegativePower, mStoreReverseEnergy
    energy,             \* energyReverse of the four AcSensorPhases
    measured,           \* the phases whose power has a value
    stored,             \* l1ReverseEnergy .. l3ReverseEnergy in the settings
    fed                 \* history: power fed back since the counter was last taken in

vars == <<phaseCount, setupRequested, processor, energy, measured, stored, fed>>

Nothing == [c \in Channels |-> 0]
Unknown == [c \in Channels |-> NaN]
NewProcessor == [negative |-> Nothing, storing |-> FALSE]

isMultiphase == phaseCount > 1
Connected == 1 .. phaseCount
Measuring == phaseCount > 0

-----------------------------------------------------------------------------
(* setPower, for the channels whose power a reply says.  A comparison with *)
(* no value is false, so that it adds nothing.                             *)
(* Mutant: what is consumed counts against what is fed back.               *)
NegativeNet(value) == -value

Negative(value) == IF value < 0 THEN -value ELSE 0

setPowers(negative, power) ==
    [c \in Channels |->
        IF c \in DOMAIN power THEN negative[c] + Negative(power[c]) ELSE negative[c]]

(* Sums and quotients without a value have none.                           *)
Plus(e, rise) == IF qIsFinite(e) THEN e + rise ELSE NaN
Part(sum, n)  == IF qIsFinite(sum) THEN sum \div n ELSE NaN

hasL3 == phaseCount >= 3

(* setInitialEnergy.                                                       *)
(* Mutant: what has been saved is not taken up.                            *)
DefaultEnergy(phase, default) == default

InitialEnergy(phase, default) == IF stored[phase] = 0 THEN default ELSE stored[phase]

(* setNegativeEnergy(sum), while L1 has no estimate.                       *)
initialize(sum) ==
    LET n == IF hasL3 THEN 3 ELSE 2
    IN  [c \in Channels |->
            CASE c = Multiphase  -> sum
              [] c \in 1 .. n    -> InitialEnergy(c, Part(sum, n))
              [] OTHER           -> energy[c]]

(* The same when it has: "delta <= 0" is false when the reading or the one *)
(* before has no value, and the quotient then has none, nor when nothing   *)
(* has been accumulated.                                                   *)
BothFinite(sum) == qIsFinite(sum) /\ qIsFinite(energy[Multiphase])
NotMore(sum)    == BothFinite(sum) /\ sum <= energy[Multiphase]
Rises(sum)      == BothFinite(sum) /\ sum > energy[Multiphase]

share(sum) ==
    [c \in Channels |->
        IF Rises(sum) /\ processor.negative[Multiphase] # 0
        THEN ((sum - energy[Multiphase]) \div processor.negative[Multiphase])
                * processor.negative[c]
        ELSE 0]

divide(sum) ==
    LET n == IF hasL3 THEN 3 ELSE 2
    IN  [c \in Channels |->
            CASE c = Multiphase -> sum
              [] c \in 1 .. n   -> Plus(energy[c], share(sum)[c])
              [] OTHER          -> energy[c]]

(* setNegativeEnergy(sum) as a whole.                                      *)
(* Mutant: the power from before the first reading remains.                *)
estimateKeepsPower(sum) ==
    LET storing == [processor EXCEPT !.storing = TRUE]
        cleared == [negative |-> Nothing, storing |-> TRUE]
    IN  CASE ~qIsFinite(energy[PhaseL1]) ->
                [energy |-> initialize(sum), processor |-> storing]
          [] qIsFinite(energy[PhaseL1]) /\ NotMore(sum) ->
                [energy |-> energy, processor |-> storing]
          [] OTHER ->
                [energy |-> divide(sum), processor |-> cleared]

estimate(sum) ==
    LET storing == [processor EXCEPT !.storing = TRUE]
        cleared == [negative |-> Nothing, storing |-> TRUE]
    IN  CASE ~qIsFinite(energy[PhaseL1]) ->
                [energy |-> initialize(sum), processor |-> cleared]
          [] qIsFinite(energy[PhaseL1]) /\ NotMore(sum) ->
                [energy |-> energy, processor |-> storing]
          [] OTHER ->
                [energy |-> divide(sum), processor |-> cleared]

(* setNegativeEnergy(phase, value), for the total and L1, when one phase   *)
(* is measured.                                                            *)
copy(value) ==
    [energy |-> [energy EXCEPT ![Multiphase] = value, ![PhaseL1] = value],
     processor |-> processor]

(* The beginning of startNextAction: resetValues if a setup is requested.  *)
(* Mutant: the values of before are kept.                                  *)
resetNothing(values, unknown) == values

resetValues(values, unknown) == IF setupRequested THEN unknown ELSE values

(* Only then does the power that is fed back count in a rise.              *)
Estimating == isMultiphase /\ ~setupRequested /\ qIsFinite(energy[PhaseL1])

startNextAction(energies, powers) ==
    /\ energy' = resetValues(energies, Unknown)
    /\ measured' = resetValues(powers, {})
    /\ setupRequested' = FALSE

-----------------------------------------------------------------------------
(* AcSensor's constructor calls resetValues.                               *)
Init ==
    /\ phaseCount = 0
    /\ setupRequested = FALSE
    /\ processor = NewProcessor
    /\ energy = Unknown
    /\ measured = {}
    /\ stored = [p \in Phases |-> 0]
    /\ fed = Nothing

(* The meter is detected and its settings arrive: among them the role of   *)
(* L2, which is new to them, so that a setup is requested.                 *)
StartMeasurements ==
    /\ ~Measuring
    /\ phaseCount' \in 1 .. 3
    /\ setupRequested' = TRUE
    /\ processor' = NewProcessor
    /\ UNCHANGED <<energy, measured, stored, fed>>

(* A reply with the powers of some channels; power has those with a value. *)
PowersRead(channels, power) ==
    /\ Measuring
    /\ \A c \in channels : processor.negative[c] <= MaxNegative
    /\ processor' = [processor EXCEPT !.negative = setPowers(@, power)]
    /\ fed' = IF Estimating THEN setPowers(fed, power) ELSE Nothing
    /\ startNextAction(energy, (measured \ channels) \cup (Phases \cap DOMAIN power))
    /\ UNCHANGED <<phaseCount, stored>>

(* The power of all phases, which the meter computes; with one phase it is *)
(* that of L1, too.                                                        *)
TotalRead ==
    LET channels == IF isMultiphase THEN {Multiphase} ELSE {Multiphase, PhaseL1}
    IN  \E valid \in {{}, channels}, p \in Powers :
            PowersRead(channels, [c \in valid |-> p])

(* Those of the phases come in a reply of their own, later or earlier.     *)
PhasesRead ==
    /\ isMultiphase
    /\ \E valid \in SUBSET Connected : \E power \in [valid -> Powers] :
            PowersRead(Connected, power)

(* A reply with the counter.  It may be less than before: installers reset *)
(* counters.                                                               *)
Divisible(sum) ==
    Rises(sum) /\ processor.negative[Multiphase] > 0 =>
        (sum - energy[Multiphase]) % processor.negative[Multiphase] = 0

EnergyRead(sum) ==
    /\ Measuring
    /\ Divisible(sum)
    /\ LET read == IF isMultiphase THEN estimate(sum) ELSE copy(sum)
       IN  /\ \A c \in Channels : read.energy[c] <= MaxEnergy
           /\ processor' = read.processor
           /\ startNextAction(read.energy, measured)
    /\ fed' = IF Estimating /\ NotMore(sum) THEN fed ELSE Nothing
    /\ UNCHANGED <<phaseCount, stored>>

(* Any other event that ends in startNextAction.                           *)
OtherEvent ==
    /\ Measuring
    /\ setupRequested
    /\ startNextAction(energy, measured)
    /\ fed' = Nothing
    /\ UNCHANGED <<phaseCount, processor, stored>>

onPhaseCountChanged ==
    /\ Measuring
    /\ phaseCount' \in (1 .. 3) \ {phaseCount}
    /\ setupRequested' = TRUE
    /\ UNCHANGED <<processor, energy, measured, stored, fed>>

(* updateEnergySettings, every ten minutes.                                *)
updateEnergySettings == [p \in Phases |-> IF qIsFinite(energy[p]) THEN energy[p] ELSE stored[p]]

onUpdateSettings ==
    /\ Measuring
    /\ processor.storing
    /\ stored' = updateEnergySettings
    /\ UNCHANGED <<phaseCount, setupRequested, processor, energy, measured, fed>>

(* disconnectSensor; the end of the process comes to the same.             *)
disconnectSensor ==
    /\ Measuring
    /\ phaseCount' = 0
    /\ processor' = NewProcessor
    /\ energy' = Unknown
    /\ measured' = {}
    /\ fed' = Nothing
    /\ UNCHANGED <<setupRequested, stored>>

Next ==
    \/ StartMeasurements
    \/ TotalRead
    \/ PhasesRead
    \/ \E sum \in {NaN} \cup 0 .. MaxEnergy : EnergyRead(sum)
    \/ OtherEvent
    \/ onPhaseCountChanged
    \/ onUpdateSettings
    \/ disconnectSensor

Spec == Init /\ [][Next]_vars

-----------------------------------------------------------------------------
TypeOK ==
    /\ phaseCount \in 0 .. 3
    /\ setupRequested \in BOOLEAN
    /\ processor \in [negative : [Channels -> Nat], storing : BOOLEAN]
    /\ energy \in [Channels -> Energy]
    /\ measured \subseteq Phases
    /\ stored \in [Phases -> Nat]
    /\ fed \in [Channels -> Nat]

(* "dbus-cgwacs estimates the per-phase reverse energy by using the        *)
(* proportion of negative reverse power of each phase" (README.md:34):     *)
(* while several phases are measured and no setup is due, a reading of the *)
(* counter that has risen gives each estimate the part of the rise that    *)
(* the power its phase has fed back has in that of all phases together,    *)
(* both *since the counter was last taken in*; power from before a setup,  *)
(* or from before a reading without a value, does not count.  No other     *)
(* step changes an estimate, and none loses its value.                     *)
InProportion ==
    LET rise(c) == energy'[c] - energy[c]
        divided == /\ qIsFinite(energy[Multiphase])
                   /\ qIsFinite(energy'[Multiphase])
                   /\ fed[Multiphase] # 0
    IN  \A p \in Connected :
            IF divided /\ qIsFinite(energy[p])
            THEN /\ qIsFinite(energy'[p])
                 /\ rise(p) * fed[Multiphase] = rise(Multiphase) * fed[p]
            ELSE energy'[p] = energy[p]
EstimatedInProportion ==
    [][ isMultiphase /\ qIsFinite(energy[PhaseL1]) /\ ~setupRequested
            /\ phaseCount' = phaseCount
        => InProportion ]_vars

(* What has been saved is not lost (setInitialEnergy and                   *)
(* updateEnergySettings, data_processor.cpp:94-119): while several phases  *)
(* are measured and no setup is due, no estimate is below its saved value, *)
(* and saving never makes one less, whatever losses of the connection,     *)
(* restarts and changes of the number of phases have come in between.      *)
EstimatesIncludeSaved ==
    isMultiphase /\ ~setupRequested =>
        \A p \in Connected : qIsFinite(energy[p]) => energy[p] >= stored[p]
SavedEnergyKept ==
    [][ /\ EstimatesIncludeSaved
        /\ isMultiphase /\ ~setupRequested =>
              \A p \in Phases : stored'[p] >= stored[p] ]_vars

(* "Phases above the phase count are not connected (eg. L3 in a split      *)
(* phase system), leave them invalid." (ac_sensor_updater.cpp:930): they   *)
(* have neither a power nor an energy, also when they were connected until *)
(* the last change of the settings.                                        *)
UnconnectedInvalid ==
    Measuring /\ ~setupRequested =>
        \A p \in Phases \ Connected : ~qIsFinite(energy[p]) /\ p \notin measured
=============================================================================
