------------------------ MODULE DataProcessorProofs ------------------------
(***************************************************************************)
(* Theorems about the estimated reverse energies, for all sets of powers   *)
(* and all bounds.                                                         *)
(***************************************************************************)
EXTENDS DataProcessor, TLAPS

-----------------------------------------------------------------------------
(* Arithmetic.                                                             *)
LEMMA NatProduct ==
    ASSUME NEW a \in Nat, NEW b \in Nat
    PROVE  a * b \in Nat
OBVIOUS

LEMMA NatQuotient ==
    ASSUME NEW a \in Nat, NEW n \in Nat, n > 0
    PROVE  /\ a \div n \in Nat
           /\ a % n = 0 => (a \div n) * n = a
OBVIOUS

LEMMA Proportional ==
    ASSUME NEW q \in Nat, NEW n \in Nat, NEW x \in Nat
    PROVE  (q * x) * n = (q * n) * x
OBVIOUS

-----------------------------------------------------------------------------
(* The strengthening of the properties: while several phases are measured, *)
(* no setup is due and L1 has an estimate, the history of what has been fed*)
(* back is what the code has accumulated: powers from before the reading   *)
(* that gave L1 its estimate are in neither.                               *)
Accumulated == Estimating => fed = processor.negative

Inv ==
    /\ TypeOK
    /\ UnconnectedInvalid
    /\ EstimatesIncludeSaved
    /\ Accumulated

USE DEF Multiphase, PhaseL1, Phases, Channels, NaN, Energy, qIsFinite

-----------------------------------------------------------------------------
(* The operators of the code.                                              *)
LEMMA PowersTyped ==
    ASSUME NEW negative \in [Channels -> Nat], NEW power,
           \A c \in Channels \cap DOMAIN power : power[c] \in Int
    PROVE  setPowers(negative, power) \in [Channels -> Nat]
BY DEF setPowers, Negative

LEMMA InitialTyped ==
    ASSUME stored \in [Phases -> Nat], NEW p \in Phases, NEW default \in Energy
    PROVE  /\ InitialEnergy(p, default) \in Energy
           /\ qIsFinite(InitialEnergy(p, default)) => InitialEnergy(p, default) >= stored[p]
BY DEF InitialEnergy

(* The number of phases that the code takes for connected is that of the   *)
(* settings.                                                               *)
LEMMA PhasesCounted ==
    ASSUME TypeOK, isMultiphase
    PROVE  /\ (IF hasL3 THEN 3 ELSE 2) = phaseCount
           /\ phaseCount \in {2, 3}
           /\ Connected = 1 .. phaseCount /\ Connected \subseteq Phases
BY DEF TypeOK, isMultiphase, hasL3, Connected

(* No first estimate is below what has been saved.                         *)
LEMMA InitializeEstimates ==
    ASSUME TypeOK, isMultiphase, NEW sum \in Energy
    PROVE  /\ initialize(sum) \in [Channels -> Energy]
           /\ \A p \in Connected : qIsFinite(initialize(sum)[p]) => initialize(sum)[p] >= stored[p]
           /\ \A p \in Phases \ Connected : initialize(sum)[p] = energy[p]
<1> DEFINE n == IF hasL3 THEN 3 ELSE 2
           default == Part(sum, n)
<1>1. n \in {2, 3} /\ Connected = 1 .. n /\ Connected \subseteq Phases
  BY PhasesCounted
<1>2. initialize(sum) = [c \in Channels |->
            CASE c = Multiphase  -> sum
              [] c \in 1 .. n    -> InitialEnergy(c, default)
              [] OTHER           -> energy[c]]
  BY DEF initialize
<1> HIDE DEF n
<1>3. default \in Energy
  BY <1>1, NatQuotient DEF Part
<1> HIDE DEF default
<1>4. ASSUME NEW p \in Phases
      PROVE  /\ InitialEnergy(p, default) \in Energy
             /\ qIsFinite(InitialEnergy(p, default)) => InitialEnergy(p, default) >= stored[p]
  BY <1>3, InitialTyped DEF TypeOK
<1>5. initialize(sum)[Multiphase] = sum
  BY <1>2
<1>6. ASSUME NEW p \in Phases
      PROVE  initialize(sum)[p] = IF p \in 1 .. n THEN InitialEnergy(p, default) ELSE energy[p]
  BY <1>2
<1>7. energy \in [Channels -> Energy]
  BY DEF TypeOK
<1>8. \A c \in Channels : initialize(sum)[c] \in Energy
  BY <1>4, <1>5, <1>6, <1>7
<1> QED
  BY <1>1, <1>2, <1>4, <1>6, <1>8

(* What a rise of the counter adds to a phase is not negative, and in      *)
(* proportion to its power.                                                *)
LEMMA ShareTyped ==
    ASSUME TypeOK, NEW sum \in Energy, NEW c \in Channels
    PROVE  /\ share(sum)[c] \in Nat
           /\ ~Rises(sum) \/ processor.negative[Multiphase] = 0 => share(sum)[c] = 0
           /\ Divisible(sum) /\ Rises(sum) /\ processor.negative[Multiphase] # 0
                => share(sum)[c] * processor.negative[Multiphase]
                        = (sum - energy[Multiphase]) * processor.negative[c]
<1> DEFINE n == processor.negative[Multiphase]
           x == processor.negative[c]
           delta == sum - energy[Multiphase]
<1>1. n \in Nat /\ x \in Nat /\ energy[Multiphase] \in Energy
  BY DEF TypeOK
<1>2. share(sum)[c] = IF Rises(sum) /\ n # 0 THEN (delta \div n) * x ELSE 0
  BY DEF share
<1>3. Rises(sum) => delta \in Nat
  BY <1>1 DEF Rises, BothFinite
<1>4. Divisible(sum) /\ Rises(sum) /\ n > 0 => delta % n = 0
  BY DEF Divisible
<1> HIDE DEF n, x, delta
<1>5. CASE ~Rises(sum) \/ n = 0
  BY <1>2, <1>5 DEF n
<1>6. CASE Rises(sum) /\ n # 0
  <2>1. n > 0 /\ delta \in Nat
    BY <1>1, <1>3, <1>6
  <2>2. delta \div n \in Nat /\ (delta % n = 0 => (delta \div n) * n = delta)
    BY <1>1, <2>1, NatQuotient
  <2>3. (delta \div n) * x \in Nat
    BY <1>1, <2>2, NatProduct
  <2>4. share(sum)[c] = (delta \div n) * x
    BY <1>2, <1>6
  <2>5. ((delta \div n) * x) * n = ((delta \div n) * n) * x
    BY <1>1, <2>2, Proportional
  <2>6. Divisible(sum) => share(sum)[c] * n = delta * x
    BY <1>4, <1>6, <2>1, <2>2, <2>4, <2>5
  <2> QED
    BY <1>6, <2>3, <2>4, <2>6 DEF n, x, delta
<1> QED
  BY <1>5, <1>6

LEMMA DivideEstimates ==
    ASSUME TypeOK, isMultiphase, NEW sum \in Energy
    PROVE  /\ divide(sum) \in [Channels -> Energy]
           /\ divide(sum)[Multiphase] = sum
           /\ \A p \in Connected :
                 IF qIsFinite(energy[p])
                 THEN /\ divide(sum)[p] = energy[p] + share(sum)[p]
                      /\ divide(sum)[p] \in Nat
                      /\ divide(sum)[p] >= energy[p]
                 ELSE divide(sum)[p] = energy[p]
           /\ \A p \in Phases \ Connected : divide(sum)[p] = energy[p]
<1> DEFINE n == IF hasL3 THEN 3 ELSE 2
           rise == share(sum)
<1>1. n \in {2, 3} /\ Connected = 1 .. n /\ Connected \subseteq Phases
  BY PhasesCounted
<1>2. energy \in [Channels -> Energy]
  BY DEF TypeOK
<1>3. \A c \in Channels : rise[c] \in Nat
  BY ShareTyped
<1>4. divide(sum) = [c \in Channels |->
            CASE c = Multiphase -> sum
              [] c \in 1 .. n   -> Plus(energy[c], rise[c])
              [] OTHER          -> energy[c]]
  BY DEF divide
<1> HIDE DEF n, rise
<1>5. divide(sum)[Multiphase] = sum
  BY <1>4
<1>6. ASSUME NEW p \in Phases
      PROVE  divide(sum)[p] = IF p \in 1 .. n THEN Plus(energy[p], rise[p]) ELSE energy[p]
  BY <1>4
<1>7. ASSUME NEW p \in Connected
      PROVE  IF qIsFinite(energy[p])
             THEN /\ divide(sum)[p] = energy[p] + rise[p]
                  /\ divide(sum)[p] \in Nat
                  /\ divide(sum)[p] >= energy[p]
             ELSE divide(sum)[p] = energy[p]
  <2>1. p \in Phases /\ p \in 1 .. n
    BY <1>1
  <2>2. divide(sum)[p] = Plus(energy[p], rise[p])
    BY <1>6, <2>1
  <2>3. energy[p] \in Energy /\ rise[p] \in Nat
    BY <1>2, <1>3, <2>1
  <2> QED
    BY <2>2, <2>3 DEF Plus
<1>8. \A p \in Phases \ Connected : divide(sum)[p] = energy[p]
  BY <1>1, <1>6
<1>9. \A c \in Channels : divide(sum)[c] \in Energy
  BY <1>2, <1>5, <1>7, <1>8
<1>10. divide(sum) \in [Channels -> Energy]
  BY <1>4, <1>9
<1> QED
  BY <1>5, <1>7, <1>8, <1>10 DEF rise

(* A reading of the counter while several phases are measured: the         *)
(* estimates stay typed and not below what has been saved, and other phases*)
(* are left alone.                                                         *)
LEMMA EstimateKeeps ==
    ASSUME Inv, isMultiphase, ~setupRequested, NEW sum \in Energy
    PROVE  LET after == estimate(sum).energy
           IN  /\ after \in [Channels -> Energy]
               /\ \A p \in Connected : qIsFinite(after[p]) => after[p] >= stored[p]
               /\ \A p \in Phases \ Connected : after[p] = energy[p]
<1> DEFINE after == estimate(sum).energy
<1>1. TypeOK /\ energy \in [Channels -> Energy] /\ stored \in [Phases -> Nat]
  BY DEF Inv, TypeOK
<1>2. Connected \subseteq Phases
  BY <1>1, PhasesCounted
<1>3. \A p \in Connected : qIsFinite(energy[p]) => energy[p] >= stored[p]
  BY DEF Inv, EstimatesIncludeSaved
<1>4. CASE ~qIsFinite(energy[PhaseL1])
  <2>1. after = initialize(sum)
    BY <1>4 DEF estimate
  <2> QED
    BY <1>1, <2>1, InitializeEstimates
<1>5. CASE qIsFinite(energy[PhaseL1]) /\ NotMore(sum)
  <2>1. after = energy
    BY <1>5 DEF estimate
  <2> QED
    BY <1>1, <1>3, <2>1
<1>6. CASE qIsFinite(energy[PhaseL1]) /\ ~NotMore(sum)
  <2>1. after = divide(sum)
    BY <1>6 DEF estimate
  <2>2. /\ after \in [Channels -> Energy]
        /\ \A p \in Connected :
              IF qIsFinite(energy[p])
              THEN after[p] \in Nat /\ after[p] >= energy[p]
              ELSE after[p] = energy[p]
        /\ \A p \in Phases \ Connected : after[p] = energy[p]
    BY <1>1, <2>1, DivideEstimates
  <2>3. ASSUME NEW p \in Connected, qIsFinite(after[p])
        PROVE  after[p] >= stored[p]
    <3>1. qIsFinite(energy[p])
      BY <2>2, <2>3
    <3>2. energy[p] \in Nat /\ stored[p] \in Nat
      BY <1>1, <1>2, <3>1
    <3> QED
      BY <1>3, <2>2, <3>1, <3>2
  <2> QED
    BY <2>2, <2>3
<1> QED
  BY <1>4, <1>5, <1>6

(* What estimate does with the accumulated power.                          *)
LEMMA EstimateClears ==
    ASSUME TypeOK, NEW sum \in Energy
    PROVE  /\ estimate(sum).processor \in [negative : [Channels -> Nat], storing : BOOLEAN]
           /\ estimate(sum).processor.negative
                  = IF qIsFinite(energy[PhaseL1]) /\ NotMore(sum)
                    THEN processor.negative ELSE Nothing
<1>1. CASE qIsFinite(energy[PhaseL1]) /\ NotMore(sum)
  <2>1. estimate(sum).processor = [processor EXCEPT !.storing = TRUE]
    BY <1>1 DEF estimate
  <2> QED
    BY <1>1, <2>1 DEF TypeOK
<1>2. CASE ~(qIsFinite(energy[PhaseL1]) /\ NotMore(sum))
  <2>1. estimate(sum).processor = [negative |-> Nothing, storing |-> TRUE]
    BY <1>2 DEF estimate
  <2> QED
    BY <1>2, <2>1 DEF Nothing
<1> QED
  BY <1>1, <1>2

-----------------------------------------------------------------------------
(* Three ways in which the invariant holds by what a step leaves: nothing  *)
(* is measured, a setup is due, or the values have just been reset.        *)
LEMMA NothingMeasured ==
    ASSUME TypeOK', phaseCount' = 0
    PROVE  Inv'
BY DEF Inv, UnconnectedInvalid, EstimatesIncludeSaved, Accumulated, Estimating,
       Measuring, isMultiphase

LEMMA SetupDue ==
    ASSUME TypeOK', setupRequested'
    PROVE  Inv'
BY DEF Inv, UnconnectedInvalid, EstimatesIncludeSaved, Accumulated, Estimating

LEMMA JustReset ==
    ASSUME TypeOK', energy' = Unknown, measured' = {}
    PROVE  Inv'
<1>1. Connected' \subseteq Channels
  BY DEF TypeOK, Connected
<1>2. \A c \in Channels : ~qIsFinite(energy'[c])
  BY DEF Unknown
<1> QED
  BY <1>1, <1>2 DEF Inv, UnconnectedInvalid, EstimatesIncludeSaved, Accumulated, Estimating

LEMMA UnknownTyped == Unknown \in [Channels -> Energy] /\ Nothing \in [Channels -> Nat]
BY DEF Unknown, Nothing

(* Init and the actions.                                                   *)
LEMMA Initially == Init => Inv
<1> SUFFICES ASSUME Init PROVE Inv
  OBVIOUS
<1>1. TypeOK
  <2>1. energy \in [Channels -> Energy] /\ measured \subseteq Phases
    BY UnknownTyped DEF Init
  <2>2. processor \in [negative : [Channels -> Nat], storing : BOOLEAN]
    BY UnknownTyped DEF Init, NewProcessor
  <2>3. phaseCount \in 0 .. 3
    BY DEF Init
  <2>4. setupRequested \in BOOLEAN
    BY Zenon DEF Init
  <2>5. stored \in [Phases -> Nat] /\ fed \in [Channels -> Nat]
    BY UnknownTyped DEF Init
  <2> QED
    BY <2>1, <2>2, <2>3, <2>4, <2>5 DEF TypeOK
<1> QED
  BY <1>1 DEF Init, Inv, UnconnectedInvalid, EstimatesIncludeSaved, Accumulated, Estimating,
          Measuring, isMultiphase

(* Powers are accumulated by the code and by the history alike, and only   *)
(* those of phases that are connected are read.                            *)
LEMMA PowersReadKeeps ==
    ASSUME Inv, NEW channels, NEW power, PowersRead(channels, power),
           \A c \in Channels \cap DOMAIN power : power[c] \in Int,
           \A p \in Phases \cap DOMAIN power : p \in Connected
    PROVE  Inv'
<1>1. /\ processor' = [processor EXCEPT !.negative = setPowers(@, power)]
      /\ fed' = IF Estimating THEN setPowers(fed, power) ELSE Nothing
      /\ UNCHANGED <<phaseCount, stored>>
      /\ energy' = resetValues(energy, Unknown)
      /\ measured' = resetValues((measured \ channels) \cup (Phases \cap DOMAIN power), {})
      /\ setupRequested' = FALSE
  BY DEF PowersRead, startNextAction
<1>2. TypeOK
  BY DEF Inv
<1>3. TypeOK'
  <2>1. setPowers(processor.negative, power) \in [Channels -> Nat]
    BY <1>2, PowersTyped DEF TypeOK
  <2>2. setPowers(fed, power) \in [Channels -> Nat]
    BY <1>2, PowersTyped DEF TypeOK
  <2>3. processor' \in [negative : [Channels -> Nat], storing : BOOLEAN]
    BY <1>1, <1>2, <2>1 DEF TypeOK
  <2>4. fed' \in [Channels -> Nat]
    BY <1>1, <2>2, UnknownTyped
  <2>5. energy' \in [Channels -> Energy] /\ measured' \subseteq Phases
    BY <1>1, <1>2, UnknownTyped DEF TypeOK, resetValues
  <2>6. setupRequested' \in BOOLEAN
    BY <1>1, Zenon
  <2> QED
    BY <1>1, <1>2, <2>3, <2>4, <2>5, <2>6 DEF TypeOK
<1>4. CASE setupRequested
  BY <1>1, <1>3, <1>4, JustReset DEF resetValues
<1>5. CASE ~setupRequested
  <2>1. /\ UNCHANGED <<phaseCount, stored, energy>> /\ ~setupRequested'
        /\ measured' = (measured \ channels) \cup (Phases \cap DOMAIN power)
    BY <1>1, <1>5 DEF resetValues
  <2>2. Accumulated'
    <3>1. processor'.negative = setPowers(processor.negative, power)
      BY <1>1, <1>2 DEF TypeOK
    <3>2. Estimating' = Estimating
      BY <2>1, <1>5 DEF Estimating, isMultiphase
    <3> QED
      BY <1>1, <3>1, <3>2 DEF Inv, Accumulated
  <2>3. UnconnectedInvalid'
    BY <2>1, <1>5 DEF Inv, UnconnectedInvalid, Connected, Measuring
  <2>4. EstimatesIncludeSaved'
    BY <2>1, <1>5 DEF Inv, EstimatesIncludeSaved, Connected, isMultiphase
  <2> QED
    BY <1>3, <2>2, <2>3, <2>4 DEF Inv
<1> QED
  BY <1>4, <1>5

(* L1 is connected to whatever is measured.                                *)
LEMMA TotalReadKeeps ==
    ASSUME Inv, TotalRead
    PROVE  Inv'
<1> DEFINE channels == IF isMultiphase THEN {Multiphase} ELSE {Multiphase, PhaseL1}
<1>1. PICK valid \in {{}, channels}, p \in Powers : PowersRead(channels, [c \in valid |-> p])
  BY DEF TotalRead
<1>2. p \in Int
  BY DataAssumption
<1>3. \A d \in DOMAIN [c \in valid |-> p] : [c \in valid |-> p][d] \in Int
  BY <1>2
<1>4. Measuring /\ TypeOK
  BY <1>1 DEF PowersRead, Inv
<1>5. PhaseL1 \in Connected
  BY <1>4 DEF Measuring, Connected, TypeOK
<1>6. \A q \in Phases \cap DOMAIN [c \in valid |-> p] : q \in Connected
  BY <1>5
<1> QED
  BY <1>1, <1>3, <1>6, PowersReadKeeps

LEMMA PhasesReadKeeps ==
    ASSUME Inv, PhasesRead
    PROVE  Inv'
<1>1. PICK valid \in SUBSET Connected : \E power \in [valid -> Powers] : PowersRead(Connected, power)
  BY DEF PhasesRead
<1>2. PICK power \in [valid -> Powers] : PowersRead(Connected, power)
  BY <1>1
<1>3. \A c \in Channels \cap DOMAIN power : power[c] \in Int
  BY DataAssumption
<1>4. \A p \in Phases \cap DOMAIN power : p \in Connected
  OBVIOUS
<1> QED
  BY <1>2, <1>3, <1>4, PowersReadKeeps

LEMMA EnergyReadKeeps ==
    ASSUME Inv, NEW sum \in {NaN} \cup 0 .. MaxEnergy, EnergyRead(sum)
    PROVE  Inv'
<1> DEFINE read == IF isMultiphase THEN estimate(sum) ELSE copy(sum)
<1>1. sum \in Energy
  BY DataAssumption
<1>2. TypeOK /\ Measuring
  BY DEF Inv, EnergyRead
<1>3. /\ processor' = read.processor
      /\ energy' = resetValues(read.energy, Unknown)
      /\ measured' = resetValues(measured, {})
      /\ setupRequested' = FALSE
      /\ fed' = IF Estimating /\ NotMore(sum) THEN fed ELSE Nothing
      /\ UNCHANGED <<phaseCount, stored>>
  BY DEF EnergyRead, startNextAction
<1>4. processor' \in [negative : [Channels -> Nat], storing : BOOLEAN]
  BY <1>1, <1>2, <1>3, EstimateClears DEF copy, TypeOK
<1>5. fed' \in [Channels -> Nat]
  BY <1>2, <1>3, UnknownTyped DEF TypeOK
<1>6. /\ phaseCount' \in 0 .. 3 /\ stored' \in [Phases -> Nat]
      /\ measured' \subseteq Phases
  BY <1>2, <1>3 DEF TypeOK, resetValues
<1>7. setupRequested' \in BOOLEAN
  BY <1>3, Zenon
<1>8. CASE setupRequested
  <2>1. energy' = Unknown /\ measured' = {}
    BY <1>3, <1>8 DEF resetValues
  <2>2. TypeOK'
    BY <1>4, <1>5, <1>6, <1>7, <2>1, UnknownTyped DEF TypeOK
  <2> QED
    BY <2>1, <2>2, JustReset
<1>9. CASE ~setupRequested /\ isMultiphase
  <2> DEFINE after == estimate(sum).energy
  <2>1. energy' = after /\ measured' = measured /\ ~setupRequested'
    BY <1>3, <1>9 DEF resetValues
  <2>2. /\ after \in [Channels -> Energy]
        /\ \A p \in Connected : qIsFinite(after[p]) => after[p] >= stored[p]
        /\ \A p \in Phases \ Connected : after[p] = energy[p]
    BY <1>1, <1>9, EstimateKeeps
  <2> HIDE DEF after
  <2>3. TypeOK'
    BY <1>4, <1>5, <1>6, <1>7, <2>1, <2>2 DEF TypeOK
  <2>4. Connected' = Connected /\ stored' = stored /\ isMultiphase' = isMultiphase
    BY <1>3 DEF Connected, isMultiphase
  <2>5. UnconnectedInvalid'
    BY <1>2, <1>9, <2>1, <2>2, <2>4 DEF Inv, UnconnectedInvalid
  <2>6. EstimatesIncludeSaved'
    BY <2>1, <2>2, <2>4 DEF EstimatesIncludeSaved
  <2>7. Accumulated'
    <3>1. processor'.negative = IF qIsFinite(energy[PhaseL1]) /\ NotMore(sum)
                                THEN processor.negative ELSE Nothing
      BY <1>1, <1>2, <1>3, <1>9, EstimateClears
    <3>2. fed' = IF qIsFinite(energy[PhaseL1]) /\ NotMore(sum) THEN fed ELSE Nothing
      BY <1>3, <1>9 DEF Estimating
    <3>3. qIsFinite(energy[PhaseL1]) => fed = processor.negative
      BY <1>9 DEF Inv, Accumulated, Estimating
    <3> QED
      BY <3>1, <3>2, <3>3 DEF Accumulated
  <2> QED
    BY <2>3, <2>5, <2>6, <2>7 DEF Inv
<1>10. CASE ~setupRequested /\ ~isMultiphase
  <2>1. /\ energy' = [energy EXCEPT ![Multiphase] = sum, ![PhaseL1] = sum]
        /\ measured' = measured
        /\ ~isMultiphase'
    BY <1>3, <1>10 DEF resetValues, copy, isMultiphase
  <2>2. TypeOK'
    BY <1>1, <1>2, <1>4, <1>5, <1>6, <1>7, <2>1 DEF TypeOK
  <2>3. phaseCount = 1 /\ Connected' = Connected /\ Connected = {PhaseL1}
    BY <1>2, <1>3, <1>10 DEF TypeOK, Measuring, isMultiphase, Connected
  <2>4. UnconnectedInvalid'
    BY <1>2, <1>10, <2>1, <2>3 DEF Inv, UnconnectedInvalid, TypeOK
  <2> QED
    BY <2>1, <2>2, <2>4 DEF Inv, EstimatesIncludeSaved, Accumulated, Estimating
<1> QED
  BY <1>8, <1>9, <1>10

(* Saving replaces each value by what the estimate has become.             *)
LEMMA UpdateSettingsKeeps ==
    ASSUME Inv, onUpdateSettings
    PROVE  /\ Inv'
           /\ isMultiphase /\ ~setupRequested => \A p \in Phases : stored'[p] >= stored[p]
<1>1. TypeOK /\ Measuring
  BY DEF Inv, onUpdateSettings
<1>2. /\ UNCHANGED <<phaseCount, setupRequested, processor, energy, measured, fed>>
      /\ stored' = [p \in Phases |-> IF qIsFinite(energy[p]) THEN energy[p] ELSE stored[p]]
  BY DEF onUpdateSettings, updateEnergySettings
<1>3. stored' \in [Phases -> Nat]
  BY <1>1, <1>2 DEF TypeOK
<1>4. TypeOK'
  BY <1>1, <1>2, <1>3 DEF TypeOK
<1>5. Connected \subseteq Phases
  BY <1>1 DEF TypeOK, Connected
<1>6. EstimatesIncludeSaved'
  <2>1. \A p \in Connected : qIsFinite(energy[p]) => stored'[p] = energy[p]
    BY <1>2, <1>5
  <2>2. \A p \in Connected : qIsFinite(energy[p]) => energy[p] >= stored'[p]
    BY <1>1, <1>5, <2>1 DEF TypeOK
  <2> QED
    BY <1>2, <2>2 DEF EstimatesIncludeSaved, isMultiphase, Connected
<1>7. ASSUME isMultiphase, ~setupRequested, NEW p \in Phases
      PROVE  stored'[p] >= stored[p]
  <2>1. ~qIsFinite(energy[p]) => stored'[p] = stored[p]
    BY <1>2
  <2>2. qIsFinite(energy[p]) => stored'[p] = energy[p]
    BY <1>2
  <2>3. qIsFinite(energy[p]) => p \in Connected
    BY <1>1, <1>7 DEF Inv, UnconnectedInvalid
  <2>4. qIsFinite(energy[p]) => energy[p] >= stored[p]
    BY <1>7, <2>3 DEF Inv, EstimatesIncludeSaved
  <2> QED
    BY <1>1, <2>1, <2>2, <2>4 DEF TypeOK
<1>8. UnconnectedInvalid' /\ Accumulated'
  BY <1>2 DEF Inv, UnconnectedInvalid, Accumulated, Estimating, Measuring, isMultiphase, Connected
<1> QED
  BY <1>4, <1>6, <1>7, <1>8 DEF Inv

LEMMA Preserved == Inv /\ [Next]_vars => Inv'
<1> SUFFICES ASSUME Inv, [Next]_vars PROVE Inv'
  OBVIOUS
<1>1. TypeOK
  BY DEF Inv
<1>2. CASE StartMeasurements
  <2>1. TypeOK' /\ setupRequested'
    BY <1>1, <1>2, UnknownTyped DEF StartMeasurements, TypeOK, NewProcessor
  <2> QED
    BY <2>1, SetupDue
<1>3. CASE TotalRead \/ PhasesRead
  BY <1>3, TotalReadKeeps, PhasesReadKeeps
<1>4. CASE \E sum \in {NaN} \cup 0 .. MaxEnergy : EnergyRead(sum)
  BY <1>4, EnergyReadKeeps
<1>5. CASE OtherEvent
  <2>1. /\ energy' = Unknown /\ measured' = {} /\ setupRequested' = FALSE /\ fed' = Nothing
        /\ UNCHANGED <<phaseCount, processor, stored>>
    BY <1>5 DEF OtherEvent, startNextAction, resetValues
  <2>2. setupRequested' \in BOOLEAN
    BY <2>1, Zenon
  <2>3. TypeOK'
    BY <1>1, <2>1, <2>2, UnknownTyped DEF TypeOK
  <2> QED
    BY <2>1, <2>3, JustReset
<1>6. CASE onPhaseCountChanged
  <2>1. TypeOK' /\ setupRequested'
    BY <1>1, <1>6 DEF onPhaseCountChanged, TypeOK
  <2> QED
    BY <2>1, SetupDue
<1>7. CASE onUpdateSettings
  BY <1>7, UpdateSettingsKeeps
<1>8. CASE disconnectSensor
  <2>1. TypeOK' /\ phaseCount' = 0
    BY <1>1, <1>8, UnknownTyped DEF disconnectSensor, TypeOK, NewProcessor
  <2> QED
    BY <2>1, NothingMeasured
<1>9. CASE UNCHANGED vars
  BY <1>9 DEF vars, Inv, TypeOK, UnconnectedInvalid, EstimatesIncludeSaved, Accumulated,
              Estimating, Measuring, isMultiphase, Connected
<1> QED
  BY <1>2, <1>3, <1>4, <1>5, <1>6, <1>7, <1>8, <1>9 DEF Next

LEMMA Invariant == Spec => []Inv
BY Initially, Preserved, PTL DEF Spec

-----------------------------------------------------------------------------
(* The energies, the accumulated powers and the saved values keep their    *)
(* types (data_processor.cpp): a quotient of a rise and an accumulated     *)
(* power never makes a negative energy.                                    *)
THEOREM TypeCorrect == Spec => []TypeOK
<1>1. Inv => TypeOK
  BY DEF Inv
<1> QED
  BY <1>1, Invariant, PTL

(* A phase that is not connected has neither a power nor an energy,        *)
(* whatever it had before the settings changed (ac_sensor_updater.cpp:930).*)
THEOREM UnconnectedStayInvalid == Spec => []UnconnectedInvalid
<1>1. Inv => UnconnectedInvalid
  BY DEF Inv
<1> QED
  BY <1>1, Invariant, PTL

(* While several phases are measured and no setup is due, no estimate is   *)
(* below what has been saved of it, and saving makes none of the saved     *)
(* values less (data_processor.cpp:94-119).                                *)
THEOREM SavedStaysKept == Spec => SavedEnergyKept
<1>1. Inv /\ [Next]_vars
        => [ /\ EstimatesIncludeSaved
             /\ isMultiphase /\ ~setupRequested =>
                   \A p \in Phases : stored'[p] >= stored[p] ]_vars
  <2> SUFFICES ASSUME Inv, Next, isMultiphase, ~setupRequested, NEW p \in Phases
               PROVE  stored'[p] >= stored[p]
    BY DEF Inv
  <2>1. CASE onUpdateSettings
    BY <2>1, UpdateSettingsKeeps
  <2>2. CASE ~onUpdateSettings
    <3>1. stored' = stored
      BY <2>2 DEF Next, StartMeasurements, TotalRead, PhasesRead, PowersRead, EnergyRead,
                  OtherEvent, onPhaseCountChanged, disconnectSensor
    <3> QED
      BY <3>1 DEF Inv, TypeOK
  <2> QED
    BY <2>1, <2>2
<1> QED
  BY <1>1, Invariant, PTL DEF Spec, SavedEnergyKept

(* While several phases are measured and no setup is due, each estimate    *)
(* gets, of a rise of the counter, the part that the power its phase has   *)
(* fed back since the counter was last taken in has in that of all phases  *)
(* together (README.md:34, data_processor.cpp:62-75), and nothing else     *)
(* changes an estimate: neither powers nor a reading without a value.      *)
LEMMA ProportionInStep ==
    ASSUME Inv, Next, isMultiphase, qIsFinite(energy[PhaseL1]), ~setupRequested,
           phaseCount' = phaseCount
    PROVE  InProportion
<1>1. /\ TypeOK
      /\ energy \in [Channels -> Energy]
      /\ fed = processor.negative
      /\ fed \in [Channels -> Nat]
      /\ Connected \subseteq Phases
  BY DEF Inv, TypeOK, Accumulated, Estimating, Connected
<1>2. CASE energy' = energy
  <2>1. ASSUME NEW p \in Connected, qIsFinite(energy[p]), qIsFinite(energy[Multiphase])
        PROVE  (energy[p] - energy[p]) * fed[Multiphase]
                    = (energy[Multiphase] - energy[Multiphase]) * fed[p]
    <3>1. energy[p] \in Nat /\ energy[Multiphase] \in Nat /\ fed[p] \in Nat /\ fed[Multiphase] \in Nat
      BY <1>1, <2>1
    <3>2. energy[p] - energy[p] = 0 /\ energy[Multiphase] - energy[Multiphase] = 0
      BY <3>1
    <3> QED
      BY <3>1, <3>2
  <2> QED
    BY <1>1, <1>2, <2>1 DEF InProportion
<1>3. CASE \E sum \in {NaN} \cup 0 .. MaxEnergy : EnergyRead(sum)
  <2>1. PICK sum \in {NaN} \cup 0 .. MaxEnergy : EnergyRead(sum)
    BY <1>3
  <2>2. sum \in Energy /\ Divisible(sum)
    BY <2>1, DataAssumption DEF EnergyRead
  <2>3. energy' = estimate(sum).energy
    BY <2>1 DEF EnergyRead, startNextAction, resetValues
  <2>4. CASE NotMore(sum)
    <3>1. energy' = energy
      BY <2>3, <2>4 DEF estimate
    <3> QED
      BY <1>2, <3>1
  <2>5. CASE ~NotMore(sum)
    <3>1. energy' = divide(sum)
      BY <2>3, <2>5 DEF estimate
    <3>2. /\ energy'[Multiphase] = sum
          /\ \A p \in Connected :
                IF qIsFinite(energy[p])
                THEN /\ energy'[p] = energy[p] + share(sum)[p]
                     /\ energy'[p] \in Nat
                ELSE energy'[p] = energy[p]
      BY <1>1, <2>2, <3>1, DivideEstimates
    <3>3. ASSUME NEW p \in Connected
          PROVE  /\ share(sum)[p] \in Nat
                 /\ ~Rises(sum) \/ fed[Multiphase] = 0 => share(sum)[p] = 0
                 /\ Rises(sum) /\ fed[Multiphase] # 0
                      => share(sum)[p] * fed[Multiphase] = (sum - energy[Multiphase]) * fed[p]
      BY <1>1, <2>2, ShareTyped
    <3>4. Rises(sum) <=> qIsFinite(energy[Multiphase]) /\ qIsFinite(energy'[Multiphase])
      BY <1>1, <2>2, <2>5, <3>2 DEF Rises, NotMore, BothFinite
    <3>5. ASSUME NEW p \in Connected, qIsFinite(energy[p])
          PROVE  energy'[p] - energy[p] = share(sum)[p] /\ qIsFinite(energy'[p])
      <4>1. energy[p] \in Nat
        BY <1>1, <3>5
      <4> QED
        BY <3>2, <3>3, <3>5, <4>1
    <3>6. ASSUME NEW p \in Connected, share(sum)[p] = 0
          PROVE  energy'[p] = energy[p]
      <4>1. energy[p] \in Energy
        BY <1>1
      <4> QED
        BY <3>2, <3>6, <4>1
    <3> QED
      BY <3>2, <3>3, <3>4, <3>5, <3>6 DEF InProportion
  <2> QED
    BY <2>4, <2>5
<1>4. CASE TotalRead \/ PhasesRead \/ onUpdateSettings
  <2>1. energy' = energy
    BY <1>4 DEF TotalRead, PhasesRead, PowersRead, onUpdateSettings, startNextAction, resetValues
  <2> QED
    BY <1>2, <2>1
<1>5. ~StartMeasurements /\ ~OtherEvent /\ ~onPhaseCountChanged /\ ~disconnectSensor
  BY <1>1 DEF StartMeasurements, OtherEvent, onPhaseCountChanged, disconnectSensor,
              isMultiphase, Measuring, TypeOK
<1> QED
  BY <1>3, <1>4, <1>5 DEF Next

THEOREM DividedInProportion == Spec => EstimatedInProportion
<1>1. Inv /\ [Next]_vars
        => [ isMultiphase /\ qIsFinite(energy[PhaseL1]) /\ ~setupRequested
                /\ phaseCount' = phaseCount => InProportion ]_vars
  BY ProportionInStep
<1> QED
  BY <1>1, Invariant, PTL DEF Spec, EstimatedInProportion
=============================================================================
