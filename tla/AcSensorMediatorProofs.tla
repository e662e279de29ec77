----------------------- MODULE AcSensorMediatorProofs -----------------------
(***************************************************************************)
(* Proofs about AcSensorSettings and AcSensorMediator, for any number of   *)
(* sensors, any meters and any roles: the slots of the settings are told   *)
(* of every change, and the services on D-Bus are those of the sensors.    *)
(***************************************************************************)
EXTENDS AcSensorMediator, TLAPS

-----------------------------------------------------------------------------
(* The setters of the settings.                                            *)

CallModels == [settings : Settings, heard : Seq(Settings)]

(* A call in which every slot has found consistent settings.               *)
Sane(call) ==
    /\ call \in CallModels
    /\ \A n \in 1 .. Len(call.heard) : Consistent(call.heard[n])

(* The last slot has found the settings as they are now.                   *)
Told(call) == call.heard # <<>> /\ call.heard[Len(call.heard)] = call.settings

(* emit tells the slots of the settings as they are.                       *)
LEMMA EmitTells ==
    ASSUME NEW call, Sane(call), Consistent(call.settings)
    PROVE  Sane(emit(call)) /\ Told(emit(call)) /\ emit(call).settings = call.settings
<1>1. call \in CallModels /\ call.settings \in Settings /\ call.heard \in Seq(Settings)
    BY DEF Sane, CallModels
<1>2. /\ emit(call).settings = call.settings
      /\ emit(call).heard = Append(call.heard, call.settings)
      /\ emit(call) \in CallModels
    BY <1>1 DEF emit, CallModels
<1>3. \A n \in 1 .. Len(emit(call).heard) : Consistent(emit(call).heard[n])
    BY <1>1, <1>2 DEF Sane
<1>4. Told(emit(call))
    <2> DEFINE h == Append(call.heard, call.settings)
    <2>1. Len(h) = Len(call.heard) + 1 /\ h[Len(call.heard) + 1] = call.settings
        BY <1>1
    <2>2. Len(call.heard) \in Nat
        BY <1>1
    <2> HIDE DEF h
    <2>3. Len(<<>>) = 0
        OBVIOUS
    <2>4. Len(h) # 0
        BY <2>1, <2>2
    <2>5. h # <<>>
        BY <2>3, <2>4, Zenon
    <2> QED BY <1>2, <2>1, <2>5 DEF Told, h
<1> QED BY <1>2, <1>3, <1>4 DEF Sane

(* A value of type Settings, field by field, and back.                     *)
LEMMA SettingsFields ==
    ASSUME NEW s \in Settings
    PROVE  /\ s.supportMultiphase \in BOOLEAN
           /\ s.isMultiphase \in BOOLEAN
           /\ s.phaseCount \in 0 .. 3
           /\ s.piggyEnabled \in BOOLEAN
           /\ phaseCount(s) \in 1 .. 3
BY DEF Settings, phaseCount

(* Disabling the PV inverter leaves no question open, and if it changes    *)
(* anything it tells.                                                      *)
LEMMA DisableTells ==
    ASSUME NEW call, Sane(call)
    PROVE  LET r == disablePiggy(call) IN
           /\ Sane(r)
           /\ r.settings = [call.settings EXCEPT !.piggyEnabled = FALSE]
           /\ Consistent(r.settings)
           /\ call.settings.piggyEnabled => Told(r)
           /\ ~call.settings.piggyEnabled => r = call
<1> DEFINE s == call.settings
           t == [s EXCEPT !.piggyEnabled = FALSE]
           c == [call EXCEPT !.settings.piggyEnabled = FALSE]
<1>1. s \in Settings /\ call \in CallModels
    BY DEF Sane, CallModels
<1>2. t \in Settings /\ Consistent(t) /\ t.piggyEnabled = FALSE
    BY <1>1 DEF Settings, Consistent
<1>3. c \in CallModels /\ c.settings = t /\ c.heard = call.heard
    BY <1>1, <1>2 DEF CallModels
<1>4. Sane(c)
    BY <1>3 DEF Sane
<1>5. Sane(emit(c)) /\ Told(emit(c)) /\ emit(c).settings = t
    BY <1>2, <1>3, <1>4, EmitTells
<1>6. CASE s.piggyEnabled
    BY <1>2, <1>5, <1>6 DEF disablePiggy
<1>7. CASE ~s.piggyEnabled
    <2>1. t = s
        BY <1>1, <1>7 DEF Settings
    <2> QED BY <1>2, <1>7, <2>1 DEF disablePiggy
<1> QED BY <1>6, <1>7

(* updatePhaseCount: nothing happens, or the slots are told.               *)
LEMMA UpdateTells ==
    ASSUME NEW call, Sane(call), NEW old
    PROVE  LET r == updatePhaseCount(call, old)
               n == phaseCount(call.settings)
           IN  /\ Sane(r)
               /\ n = old => r = call
               /\ n # old => Told(r) /\ Consistent(r.settings)
               /\ n = 1 => r.settings = call.settings
               /\ r.settings \in {call.settings, [call.settings EXCEPT !.piggyEnabled = FALSE]}
<1> DEFINE n == phaseCount(call.settings)
           d == IF n > 1 THEN disablePiggy(call) ELSE call
<1>1. call.settings \in Settings
    BY DEF Sane, CallModels
<1>2. n \in 1 .. 3
    BY <1>1, SettingsFields
<1>3. /\ Sane(disablePiggy(call))
      /\ disablePiggy(call).settings = [call.settings EXCEPT !.piggyEnabled = FALSE]
      /\ Consistent(disablePiggy(call).settings)
    BY DisableTells
<1>4. n = 1 => Consistent(call.settings)
    BY DEF Consistent
<1>5. Sane(d) /\ Consistent(d.settings)
    BY <1>2, <1>3, <1>4
<1>6. Sane(emit(d)) /\ Told(emit(d)) /\ emit(d).settings = d.settings
    BY <1>5, EmitTells
<1>7. d.settings \in {call.settings, [call.settings EXCEPT !.piggyEnabled = FALSE]}
    BY <1>3
<1>8. n = 1 => d.settings = call.settings
    BY <1>2
<1>9. CASE n = old
    BY <1>9 DEF updatePhaseCount
<1>10. CASE n # old
    <2>1. updatePhaseCount(call, old) = emit(d)
        BY <1>10 DEF updatePhaseCount
    <2> HIDE DEF d
    <2> QED BY <1>10, <1>5, <1>6, <1>7, <1>8, <2>1
<1> QED BY <1>9, <1>10

(* Setting isMultiphase: what it is then, and the slots are told unless    *)
(* the number of phases is the same.                                       *)
LEMMA IsMultiphaseTells ==
    ASSUME NEW call, Sane(call), NEW b \in BOOLEAN,
           NEW t, t = [call.settings EXCEPT !.isMultiphase = b],
           NEW r, r = setIsMultiphase(call, b)
    PROVE  /\ Sane(r)
           /\ phaseCount(t) = phaseCount(call.settings) =>
                 r.settings = t /\ r.heard = call.heard
           /\ phaseCount(t) # phaseCount(call.settings) => Told(r) /\ Consistent(r.settings)
           /\ phaseCount(t) = 1 => r.settings = t
           /\ r.settings.serial = call.settings.serial
<1> DEFINE s == call.settings
           c == [call EXCEPT !.settings.isMultiphase = b]
<1>1. s \in Settings /\ call \in CallModels
    BY DEF Sane, CallModels
<1>2. t \in Settings
    BY <1>1 DEF Settings
<1>3. c \in CallModels /\ c.settings = t /\ c.heard = call.heard
    BY <1>1, <1>2 DEF CallModels
<1>4. Sane(c)
    BY <1>3 DEF Sane
<1>5. r = updatePhaseCount(c, phaseCount(s))
    BY DEF setIsMultiphase
<1> HIDE DEF c, s
<1>6. /\ Sane(r)
      /\ phaseCount(c.settings) = phaseCount(s) => r = c
      /\ phaseCount(c.settings) # phaseCount(s) => Told(r) /\ Consistent(r.settings)
      /\ phaseCount(c.settings) = 1 => r.settings = c.settings
      /\ r.settings \in {c.settings, [c.settings EXCEPT !.piggyEnabled = FALSE]}
    BY <1>4, <1>5, UpdateTells
<1>7. r.settings.serial = s.serial
    <2>1. t.serial = s.serial
        BY <1>1 DEF Settings, s
    <2>2. [t EXCEPT !.piggyEnabled = FALSE].serial = t.serial
        BY <1>2 DEF Settings
    <2>3. r.settings \in {t, [t EXCEPT !.piggyEnabled = FALSE]}
        BY <1>3, <1>6
    <2> QED BY <2>1, <2>2, <2>3
<1> QED BY <1>3, <1>4, <1>6, <1>7 DEF s

(* Setting phaseCount, likewise.                                           *)
LEMMA PhaseCountTells ==
    ASSUME NEW call, Sane(call), NEW n \in Int,
           NEW t, t = [call.settings EXCEPT !.phaseCount = Bounded(n)],
           NEW r, r = setPhaseCount(call, n)
    PROVE  /\ Sane(r)
           /\ phaseCount(t) = phaseCount(call.settings) =>
                 r.settings = t /\ r.heard = call.heard
           /\ phaseCount(t) # phaseCount(call.settings) => Told(r) /\ Consistent(r.settings)
           /\ phaseCount(t) = 1 => r.settings = t
           /\ r.settings.serial = call.settings.serial
<1> DEFINE s == call.settings
           c == [call EXCEPT !.settings.phaseCount = Bounded(n)]
<1>1. s \in Settings /\ call \in CallModels
    BY DEF Sane, CallModels
<1>2. Bounded(n) \in 0 .. 3
    BY DEF Bounded
<1>3. t \in Settings
    BY <1>1, <1>2 DEF Settings
<1>4. c \in CallModels /\ c.settings = t /\ c.heard = call.heard
    BY <1>1, <1>3 DEF CallModels
<1>5. Sane(c)
    BY <1>4 DEF Sane
<1>6. r = updatePhaseCount(c, phaseCount(s))
    BY DEF setPhaseCount
<1> HIDE DEF c, s
<1>7. /\ Sane(r)
      /\ phaseCount(c.settings) = phaseCount(s) => r = c
      /\ phaseCount(c.settings) # phaseCount(s) => Told(r) /\ Consistent(r.settings)
      /\ phaseCount(c.settings) = 1 => r.settings = c.settings
      /\ r.settings \in {c.settings, [c.settings EXCEPT !.piggyEnabled = FALSE]}
    BY <1>5, <1>6, UpdateTells
<1>8. r.settings.serial = s.serial
    <2>1. t.serial = s.serial
        BY <1>1 DEF Settings, s
    <2>2. [t EXCEPT !.piggyEnabled = FALSE].serial = t.serial
        BY <1>3 DEF Settings
    <2>3. r.settings \in {t, [t EXCEPT !.piggyEnabled = FALSE]}
        BY <1>4, <1>7
    <2> QED BY <2>1, <2>2, <2>3
<1> QED BY <1>4, <1>5, <1>7, <1>8 DEF s

(* What every setter called on consistent settings does.                   *)
Informs(call, s) ==
    /\ Sane(call)
    /\ Consistent(call.settings)
    /\ call.settings.serial = s.serial
    /\ Told(call) \/ (call.heard = <<>> /\ Visible(call.settings) = Visible(s))

(* A call that has not set anything yet.                                   *)
LEMMA CallIsSane ==
    ASSUME NEW s \in Settings, Consistent(s)
    PROVE  Sane(Call(s)) /\ Call(s).settings = s /\ Call(s).heard = <<>>
<1>1. <<>> \in Seq(Settings) /\ Len(<<>>) = 0
    OBVIOUS
<1> QED BY <1>1 DEF Call, Sane, CallModels

(* setIsMultiphase, called on settings that are consistent.                *)
LEMMA IsMultiphaseInforms ==
    ASSUME NEW s \in Settings, Consistent(s), NEW b \in BOOLEAN
    PROVE  Informs(setIsMultiphase(Call(s), b), s)
<1> DEFINE t == [s EXCEPT !.isMultiphase = b]
           r == setIsMultiphase(Call(s), b)
           call == Call(s)
<1>1. Sane(call) /\ call.settings = s /\ call.heard = <<>>
    BY CallIsSane
<1> HIDE DEF t, call, r
<1>4. /\ Sane(r)
      /\ phaseCount(t) = phaseCount(s) => r.settings = t /\ r.heard = <<>>
      /\ phaseCount(t) # phaseCount(s) => Told(r) /\ Consistent(r.settings)
      /\ r.settings.serial = s.serial
    BY <1>1, IsMultiphaseTells DEF r, t, call
<1>2. CASE phaseCount(t) # phaseCount(s)
    BY <1>2, <1>4 DEF Informs, r, call
<1>3. CASE phaseCount(t) = phaseCount(s)
    <2>1. r.settings = t /\ r.heard = <<>> /\ Sane(r)
        BY <1>3, <1>4
    <2>2. Consistent(t)
        BY <1>3 DEF Consistent, Settings, t
    <2>3. Visible(t) = Visible(s)
        BY <1>3 DEF Visible, Settings, t
    <2> QED BY <1>4, <2>1, <2>2, <2>3 DEF Informs, r, call
<1> QED BY <1>2, <1>3

(* setPhaseCount, likewise, whatever the number.                           *)
LEMMA PhaseCountInforms ==
    ASSUME NEW s \in Settings, Consistent(s), NEW n \in Int
    PROVE  Informs(setPhaseCount(Call(s), n), s)
<1> DEFINE t == [s EXCEPT !.phaseCount = Bounded(n)]
           r == setPhaseCount(Call(s), n)
           call == Call(s)
<1>1. Sane(call) /\ call.settings = s /\ call.heard = <<>>
    BY CallIsSane
<1> HIDE DEF t, call, r
<1>4. /\ Sane(r)
      /\ phaseCount(t) = phaseCount(s) => r.settings = t /\ r.heard = <<>>
      /\ phaseCount(t) # phaseCount(s) => Told(r) /\ Consistent(r.settings)
      /\ r.settings.serial = s.serial
    BY <1>1, PhaseCountTells DEF r, t, call
<1>2. CASE phaseCount(t) # phaseCount(s)
    BY <1>2, <1>4 DEF Informs, r, call
<1>3. CASE phaseCount(t) = phaseCount(s)
    <2>1. r.settings = t /\ r.heard = <<>> /\ Sane(r)
        BY <1>3, <1>4
    <2>2. Consistent(t)
        BY <1>3 DEF Consistent, Settings, t
    <2>3. Visible(t) = Visible(s)
        BY <1>3 DEF Visible, Settings, t
    <2> QED BY <1>4, <2>1, <2>2, <2>3 DEF Informs, r, call
<1> QED BY <1>2, <1>3

(* Enabling the PV inverter first makes the meter a single-phase one.      *)
LEMMA EnablePiggyInforms ==
    ASSUME NEW s \in Settings, Consistent(s)
    PROVE  Informs(enablePiggy(Call(s)), s)
<1> DEFINE c == [Call(s) EXCEPT !.settings.piggyEnabled = TRUE]
           t == [s EXCEPT !.piggyEnabled = TRUE, !.isMultiphase = FALSE]
           u == [t EXCEPT !.phaseCount = Bounded(1)]
           single == setIsMultiphase(c, FALSE)
           limited == setPhaseCount(single, 1)
           last == IF single.settings.phaseCount > 1 THEN limited ELSE single
<1>1. Call(s) \in CallModels /\ Call(s).settings = s /\ Call(s).heard = <<>>
    BY CallIsSane DEF Sane
<1>2. c.settings = [s EXCEPT !.piggyEnabled = TRUE] /\ c.heard = <<>> /\ c \in CallModels
    BY <1>1 DEF CallModels, Settings
<1>3. Sane(c)
    <2>1. Len(<<>>) = 0
        OBVIOUS
    <2> QED BY <1>2, <2>1 DEF Sane
<1>4. t = [c.settings EXCEPT !.isMultiphase = FALSE] /\ t \in Settings
    BY <1>2 DEF Settings
<1>5. phaseCount(t) # phaseCount(c.settings) => phaseCount(t) = 1
    BY <1>2, <1>4 DEF Settings, phaseCount
<1> HIDE DEF single, c, t
<1>6. Sane(single) /\ single.settings = t
    <2>0. PICK b \in BOOLEAN : b = FALSE
        OBVIOUS
    <2>1. single = setIsMultiphase(c, b) /\ t = [c.settings EXCEPT !.isMultiphase = b]
        BY <1>4, <2>0 DEF single
    <2>2. /\ Sane(single)
          /\ phaseCount(t) = phaseCount(c.settings) => single.settings = t
          /\ phaseCount(t) = 1 => single.settings = t
        BY <1>3, <2>1, IsMultiphaseTells
    <2> QED BY <1>5, <2>2
<1>7. u = [single.settings EXCEPT !.phaseCount = Bounded(1)] /\ phaseCount(u) = 1
    BY <1>4, <1>6 DEF Settings, phaseCount, Bounded
<1> HIDE DEF limited, u
<1>8. Sane(limited) /\ limited.settings = u
    BY <1>6, <1>7, PhaseCountTells DEF limited
<1>9. t.phaseCount <= 1 => phaseCount(t) = 1
    BY <1>4 DEF t, Settings, phaseCount
<1>10. t.phaseCount \in 0 .. 3
    BY <1>4 DEF Settings
<1>11. Sane(last) /\ Consistent(last.settings)
    BY <1>6, <1>7, <1>8, <1>9, <1>10 DEF Consistent
<1> HIDE DEF last
<1>12. Sane(emit(last)) /\ Told(emit(last)) /\ emit(last).settings = last.settings
    BY <1>11, EmitTells
<1>13. enablePiggy(Call(s)) = emit(last)
    BY DEF enablePiggy, last, limited, single, c
<1>14. t.serial = s.serial /\ u.serial = s.serial
    BY <1>4, <1>7, <1>6 DEF t, Settings
<1>15. last.settings.serial = s.serial
    BY <1>6, <1>8, <1>14 DEF last
<1> QED BY <1>11, <1>12, <1>13, <1>15 DEF Informs

(* A call that sets nothing informs of nothing.                            *)
LEMMA CallInforms ==
    ASSUME NEW s \in Settings, Consistent(s)
    PROVE  Informs(Call(s), s)
BY CallIsSane DEF Informs

(* setPiggyEnabled, likewise.                                              *)
LEMMA PiggyInforms ==
    ASSUME NEW s \in Settings, Consistent(s), NEW b \in BOOLEAN
    PROVE  Informs(setPiggyEnabled(Call(s), b), s)
<1>1. Sane(Call(s)) /\ Call(s).settings = s
    BY CallIsSane
<1>2. CASE s.piggyEnabled = b
    BY <1>1, <1>2, CallInforms DEF setPiggyEnabled
<1>3. CASE s.piggyEnabled # b /\ b
    BY <1>1, <1>3, EnablePiggyInforms DEF setPiggyEnabled
<1>4. CASE s.piggyEnabled # b /\ ~b
    <2>1. s.piggyEnabled
        BY <1>4 DEF Settings
    <2>2. setPiggyEnabled(Call(s), b) = disablePiggy(Call(s))
        BY <1>1, <1>4 DEF setPiggyEnabled
    <2>3. [s EXCEPT !.piggyEnabled = FALSE].serial = s.serial
        BY DEF Settings
    <2> QED BY <1>1, <2>1, <2>2, <2>3, DisableTells DEF Informs
<1> QED BY <1>2, <1>3, <1>4

(* setClassAndVrmInstance, likewise.                                       *)
LEMMA RoleInforms ==
    ASSUME NEW s \in Settings, Consistent(s), NEW role \in Roles
    PROVE  Informs(setClassAndVrmInstance(Call(s), role), s)
<1> DEFINE c == [Call(s) EXCEPT !.settings.role = role]
<1>1. Call(s) \in CallModels /\ Call(s).settings = s /\ Call(s).heard = <<>> /\ Sane(Call(s))
    BY CallIsSane DEF Sane
<1>2. /\ c.settings = [s EXCEPT !.role = role] /\ c.settings \in Settings
      /\ c.settings.serial = s.serial
      /\ c.heard = <<>> /\ c \in CallModels
    BY <1>1 DEF CallModels, Settings
<1>3. Sane(c)
    BY <1>1, <1>2 DEF Sane
<1>4. Consistent(c.settings)
    BY <1>2 DEF Consistent, phaseCount, Settings
<1> HIDE DEF c
<1>5. Informs(emit(c), s)
    BY <1>2, <1>3, <1>4, EmitTells DEF Informs
<1> QED BY <1>1, <1>5, CallInforms DEF setClassAndVrmInstance, c

(* setL2ClassAndVrmInstance, likewise.                                     *)
LEMMA L2RoleInforms ==
    ASSUME NEW s \in Settings, Consistent(s), NEW role \in Roles
    PROVE  Informs(setL2ClassAndVrmInstance(Call(s), role), s)
<1> DEFINE c == [Call(s) EXCEPT !.settings.l2Role = role]
<1>1. Call(s) \in CallModels /\ Call(s).settings = s /\ Call(s).heard = <<>> /\ Sane(Call(s))
    BY CallIsSane DEF Sane
<1>2. /\ c.settings = [s EXCEPT !.l2Role = role] /\ c.settings \in Settings
      /\ c.settings.serial = s.serial
      /\ c.heard = <<>> /\ c \in CallModels
    BY <1>1 DEF CallModels, Settings
<1>3. Sane(c)
    BY <1>1, <1>2 DEF Sane
<1>4. Consistent(c.settings)
    BY <1>2 DEF Consistent, phaseCount, Settings
<1> HIDE DEF c
<1>5. Informs(emit(c), s)
    BY <1>2, <1>3, <1>4, EmitTells DEF Informs
<1> QED BY <1>1, <1>5, CallInforms DEF setL2ClassAndVrmInstance, c

(* Every setter, with every value, informs the slots.                      *)
LEMMA CallsInform ==
    ASSUME NEW s \in Settings, Consistent(s), NEW call \in Calls(s)
    PROVE  Informs(call, s)
<1>1. PhaseCountInputs \subseteq Int
    BY DEF PhaseCountInputs
<1> QED BY <1>1, IsMultiphaseInforms, PhaseCountInforms, PiggyInforms, RoleInforms, L2RoleInforms
        DEF Calls

-----------------------------------------------------------------------------
(* The bridges of one sensor.                                              *)

(* A sensor whose services are those of its bridges, and whose bridges are *)
(* what its connection and its settings call for.                          *)
Fits(o) ==
    /\ o \in Sensors
    /\ o.online = {Service(bridge) : bridge \in o.bridges}
    /\ o.hasSettings <=> o.connection \in {"Detected", "Connected"}
    /\ o.hasSettings => Consistent(o.settings)
    /\ o.connection = "Connected" => o.bridges = BridgesFor(o.settings)
    /\ o.connection # "Connected" =>
          \A bridge \in o.bridges : bridge.secondary /\ o.connection = "Disconnected"

(* The bridges that settings call for, and among them one of the sensor.   *)
LEMMA BridgesForType ==
    ASSUME NEW s \in Settings
    PROVE  /\ BridgesFor(s) \in SUBSET Bridges
           /\ {Service(bridge) : bridge \in BridgesFor(s)} \in SUBSET Services
           /\ \E bridge \in BridgesFor(s) : ~bridge.secondary
<1> DEFINE main == [secondary |-> FALSE, role |-> s.role, phases |-> phaseCount(s)]
           onL2 == [secondary |-> TRUE, role |-> s.l2Role, phases |-> 1]
<1>1. phaseCount(s) \in 1 .. 3 /\ s.role \in Roles \cup {NoRole} /\ s.l2Role \in Roles \cup {NoRole}
    BY SettingsFields DEF Settings
<1>2. main \in Bridges /\ onL2 \in Bridges /\ ~main.secondary
    BY <1>1 DEF Bridges
<1>3. \A bridge \in Bridges : Service(bridge) \in Services
    BY DEF Bridges, Services, Service
<1>4. main \in BridgesFor(s) /\ BridgesFor(s) \subseteq {main, onL2}
    BY DEF BridgesFor
<1> QED BY <1>2, <1>3, <1>4

(* Publishing a sensor that has no bridges.                                *)
LEMMA PublishFits ==
    ASSUME NEW o \in Sensors, o.bridges = {}, o.online = {}, NEW s \in Settings
    PROVE  LET p == publishSensor(o, s) IN
           /\ p = [o EXCEPT !.bridges = BridgesFor(s),
                            !.online = {Service(bridge) : bridge \in BridgesFor(s)}]
           /\ p \in Sensors
<1>1. publishSensor(o, s) = [o EXCEPT !.bridges = BridgesFor(s),
                                      !.online = {Service(bridge) : bridge \in BridgesFor(s)}]
    BY DEF publishSensor
<1>2. /\ BridgesFor(s) \in SUBSET Bridges
      /\ {Service(bridge) : bridge \in BridgesFor(s)} \in SUBSET Services
    BY BridgesForType
<1> QED BY <1>1, <1>2 DEF Sensors

(* A sensor without settings, and the sensor the process starts with.      *)
LEMMA NoSettingsType == NoSettings \in Settings
BY DEF NoSettings, NewSettings, Settings

(* The sensor that AcSensorUpdater starts to search.                       *)
LEMMA NewSensorFits == Fits(NewSensor)
BY NoSettingsType DEF Fits, NewSensor, Sensors, Consistent

(* Without bridges there are no services.                                  *)
LEMMA NoBridges ==
    ASSUME NEW o, Fits(o), o.connection \in {"Searched", "Detected"}
    PROVE  o.bridges = {} /\ o.online = {}
BY DEF Fits

(* onDeviceFound.                                                          *)
LEMMA FoundFits ==
    ASSUME NEW o, Fits(o), o.connection = "Searched", NEW m \in Meters
    PROVE  LET p == onDeviceFound(o, m) IN
           Fits(p) /\ p.hasSettings /\ p.settings.serial = m.serial
<1> DEFINE new == NewSettings(m.serial, m.multiphase)
           call == setIsMultiphase(Call(new), m.multiphase)
           p == onDeviceFound(o, m)
<1>1. m.serial \in Serials /\ m.multiphase \in BOOLEAN
    BY MediatorAssumption DEF MediatorAssumption
<1>2. new \in Settings /\ Consistent(new) /\ new.serial = m.serial
    BY <1>1 DEF NewSettings, Settings, Consistent
<1>3. Informs(call, new)
    BY <1>1, <1>2, IsMultiphaseInforms
<1>4. call.settings \in Settings /\ Consistent(call.settings) /\ call.settings.serial = m.serial
    BY <1>2, <1>3 DEF Informs, Sane, CallModels
<1>5. p = [o EXCEPT !.connection = "Detected", !.hasSettings = TRUE, !.settings = call.settings]
    BY DEF onDeviceFound
<1>6. o \in Sensors /\ o.bridges = {} /\ o.online = {}
    BY NoBridges DEF Fits
<1> HIDE DEF p, call
<1>7. p \in Sensors
    BY <1>4, <1>5, <1>6 DEF Sensors
<1>8. /\ p.bridges = {} /\ p.online = {} /\ p.connection = "Detected"
      /\ p.hasSettings /\ p.settings = call.settings
    BY <1>5, <1>6 DEF Sensors
<1>9. Fits(p)
    BY <1>4, <1>7, <1>8 DEF Fits
<1> QED BY <1>4, <1>8, <1>9 DEF p

(* onDeviceInitialized.                                                    *)
LEMMA InitializedFits ==
    ASSUME NEW o, Fits(o), o.connection = "Detected"
    PROVE  LET p == onDeviceInitialized(o) IN
           Fits(p) /\ p.hasSettings /\ p.settings = o.settings
<1> DEFINE B == BridgesFor(o.settings)
           S == {Service(bridge) : bridge \in B}
           q == publishSensor(o, o.settings)
           p == onDeviceInitialized(o)
<1>1. o \in Sensors /\ o.settings \in Settings /\ o.hasSettings /\ Consistent(o.settings)
    BY DEF Fits, Sensors
<1>2. q = [o EXCEPT !.bridges = B, !.online = S] /\ q \in Sensors
    BY <1>1, NoBridges, PublishFits
<1>3. p = [q EXCEPT !.connection = "Connected", !.pvConnection = "Connected"]
    BY DEF onDeviceInitialized
<1> HIDE DEF p, q, B, S
<1>4. p \in Sensors
    BY <1>2, <1>3 DEF Sensors
<1>5. /\ p.bridges = B /\ p.online = S /\ p.connection = "Connected"
      /\ p.hasSettings = o.hasSettings /\ p.settings = o.settings
    BY <1>1, <1>2, <1>3 DEF Sensors
<1>6. Fits(p)
    BY <1>1, <1>4, <1>5 DEF Fits, B, S
<1> QED BY <1>1, <1>5, <1>6 DEF p

(* onConnectionLost: the service of the sensor goes offline, that of L2    *)
(* stays with its bridge.                                                  *)
LEMMA LoseFits ==
    ASSUME NEW o, Fits(o)
    PROVE  Fits(loseConnection(o)) /\ ~loseConnection(o).hasSettings
<1> DEFINE rest == o.bridges \ MainBridges(o)
           off == {Service(bridge) : bridge \in MainBridges(o)}
           p == loseConnection(o)
<1>1. o \in Sensors /\ o.online = {Service(bridge) : bridge \in o.bridges}
    BY DEF Fits
<1>2. p = [o EXCEPT !.bridges = rest, !.online = o.online \ off,
                    !.connection = "Disconnected", !.pvConnection = "Disconnected",
                    !.hasSettings = FALSE, !.settings = NoSettings, !.measuring = FALSE]
    BY DEF loseConnection, deleteBridges
<1>3. \A b, c : Service(b) = Service(c) => b.secondary = c.secondary
    BY DEF Service
<1>4. o.online \ off = {Service(bridge) : bridge \in rest}
    BY <1>1, <1>3 DEF MainBridges
<1>5. \A bridge \in rest : bridge.secondary
    BY DEF MainBridges
<1>6. rest \in SUBSET Bridges /\ o.online \ off \in SUBSET Services
    BY <1>1 DEF Sensors
<1> HIDE DEF p, rest, off
<1>7. p \in Sensors
    BY <1>1, <1>2, <1>6, NoSettingsType DEF Sensors
<1>8. /\ p.bridges = rest /\ p.online = o.online \ off /\ p.connection = "Disconnected"
      /\ ~p.hasSettings
    BY <1>1, <1>2 DEF Sensors
<1>9. Fits(p)
    BY <1>4, <1>5, <1>7, <1>8 DEF Fits
<1> QED BY <1>8, <1>9 DEF p

(* The event loop deletes the bridge of L2.                                *)
LEMMA DeferredFits ==
    ASSUME NEW o, Fits(o), Doomed(o) # {}
    PROVE  LET p == deleteBridges(o, Doomed(o)) IN Fits(p) /\ ~p.hasSettings
<1> DEFINE p == deleteBridges(o, Doomed(o))
<1>1. o \in Sensors /\ o.online = {Service(bridge) : bridge \in o.bridges}
    BY DEF Fits
<1>2. ~o.hasSettings /\ Doomed(o) = o.bridges
    BY DEF Doomed
<1>3. o.bridges \ o.bridges = {} /\ o.online \ o.online = {}
    OBVIOUS
<1>4. p = [o EXCEPT !.bridges = {}, !.online = {}]
    BY <1>1, <1>2, <1>3 DEF deleteBridges
<1> HIDE DEF p
<1>5. p \in Sensors
    BY <1>1, <1>4 DEF Sensors
<1>6. /\ p.bridges = {} /\ p.online = {} /\ p.connection = o.connection
      /\ p.hasSettings = o.hasSettings
    BY <1>1, <1>4 DEF Sensors
<1>7. o.connection # "Connected"
    BY <1>2 DEF Fits
<1>8. Fits(p)
    <2>1. o.hasSettings <=> o.connection \in {"Detected", "Connected"}
        BY DEF Fits
    <2>2. p.online = {Service(bridge) : bridge \in p.bridges}
        BY <1>6
    <2> QED BY <1>2, <1>5, <1>6, <1>7, <2>1, <2>2 DEF Fits
<1> QED BY <1>2, <1>6, <1>8 DEF p

(* The sensor is searched again, when the bridge of L2 has been deleted.   *)
LEMMA AgainFits ==
    ASSUME NEW o, Fits(o), o.connection = "Disconnected", Doomed(o) = {}
    PROVE  LET p == [o EXCEPT !.connection = "Searched"] IN Fits(p) /\ ~p.hasSettings
<1> DEFINE p == [o EXCEPT !.connection = "Searched"]
<1>1. o \in Sensors /\ ~o.hasSettings /\ o.online = {Service(bridge) : bridge \in o.bridges}
    BY DEF Fits
<1>2. o.bridges = {}
    BY <1>1 DEF Doomed
<1>3. p \in Sensors
    BY <1>1 DEF Sensors
<1>4. /\ p.connection = "Searched" /\ p.bridges = o.bridges /\ p.online = o.online
      /\ p.hasSettings = o.hasSettings
    BY <1>1 DEF Sensors
<1> HIDE DEF p
<1> QED BY <1>1, <1>2, <1>3, <1>4 DEF Fits, p

(* startMeasurements is no business of the bridges.                        *)
LEMMA MeasuringFits ==
    ASSUME NEW o, Fits(o)
    PROVE  LET p == [o EXCEPT !.measuring = TRUE] IN
           Fits(p) /\ p.hasSettings = o.hasSettings /\ p.settings = o.settings
<1> DEFINE p == [o EXCEPT !.measuring = TRUE]
<1>1. o \in Sensors
    BY DEF Fits
<1>2. p \in Sensors
    BY <1>1 DEF Sensors
<1>3. /\ p.connection = o.connection /\ p.bridges = o.bridges /\ p.online = o.online
      /\ p.hasSettings = o.hasSettings /\ p.settings = o.settings
    BY <1>1 DEF Sensors
<1> HIDE DEF p
<1>4. Fits(p)
    BY <1>2, <1>3 DEF Fits
<1> QED BY <1>3, <1>4 DEF p

(* Settings that show the same call for the same bridges.                  *)
LEMMA VisibleBridges ==
    ASSUME NEW s \in Settings, NEW t \in Settings, Visible(s) = Visible(t)
    PROVE  BridgesFor(s) = BridgesFor(t)
<1>1. /\ \A u \in Settings : /\ Visible(u).role = u.role /\ Visible(u).l2Role = u.l2Role
                             /\ Visible(u).piggyEnabled = u.piggyEnabled
                             /\ Visible(u).phaseCount = phaseCount(u)
    BY DEF Visible, Settings
<1> QED BY <1>1 DEF BridgesFor

(* A setting of a meter that is found changes: what is published is what   *)
(* the settings call for afterwards, however many signals there were.      *)
LEMMA ChangeFits ==
    ASSUME NEW o, Fits(o), o.hasSettings, NEW call \in Calls(o.settings)
    PROVE  LET p == changeSettings(o, call) IN
           Fits(p) /\ p.hasSettings /\ p.settings.serial = o.settings.serial
<1> DEFINE p == changeSettings(o, call)
           changed == [o EXCEPT !.settings = call.settings]
           B == BridgesFor(call.settings)
           S == {Service(bridge) : bridge \in B}
<1>1. o \in Sensors /\ o.settings \in Settings /\ Consistent(o.settings)
    BY DEF Fits, Sensors
<1>2. Informs(call, o.settings)
    BY <1>1, CallsInform
<1>3. /\ call.settings \in Settings /\ Consistent(call.settings)
      /\ call.settings.serial = o.settings.serial
    BY <1>2 DEF Informs, Sane, CallModels
<1>4. changed \in Sensors
    BY <1>1, <1>3 DEF Sensors
<1>5. /\ changed.settings = call.settings /\ changed.connection = o.connection
      /\ changed.hasSettings = o.hasSettings /\ changed.bridges = o.bridges
      /\ changed.online = o.online
    BY <1>1 DEF Sensors
<1>6. \/ p = changed
      \/ p = publishSensor(deleteBridges(changed, changed.bridges), call.heard[Len(call.heard)])
    BY DEF changeSettings, onServiceTypeChanged
<1> HIDE DEF p, changed, B, S
<1>7. CASE o.connection = "Detected"
    <2>1. MainBridges(changed) = {}
        BY <1>5, <1>7, NoBridges DEF MainBridges
    <2>2. p = changed
        BY <2>1 DEF p, changeSettings, onServiceTypeChanged, changed
    <2> QED BY <1>3, <1>4, <1>5, <1>7, <2>2 DEF Fits, p
<1>8. CASE o.connection = "Connected" /\ call.heard = <<>>
    <2>1. p = changed
        BY <1>8 DEF p, changeSettings, changed
    <2>2. Visible(call.settings) = Visible(o.settings)
        BY <1>2, <1>8 DEF Informs, Told
    <2>3. changed.bridges = BridgesFor(changed.settings)
        BY <1>1, <1>3, <1>5, <1>8, <2>2, VisibleBridges DEF Fits
    <2> QED BY <1>3, <1>4, <1>5, <1>8, <2>1, <2>3 DEF Fits, p
<1>9. CASE o.connection = "Connected" /\ call.heard # <<>>
    <2>1. call.heard[Len(call.heard)] = call.settings
        BY <1>2, <1>9 DEF Informs, Told
    <2>2. MainBridges(changed) # {}
        BY <1>1, <1>5, <1>9, BridgesForType DEF MainBridges, Fits
    <2> DEFINE bare == deleteBridges(changed, changed.bridges)
    <2>3. p = publishSensor(bare, call.settings)
        BY <1>9, <2>1, <2>2 DEF p, changeSettings, onServiceTypeChanged, changed
    <2>4. changed.online = {Service(bridge) : bridge \in changed.bridges}
        BY <1>5 DEF Fits
    <2>5. changed.bridges \ changed.bridges = {} /\ changed.online \ changed.online = {}
        OBVIOUS
    <2>6. bare = [changed EXCEPT !.bridges = {}, !.online = {}]
        BY <2>4, <2>5 DEF deleteBridges
    <2> HIDE DEF bare
    <2>7. bare \in Sensors /\ bare.bridges = {} /\ bare.online = {}
        BY <1>4, <2>6 DEF Sensors
    <2>8. p = [bare EXCEPT !.bridges = B, !.online = S] /\ p \in Sensors
        BY <1>3, <2>3, <2>7, PublishFits DEF B, S
    <2>9. /\ p.bridges = B /\ p.online = S /\ p.settings = call.settings
          /\ p.connection = "Connected" /\ p.hasSettings
        BY <1>4, <1>5, <1>9, <2>6, <2>7, <2>8 DEF Sensors
    <2> QED BY <1>3, <2>8, <2>9 DEF Fits, B, S, p
<1>10. o.connection \in {"Detected", "Connected"}
    BY DEF Fits
<1> QED BY <1>7, <1>8, <1>9, <1>10
-----------------------------------------------------------------------------
(* The inductive invariant.                                                *)

(* The list of devices in memory is what is stored, once it has been read. *)
Remembered ==
    /\ deviceIds # {} => deviceIds = storedIds
    /\ \A a \in Addresses :
          sensors[a].hasSettings => sensors[a].settings.serial \in storedIds

Inv ==
    /\ TypeOK
    /\ \A a \in Addresses : Fits(sensors[a])
    /\ Remembered

(* A sensor is replaced by one that fits, whose meter is known.            *)
LEMMA Replace ==
    ASSUME Inv, NEW a \in Addresses, NEW p, Fits(p),
           p.hasSettings => p.settings.serial \in storedIds,
           sensors' = [sensors EXCEPT ![a] = p]
    PROVE  /\ sensors' \in [Addresses -> Sensors]
           /\ \A b \in Addresses : Fits(sensors[b])'
           /\ \A b \in Addresses :
                 sensors'[b].hasSettings => sensors'[b].settings.serial \in storedIds
<1>1. p \in Sensors /\ sensors \in [Addresses -> Sensors]
    BY DEF Fits, Inv, TypeOK
<1>2. \A b \in Addresses : sensors'[b] = IF b = a THEN p ELSE sensors[b]
    BY <1>1
<1>3. \A b \in Addresses : Fits(sensors[b])
    BY DEF Inv
<1>4. \A b \in Addresses : Fits(sensors'[b])
    BY <1>2, <1>3
<1>5. \A b \in Addresses :
         sensors'[b].hasSettings => sensors'[b].settings.serial \in storedIds
    BY <1>2 DEF Inv, Remembered
<1> QED BY <1>1, <1>4, <1>5

(* registerDevice adds the meter to what is stored, and forgets none.      *)
LEMMA RegisterRemembers ==
    ASSUME Inv, NEW serial \in Serials, registerDevice(serial)
    PROVE  /\ storedIds' = storedIds \cup {serial}
           /\ deviceIds' = storedIds'
           /\ storedIds' \in SUBSET Serials
<1>1. LoadedIds = storedIds
    BY DEF LoadedIds, Inv, Remembered
<1>2. storedIds \in SUBSET Serials
    BY DEF Inv, TypeOK
<1> QED BY <1>1, <1>2 DEF registerDevice

(* The search histories stay sets of addresses.                            *)
LEMMA SearchesType ==
    ASSUME Inv, NEW a \in Addresses, NEW S \in SUBSET Addresses
    PROVE  /\ EndSearch(a) \in [Addresses -> SUBSET Addresses]
           /\ [EndSearch(a) EXCEPT ![a] = S] \in [Addresses -> SUBSET Addresses]
           /\ [searches EXCEPT ![a] = S] \in [Addresses -> SUBSET Addresses]
BY DEF Inv, TypeOK, EndSearch

(* It holds when the process starts for the first time.                    *)
LEMMA InitInv == Init => Inv
<1> SUFFICES ASSUME Init PROVE Inv
    OBVIOUS
<1>1. \A a \in Addresses : sensors[a] = NewSensor
    BY DEF Init
<1>2. NewSensor \in Sensors /\ ~NewSensor.hasSettings
    BY NewSensorFits DEF Fits, NewSensor
<1>3. TypeOK
    BY <1>2 DEF Init, TypeOK
<1> QED BY <1>1, <1>2, <1>3, NewSensorFits DEF Inv, Init, Remembered

(* Every step keeps it, and no step removes a device from what is stored.  *)
LEMMA StepInv == Inv /\ [Next]_vars => Inv' /\ storedIds \subseteq storedIds'
<1> SUFFICES ASSUME Inv, [Next]_vars PROVE Inv' /\ storedIds \subseteq storedIds'
    OBVIOUS
<1> USE DEF Inv
<1>1. CASE Found
    <2> PICK a \in Addresses : DeviceFound(a)
        BY <1>1 DEF Found
    <2> PICK m \in Meters : /\ sensors' = [sensors EXCEPT ![a] = onDeviceFound(sensors[a], m)]
                            /\ Updater(a)!Detect /\ registerDevice(m.serial)
        BY DEF DeviceFound
    <2>1. m.serial \in Serials
        BY MediatorAssumption DEF MediatorAssumption
    <2>2. sensors[a].connection = "Searched"
        BY DEF Updater!Detect
    <2> DEFINE p == onDeviceFound(sensors[a], m)
    <2>3. Fits(p) /\ p.settings.serial = m.serial
        BY <2>2, FoundFits
    <2> HIDE DEF p
    <2>4. /\ storedIds' = storedIds \cup {m.serial} /\ deviceIds' = storedIds'
          /\ storedIds' \in SUBSET Serials
        BY <2>1, RegisterRemembers
    <2>5. \A b \in Addresses : sensors'[b] = IF b = a THEN p ELSE sensors[b]
        BY DEF TypeOK, p
    <2>6. p \in Sensors
        BY <2>3 DEF Fits
    <2>7. TypeOK'
        BY <2>4, <2>6, SearchesType DEF TypeOK, DeviceFound, p
    <2>8. \A b \in Addresses : Fits(sensors'[b])
        BY <2>3, <2>5
    <2>9. Remembered'
        BY <2>3, <2>4, <2>5 DEF Remembered
    <2> QED BY <2>4, <2>7, <2>8, <2>9
<1>2. ASSUME NEW a \in Addresses, DeviceSettingsInitialized(a)
      PROVE  Inv' /\ storedIds \subseteq storedIds'
    <2> DEFINE p == [sensors[a] EXCEPT !.measuring = TRUE]
    <2>1. Fits(p) /\ (p.hasSettings => p.settings.serial \in storedIds)
        BY MeasuringFits DEF Remembered
    <2>2. sensors' = [sensors EXCEPT ![a] = p] /\ UNCHANGED <<searches, deviceIds, storedIds, running>>
        BY <1>2 DEF DeviceSettingsInitialized
    <2> HIDE DEF p
    <2> QED BY <2>1, <2>2, Replace DEF TypeOK, Remembered
<1>3. ASSUME NEW a \in Addresses, DeviceInitialized(a)
      PROVE  Inv' /\ storedIds \subseteq storedIds'
    <2> DEFINE p == onDeviceInitialized(sensors[a])
    <2>1. sensors[a].connection = "Detected"
        BY <1>3 DEF DeviceInitialized, Updater!Connect
    <2>2. sensors[a].hasSettings
        BY <2>1 DEF Fits
    <2>3. Fits(p) /\ (p.hasSettings => p.settings.serial \in storedIds)
        BY <2>1, <2>2, InitializedFits DEF Remembered
    <2>4. sensors' = [sensors EXCEPT ![a] = p] /\ UNCHANGED <<searches, deviceIds, storedIds, running>>
        BY <1>3 DEF DeviceInitialized
    <2> HIDE DEF p
    <2> QED BY <2>3, <2>4, Replace DEF TypeOK, Remembered
<1>4. ASSUME NEW a \in Addresses, ConnectionLost(a)
      PROVE  Inv' /\ storedIds \subseteq storedIds'
    <2> DEFINE p == loseConnection(sensors[a])
               S == {b \in Addresses \ {a} : Searched(b)}
    <2>1. Fits(p) /\ (p.hasSettings => p.settings.serial \in storedIds)
        BY LoseFits
    <2>2. /\ sensors' = [sensors EXCEPT ![a] = p] /\ UNCHANGED <<deviceIds, storedIds>>
          /\ searches' = [EndSearch(a) EXCEPT ![a] = S]
        BY <1>4 DEF ConnectionLost
    <2>3. running' \in BOOLEAN
        BY <1>4 DEF ConnectionLost, AllDisconnected
    <2>4. S \in SUBSET Addresses
        OBVIOUS
    <2> HIDE DEF p, S
    <2>5. searches' \in [Addresses -> SUBSET Addresses]
        BY <2>2, <2>4, SearchesType
    <2> QED BY <2>1, <2>2, <2>3, <2>5, Replace DEF TypeOK, Remembered
<1>5. ASSUME NEW a \in Addresses, DeferredDelete(a)
      PROVE  Inv' /\ storedIds \subseteq storedIds'
    <2> DEFINE p == deleteBridges(sensors[a], Doomed(sensors[a]))
    <2>1. Fits(p) /\ (p.hasSettings => p.settings.serial \in storedIds)
        BY <1>5, DeferredFits DEF DeferredDelete
    <2>2. sensors' = [sensors EXCEPT ![a] = p] /\ UNCHANGED <<searches, deviceIds, storedIds, running>>
        BY <1>5 DEF DeferredDelete
    <2> HIDE DEF p
    <2> QED BY <2>1, <2>2, Replace DEF TypeOK, Remembered
<1>6. ASSUME NEW a \in Addresses, SearchAgain(a)
      PROVE  Inv' /\ storedIds \subseteq storedIds'
    <2> DEFINE p == [sensors[a] EXCEPT !.connection = "Searched"]
    <2>1. Fits(p) /\ (p.hasSettings => p.settings.serial \in storedIds)
        BY <1>6, AgainFits DEF SearchAgain, Updater!Search
    <2>2. /\ sensors' = [sensors EXCEPT ![a] = p] /\ UNCHANGED <<deviceIds, storedIds, running>>
          /\ searches' = [searches EXCEPT ![a] = {}]
        BY <1>6 DEF SearchAgain
    <2> HIDE DEF p
    <2>3. searches' \in [Addresses -> SUBSET Addresses]
        BY <2>2, SearchesType
    <2> QED BY <2>1, <2>2, <2>3, Replace DEF TypeOK, Remembered
<1>7. ASSUME NEW a \in Addresses, SettingChanged(a)
      PROVE  Inv' /\ storedIds \subseteq storedIds'
    <2> PICK call \in Calls(sensors[a].settings) :
            sensors' = [sensors EXCEPT ![a] = changeSettings(sensors[a], call)]
        BY <1>7 DEF SettingChanged
    <2> DEFINE p == changeSettings(sensors[a], call)
    <2>1. sensors[a].hasSettings /\ UNCHANGED <<searches, deviceIds, storedIds, running>>
        BY <1>7 DEF SettingChanged
    <2>2. Fits(p) /\ (p.hasSettings => p.settings.serial \in storedIds)
        BY <2>1, ChangeFits DEF Remembered
    <2> HIDE DEF p
    <2>3. sensors' = [sensors EXCEPT ![a] = p]
        BY DEF p
    <2> QED BY <2>1, <2>2, <2>3, Replace DEF TypeOK, Remembered
<1>8. CASE SerialEvent
    BY <1>8 DEF SerialEvent, TypeOK, Remembered, Fits
<1>9. CASE Restart
    <2>1. \A a \in Addresses : sensors'[a] = NewSensor
        BY <1>9 DEF Restart
    <2>2. NewSensor \in Sensors /\ ~NewSensor.hasSettings
        BY NewSensorFits DEF Fits, NewSensor
    <2>3. TypeOK'
        BY <1>9, <2>2 DEF Restart, TypeOK
    <2> QED BY <1>9, <2>1, <2>2, <2>3, NewSensorFits DEF Restart, Remembered
<1>10. CASE UNCHANGED vars
    BY <1>10 DEF vars, TypeOK, Remembered, Fits
<1> QED BY <1>1, <1>2, <1>3, <1>4, <1>5, <1>6, <1>7, <1>8, <1>9, <1>10 DEF Next

(* Inv holds in every state the port reaches.                              *)
THEOREM Invariance == Spec => []Inv
BY InitInv, StepInv, PTL DEF Spec

(* Type correctness, for every number of sensors, meters and roles.        *)
THEOREM TypeCorrect == Spec => []TypeOK
BY Invariance, PTL DEF Inv

(* What is on D-Bus is what the sensors are, in every state.               *)
THEOREM ServicesFollowSensors == Spec => []ServicesMatchSensors
<1>1. Inv => ServicesMatchSensors
    BY DEF Inv, Fits, ServicesMatchSensors
<1> QED BY <1>1, Invariance, PTL

(* No setter with any value leaves the slots of the settings with          *)
(* something inconsistent or out of date.                                  *)
THEOREM ListenersKnow == Spec => []ListenersInformed
<1>1. Inv => ListenersInformed
    <2> SUFFICES ASSUME Inv, NEW a \in Addresses, sensors[a].hasSettings,
                        NEW call \in Calls(sensors[a].settings)
                 PROVE  /\ \A n \in DOMAIN call.heard : Consistent(call.heard[n])
                        /\ \/ Visible(call.settings) = Visible(sensors[a].settings)
                           \/ /\ call.heard # <<>>
                              /\ call.heard[Len(call.heard)] = call.settings
        BY DEF ListenersInformed
    <2>1. sensors[a].settings \in Settings /\ Consistent(sensors[a].settings)
        BY DEF Inv, Fits, Sensors
    <2>2. Informs(call, sensors[a].settings)
        BY <2>1, CallsInform
    <2>3. DOMAIN call.heard = 1 .. Len(call.heard)
        BY <2>2 DEF Informs, Sane, CallModels
    <2> QED BY <2>2, <2>3 DEF Informs, Sane, Told
<1> QED BY <1>1, Invariance, PTL

(* A meter that has been found stays in the stored list, whatever happens  *)
(* to the process.                                                         *)
THEOREM DevicesStayRemembered == Spec => DevicesRemembered
<1>1. Inv' => \A a \in Addresses :
                 sensors'[a].hasSettings => sensors'[a].settings.serial \in storedIds'
    BY DEF Inv, Remembered
<1>2. Inv /\ [Next]_vars =>
         [ /\ storedIds \subseteq storedIds'
           /\ \A a \in Addresses :
                 sensors'[a].hasSettings => sensors'[a].settings.serial \in storedIds' ]_vars
    BY <1>1, StepInv
<1> QED BY <1>2, InitInv, StepInv, Invariance, PTL DEF Spec, DevicesRemembered
=============================================================================
