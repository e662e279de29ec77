-------------------------- MODULE DBusBridgeProofs --------------------------
(***************************************************************************)
(* Theorems about DBusBridge, for all names and roles and any number of    *)
(* writes and losses: the three copies of each setting agree when nothing  *)
(* is under way, and what is not marked as changed is published, as long as*)
(* no property of the meter is shown by two items.                         *)
(***************************************************************************)
EXTENDS DBusBridge, SequenceTheorems, WellFoundedInduction, TLAPS

-----------------------------------------------------------------------------
(* The setters of AcSensorSettings: each leaves its own property with the  *)
(* value it was given, and the role alone.                                 *)
CallRecords == [settings : Settings, heard : Seq(Settings)]

SameRole(c, d) == d.settings.role = c.settings.role

LEMMA FieldsTyped ==
    ASSUME NEW s \in Settings
    PROVE  /\ s.isMultiphase \in BOOLEAN /\ s.piggyEnabled \in BOOLEAN
           /\ s.phaseCount \in 0 .. 3 /\ s.role \in Roles \cup {NoRole}
           /\ phaseCount(s) \in 0 .. 3
BY DEF Settings, phaseCount

LEMMA EmitCalls ==
    ASSUME NEW c \in CallRecords
    PROVE  emit(c) \in CallRecords /\ emit(c).settings = c.settings
<1>1. c.settings \in Settings /\ c.heard \in Seq(Settings)
  BY DEF CallRecords
<1>2. Append(c.heard, c.settings) \in Seq(Settings)
  BY <1>1, AppendProperties
<1> QED
  BY <1>1, <1>2 DEF emit, CallRecords

(* One field of the settings is set.                                       *)
LEMMA MultiphaseSet ==
    ASSUME NEW s \in Settings, NEW b \in BOOLEAN, NEW t, t = [s EXCEPT !.isMultiphase = b]
    PROVE  /\ t \in Settings /\ t.isMultiphase = b
           /\ t.supportMultiphase = s.supportMultiphase
           /\ t.phaseCount = s.phaseCount /\ t.piggyEnabled = s.piggyEnabled
           /\ t.role = s.role
BY DEF Settings

LEMMA PhaseCountSet ==
    ASSUME NEW s \in Settings, NEW n \in 0 .. 3, NEW t, t = [s EXCEPT !.phaseCount = n]
    PROVE  /\ t \in Settings /\ t.phaseCount = n
           /\ t.supportMultiphase = s.supportMultiphase
           /\ t.piggyEnabled = s.piggyEnabled /\ t.isMultiphase = s.isMultiphase
           /\ t.role = s.role
BY DEF Settings

LEMMA RoleSet ==
    ASSUME NEW s \in Settings, NEW r \in Roles \cup {NoRole}, NEW t, t = [s EXCEPT !.role = r]
    PROVE  t \in Settings /\ t.role = r
BY DEF Settings

LEMMA CallSet ==
    ASSUME NEW c \in CallRecords, NEW t \in Settings
    PROVE  /\ [c EXCEPT !.settings = t] \in CallRecords
           /\ [c EXCEPT !.settings = t].settings = t
BY DEF CallRecords

LEMMA DisableCalls ==
    ASSUME NEW c \in CallRecords
    PROVE  LET d == disablePiggy(c)
           IN  /\ d \in CallRecords /\ SameRole(c, d)
               /\ d.settings.piggyEnabled = FALSE
               /\ d.settings.isMultiphase = c.settings.isMultiphase
               /\ d.settings.phaseCount = c.settings.phaseCount
<1> DEFINE s == c.settings
           t == [s EXCEPT !.piggyEnabled = FALSE]
           e == [c EXCEPT !.settings = t]
<1>1. s \in Settings /\ s.piggyEnabled \in BOOLEAN
  BY FieldsTyped DEF CallRecords
<1>2. /\ t \in Settings /\ t.piggyEnabled = FALSE /\ t.phaseCount = s.phaseCount
      /\ t.isMultiphase = s.isMultiphase /\ t.role = s.role
  BY <1>1 DEF Settings
<1>3. [c EXCEPT !.settings.piggyEnabled = FALSE] = e
  OBVIOUS
<1> HIDE DEF t
<1>4. e \in CallRecords /\ e.settings = t
  BY <1>2, CallSet
<1> HIDE DEF e
<1>5. emit(e) \in CallRecords /\ emit(e).settings = t
  BY <1>4, EmitCalls
<1> QED
  BY <1>1, <1>2, <1>3, <1>5 DEF disablePiggy, SameRole

LEMMA UpdateCalls ==
    ASSUME NEW c \in CallRecords, NEW old
    PROVE  LET d == updatePhaseCount(c, old)
               n == phaseCount(c.settings)
           IN  /\ d \in CallRecords /\ SameRole(c, d)
               /\ d.settings.isMultiphase = c.settings.isMultiphase
               /\ d.settings.phaseCount = c.settings.phaseCount
               /\ n = old \/ n <= 1 => d.settings.piggyEnabled = c.settings.piggyEnabled
<1>1. /\ disablePiggy(c) \in CallRecords
      /\ disablePiggy(c).settings.role = c.settings.role
      /\ disablePiggy(c).settings.isMultiphase = c.settings.isMultiphase
      /\ disablePiggy(c).settings.phaseCount = c.settings.phaseCount
  BY DisableCalls DEF SameRole
<1>2. /\ emit(disablePiggy(c)) \in CallRecords
      /\ emit(disablePiggy(c)).settings = disablePiggy(c).settings
  BY <1>1, EmitCalls
<1>3. emit(c) \in CallRecords /\ emit(c).settings = c.settings
  BY EmitCalls
<1>4. phaseCount(c.settings) \in 0 .. 3
  BY FieldsTyped DEF CallRecords
<1>5. CASE phaseCount(c.settings) = old
  BY <1>5 DEF updatePhaseCount, SameRole
<1>6. CASE phaseCount(c.settings) # old /\ phaseCount(c.settings) > 1
  <2>1. updatePhaseCount(c, old) = emit(disablePiggy(c))
    BY <1>6 DEF updatePhaseCount
  <2> QED
    BY <1>1, <1>2, <1>4, <1>6, <2>1 DEF SameRole
<1>7. CASE phaseCount(c.settings) # old /\ ~(phaseCount(c.settings) > 1)
  <2>1. updatePhaseCount(c, old) = emit(c)
    BY <1>7 DEF updatePhaseCount
  <2> QED
    BY <1>3, <2>1 DEF SameRole
<1> QED
  BY <1>5, <1>6, <1>7

LEMMA MultiphaseCalls ==
    ASSUME NEW c \in CallRecords, NEW b \in BOOLEAN
    PROVE  LET d == setIsMultiphase(c, b)
           IN  /\ d \in CallRecords /\ SameRole(c, d)
               /\ d.settings.isMultiphase = b
               /\ d.settings.phaseCount = c.settings.phaseCount
               /\ ~b => d.settings.piggyEnabled = c.settings.piggyEnabled
<1> DEFINE s == c.settings
           t == [s EXCEPT !.isMultiphase = b]
           e == [c EXCEPT !.settings = t]
<1>1. s \in Settings
  BY DEF CallRecords
<1>2. /\ t \in Settings /\ t.isMultiphase = b /\ t.phaseCount = s.phaseCount
      /\ t.supportMultiphase = s.supportMultiphase
      /\ t.piggyEnabled = s.piggyEnabled /\ t.role = s.role
  BY <1>1, MultiphaseSet
<1>3. [c EXCEPT !.settings.isMultiphase = b] = e
  OBVIOUS
<1> HIDE DEF t
<1>4. e \in CallRecords /\ e.settings = t
  BY <1>2, CallSet
<1>5. setIsMultiphase(c, b) = updatePhaseCount(e, phaseCount(s))
  BY <1>3 DEF setIsMultiphase
<1> HIDE DEF e
<1>6. ~b => phaseCount(t) = phaseCount(s) \/ phaseCount(t) <= 1
  BY <1>1, <1>2, FieldsTyped DEF phaseCount
<1> QED
  BY <1>2, <1>4, <1>5, <1>6, UpdateCalls DEF SameRole

LEMMA BoundedInRange ==
    ASSUME NEW n \in Int
    PROVE  Bounded(n) \in 0 .. 3 /\ (n \in 0 .. 3 => Bounded(n) = n)
BY DEF Bounded

LEMMA PhaseCountCalls ==
    ASSUME NEW c \in CallRecords, NEW n \in Int
    PROVE  LET d == setPhaseCount(c, n)
           IN  /\ d \in CallRecords /\ SameRole(c, d)
               /\ d.settings.phaseCount = Bounded(n)
               /\ n = 1 => d.settings.piggyEnabled = c.settings.piggyEnabled
<1> DEFINE s == c.settings
           t == [s EXCEPT !.phaseCount = Bounded(n)]
           e == [c EXCEPT !.settings = t]
<1>1. s \in Settings /\ Bounded(n) \in 0 .. 3 /\ (n = 1 => Bounded(n) = 1)
  BY BoundedInRange DEF CallRecords
<1>2. /\ t \in Settings /\ t.phaseCount = Bounded(n)
      /\ t.piggyEnabled = s.piggyEnabled /\ t.role = s.role
  BY <1>1, PhaseCountSet
<1>3. [c EXCEPT !.settings.phaseCount = Bounded(n)] = e
  OBVIOUS
<1> HIDE DEF t
<1>4. e \in CallRecords /\ e.settings = t
  BY <1>2, CallSet
<1>5. setPhaseCount(c, n) = updatePhaseCount(e, phaseCount(s))
  BY <1>3 DEF setPhaseCount
<1> HIDE DEF e
<1>6. n = 1 => phaseCount(t) <= 1
  BY <1>1, <1>2, FieldsTyped DEF phaseCount
<1> QED
  BY <1>2, <1>4, <1>5, <1>6, UpdateCalls DEF SameRole

LEMMA EnableCalls ==
    ASSUME NEW c \in CallRecords
    PROVE  LET d == enablePiggy(c)
           IN  d \in CallRecords /\ SameRole(c, d) /\ d.settings.piggyEnabled = TRUE
<1> DEFINE s == c.settings
           t == [s EXCEPT !.piggyEnabled = TRUE]
           e == [c EXCEPT !.settings = t]
           single == setIsMultiphase(e, FALSE)
           last == IF single.settings.phaseCount > 1 THEN setPhaseCount(single, 1) ELSE single
<1>1. s \in Settings
  BY DEF CallRecords
<1>2. t \in Settings /\ t.piggyEnabled = TRUE /\ t.role = s.role
  BY <1>1 DEF Settings
<1>3. [c EXCEPT !.settings.piggyEnabled = TRUE] = e
  OBVIOUS
<1> HIDE DEF t
<1>4. e \in CallRecords /\ e.settings = t
  BY <1>2, CallSet
<1>5. enablePiggy(c) = emit(last)
  BY <1>3 DEF enablePiggy
<1> HIDE DEF e
<1>6. single \in CallRecords /\ single.settings.role = s.role /\ single.settings.piggyEnabled = TRUE
  BY <1>2, <1>4, MultiphaseCalls DEF SameRole
<1> HIDE DEF single
<1>7. last \in CallRecords /\ last.settings.role = s.role /\ last.settings.piggyEnabled = TRUE
  BY <1>6, PhaseCountCalls DEF SameRole
<1> HIDE DEF last
<1> QED
  BY <1>5, <1>7, EmitCalls DEF SameRole

LEMMA PiggyCalls ==
    ASSUME NEW c \in CallRecords, NEW b \in BOOLEAN
    PROVE  LET d == setPiggyEnabled(c, b)
           IN  d \in CallRecords /\ SameRole(c, d) /\ d.settings.piggyEnabled = b
<1>1. c.settings.piggyEnabled \in BOOLEAN
  BY FieldsTyped DEF CallRecords
<1>2. CASE c.settings.piggyEnabled = b
  BY <1>2 DEF setPiggyEnabled, SameRole
<1>3. CASE c.settings.piggyEnabled # b /\ b
  BY <1>3, EnableCalls DEF setPiggyEnabled
<1>4. CASE c.settings.piggyEnabled # b /\ ~b
  BY <1>4, DisableCalls DEF setPiggyEnabled
<1> QED
  BY <1>2, <1>3, <1>4

LEMMA RoleCalls ==
    ASSUME NEW c \in CallRecords, NEW r \in Roles \cup {NoRole}
    PROVE  LET d == setClassAndVrmInstance(c, r)
           IN  d \in CallRecords /\ d.settings.role = r
<1> DEFINE s == c.settings
           t == [s EXCEPT !.role = r]
           e == [c EXCEPT !.settings = t]
<1>1. s \in Settings
  BY DEF CallRecords
<1>2. t \in Settings /\ t.role = r
  BY <1>1, RoleSet
<1>3. [c EXCEPT !.settings.role = r] = e
  OBVIOUS
<1> HIDE DEF t
<1>4. e \in CallRecords /\ e.settings = t
  BY <1>2, CallSet
<1> HIDE DEF e
<1> QED
  BY <1>2, <1>3, <1>4, EmitCalls DEF setClassAndVrmInstance


-----------------------------------------------------------------------------
(* Properties and their values.  Of the phases, a property has a value in  *)
(* range, whatever is stored.                                              *)
Values(n) ==
    CASE n = "customName" -> CustomNames \cup {NoName}
      [] n = "role" -> Roles \cup {NoRole}
      [] n = "phaseCount" -> 0 .. 4
      [] n \in {"isMultiphase", "piggyEnabled"} -> BOOLEAN

Properties == [customName : CustomNames \cup {NoName}, meter : Settings]

Adopted(n, v) == IF n = "phaseCount" THEN Bounded(v) ELSE v

LEMMA NamesAre ==
    Names = {"customName", "role", "isMultiphase", "phaseCount", "piggyEnabled"}
<1>1. Len(SettingNames) = 5
  BY DEF SettingNames
<1>2. 1 .. 5 = {1, 2, 3, 4, 5}
  OBVIOUS
<1>3. Names = {SettingNames[1], SettingNames[2], SettingNames[3], SettingNames[4], SettingNames[5]}
  BY <1>1, <1>2 DEF Names
<1> QED
  BY <1>3 DEF SettingNames

LEMMA PropertyTyped ==
    ASSUME NEW s \in Properties, NEW n \in Names
    PROVE  /\ Property(s, n) \in Values(n)
           /\ Adopted(n, Property(s, n)) = Property(s, n)
<1>1. s.customName \in CustomNames \cup {NoName} /\ s.meter \in Settings
  BY DEF Properties
<1>2. /\ s.meter.isMultiphase \in BOOLEAN /\ s.meter.piggyEnabled \in BOOLEAN
      /\ s.meter.phaseCount \in 0 .. 3 /\ s.meter.role \in Roles \cup {NoRole}
  BY <1>1, FieldsTyped
<1>3. CASE n = "customName"
  BY <1>1, <1>3 DEF Property, Values, Adopted
<1>4. CASE n = "role"
  BY <1>2, <1>4 DEF Property, Values, Adopted
<1>5. CASE n = "phaseCount"
  <2>1. s.meter.phaseCount \in 0 .. 4 /\ Bounded(s.meter.phaseCount) = s.meter.phaseCount
    BY <1>2, BoundedInRange
  <2> QED
    BY <1>5, <2>1 DEF Property, Values, Adopted
<1>6. CASE n = "isMultiphase"
  BY <1>2, <1>6 DEF Property, Values, Adopted
<1>7. CASE n = "piggyEnabled"
  BY <1>2, <1>7 DEF Property, Values, Adopted
<1> QED
  BY <1>3, <1>4, <1>5, <1>6, <1>7, NamesAre

(* The result of a setter, beside the custom name.                         *)
LEMMA MeterSet ==
    ASSUME NEW s \in Properties, NEW d \in CallRecords, NEW t, t = [s EXCEPT !.meter = d.settings]
    PROVE  t \in Properties /\ t.meter = d.settings /\ t.customName = s.customName
BY DEF Properties, CallRecords

LEMMA CustomNameSet ==
    ASSUME NEW s \in Properties, NEW v \in CustomNames \cup {NoName},
           NEW t, t = [s EXCEPT !.customName = v]
    PROVE  t \in Properties /\ t.customName = v
BY DEF Properties

LEMMA NewCall ==
    ASSUME NEW s \in Properties
    PROVE  Call(s.meter) \in CallRecords
<1>1. s.meter \in Settings /\ <<>> \in Seq(Settings)
  BY DEF Properties
<1> QED
  BY <1>1 DEF Call, CallRecords

(* A property that is set has the value it was set to.                     *)
LEMMA PropertySet ==
    ASSUME NEW s \in Properties, NEW n \in Names, NEW v \in Values(n),
           NEW r, r = setProperty(s, n, v)
    PROVE  /\ r.settings \in Properties
           /\ Property(r.settings, n) = Adopted(n, v)
           /\ r.heard \in BOOLEAN
<1> DEFINE c == Call(s.meter)
<1>1. c \in CallRecords
  BY NewCall
<1> HIDE DEF c
<1>2. CASE n = "customName"
  <2> DEFINE t == [s EXCEPT !.customName = v]
  <2>1. v \in CustomNames \cup {NoName}
    BY <1>2 DEF Values
  <2>2. t \in Properties /\ t.customName = v
    BY <2>1, CustomNameSet
  <2>3. r = [settings |-> t, heard |-> FALSE]
    BY <1>2 DEF setProperty
  <2>4. r.settings = t
    BY <2>3
  <2>5. r.heard = FALSE
    BY <2>3
  <2> HIDE DEF t
  <2> QED
    BY <1>2, <2>2, <2>4, <2>5 DEF Property, Adopted
<1>3. CASE n = "role"
  <2> DEFINE d == setClassAndVrmInstance(c, v)
             t == [s EXCEPT !.meter = d.settings]
  <2>1. v \in Roles \cup {NoRole}
    BY <1>3 DEF Values
  <2>2. d \in CallRecords /\ d.settings.role = v
    BY <1>1, <2>1, RoleCalls
  <2>3. r = [settings |-> t, heard |-> d.heard # <<>>]
    BY <1>3 DEF setProperty, c
  <2> HIDE DEF d
  <2>4. t \in Properties /\ t.meter = d.settings
    BY <2>2, MeterSet
  <2>5. r.settings = t
    BY <2>3
  <2>6. r.heard \in BOOLEAN
    BY <2>3
  <2> HIDE DEF t
  <2> QED
    BY <1>3, <2>2, <2>4, <2>5, <2>6 DEF Property, Adopted
<1>4. CASE n = "isMultiphase"
  <2> DEFINE d == setIsMultiphase(c, v)
             t == [s EXCEPT !.meter = d.settings]
  <2>1. v \in BOOLEAN
    BY <1>4 DEF Values
  <2>2. d \in CallRecords /\ d.settings.isMultiphase = v
    BY <1>1, <2>1, MultiphaseCalls
  <2>3. r = [settings |-> t, heard |-> d.heard # <<>>]
    BY <1>4 DEF setProperty, c
  <2> HIDE DEF d
  <2>4. t \in Properties /\ t.meter = d.settings
    BY <2>2, MeterSet
  <2>5. r.settings = t
    BY <2>3
  <2>6. r.heard \in BOOLEAN
    BY <2>3
  <2> HIDE DEF t
  <2> QED
    BY <1>4, <2>2, <2>4, <2>5, <2>6 DEF Property, Adopted
<1>5. CASE n = "phaseCount"
  <2> DEFINE d == setPhaseCount(c, v)
             t == [s EXCEPT !.meter = d.settings]
  <2>1. v \in Int
    BY <1>5 DEF Values
  <2>2. d \in CallRecords /\ d.settings.phaseCount = Bounded(v)
    BY <1>1, <2>1, PhaseCountCalls
  <2>3. r = [settings |-> t, heard |-> d.heard # <<>>]
    BY <1>5 DEF setProperty, c
  <2> HIDE DEF d
  <2>4. t \in Properties /\ t.meter = d.settings
    BY <2>2, MeterSet
  <2>5. r.settings = t
    BY <2>3
  <2>6. r.heard \in BOOLEAN
    BY <2>3
  <2> HIDE DEF t
  <2> QED
    BY <1>5, <2>2, <2>4, <2>5, <2>6 DEF Property, Adopted
<1>6. CASE n = "piggyEnabled"
  <2> DEFINE d == setPiggyEnabled(c, v)
             t == [s EXCEPT !.meter = d.settings]
  <2>1. v \in BOOLEAN
    BY <1>6 DEF Values
  <2>2. d \in CallRecords /\ d.settings.piggyEnabled = v
    BY <1>1, <2>1, PiggyCalls
  <2>3. r = [settings |-> t, heard |-> d.heard # <<>>]
    BY <1>6 DEF setProperty, c
  <2> HIDE DEF d
  <2>4. t \in Properties /\ t.meter = d.settings
    BY <2>2, MeterSet
  <2>5. r.settings = t
    BY <2>3
  <2>6. r.heard \in BOOLEAN
    BY <2>3
  <2> HIDE DEF t
  <2> QED
    BY <1>6, <2>2, <2>4, <2>5, <2>6 DEF Property, Adopted
<1> QED
  BY <1>2, <1>3, <1>4, <1>5, <1>6, NamesAre

LEMMA NewPropertiesTyped == NewProperties \in Properties
<1> DEFINE new == NewSettings(NoSerial, TRUE)
           t == [new EXCEPT !.isMultiphase = TRUE]
<1>1. new \in Settings
  BY DEF NewSettings, Settings
<1>2. t \in Settings
  BY <1>1, MultiphaseSet
<1>3. NewProperties = [customName |-> NoName, meter |-> t]
  BY DEF NewProperties
<1> HIDE DEF t
<1> QED
  BY <1>2, <1>3 DEF Properties


-----------------------------------------------------------------------------
(* Calls to the settings service, and what it tells.                       *)
SetCalls == UNION {[kind : {"set"}, name : {n}, value : Values(n)] : n \in Names}
GetCalls == [kind : {"get"}, name : Names]
Notices == UNION {[name : {n}, value : Values(n)] : n \in Names}

Sets(call, n) == call.kind = "set" /\ call.name = n

(* There is no call that sets n; or there is, and the last one sets it to  *)
(* v.  The same of what the service tells of n.                            *)
Untouched(q, n) == \A i \in 1 .. Len(q) : ~Sets(q[i], n)

EndsIn(q, n, v) ==
    \E i \in 1 .. Len(q) :
        /\ Sets(q[i], n)
        /\ \A j \in i .. Len(q) : Sets(q[j], n) => q[j].value = v

Silent(q, n) == \A i \in 1 .. Len(q) : q[i].name # n

Tells(q, n, v) ==
    \E i \in 1 .. Len(q) :
        /\ q[i].name = n
        /\ \A j \in i .. Len(q) : q[j].name = n => q[j].value = v

LEMMA SetCallIs ==
    ASSUME NEW call \in SetCalls
    PROVE  call.kind = "set" /\ call.name \in Names /\ call.value \in Values(call.name)
BY DEF SetCalls

LEMMA SetCallMade ==
    ASSUME NEW n \in Names, NEW v \in Values(n)
    PROVE  [kind |-> "set", name |-> n, value |-> v] \in SetCalls
<1>1. [kind |-> "set", name |-> n, value |-> v] \in [kind : {"set"}, name : {n}, value : Values(n)]
  OBVIOUS
<1> QED
  BY <1>1 DEF SetCalls

LEMMA GetCallIs ==
    ASSUME NEW call \in GetCalls
    PROVE  call.kind = "get" /\ call.name \in Names
BY DEF GetCalls

LEMMA NoticeIs ==
    ASSUME NEW notice \in Notices
    PROVE  notice.name \in Names /\ notice.value \in Values(notice.name)
BY DEF Notices

LEMMA NoticeMade ==
    ASSUME NEW n \in Names, NEW v \in Values(n)
    PROVE  [name |-> n, value |-> v] \in Notices
<1>1. [name |-> n, value |-> v] \in [name : {n}, value : Values(n)]
  OBVIOUS
<1> QED
  BY <1>1 DEF Notices

-----------------------------------------------------------------------------
(* Queues.                                                                 *)
LEMMA Joined ==
    ASSUME NEW S, NEW p \in Seq(S), NEW q \in Seq(S), NEW r, r = p \o q
    PROVE  /\ r \in Seq(S)
           /\ Len(p) \in Nat /\ Len(q) \in Nat /\ Len(r) = Len(p) + Len(q)
           /\ \A i \in 1 .. Len(p) : r[i] = p[i]
           /\ \A i \in 1 .. Len(q) : r[Len(p) + i] = q[i]
           /\ \A i \in Len(p) + 1 .. Len(r) : r[i] = q[i - Len(p)]
BY ConcatProperties, LenProperties

LEMMA UntouchedJoined ==
    ASSUME NEW S, NEW p \in Seq(S), NEW q \in Seq(S), NEW n, Untouched(p, n), Untouched(q, n)
    PROVE  Untouched(p \o q, n)
<1> DEFINE r == p \o q
<1>1. /\ Len(p) \in Nat /\ Len(q) \in Nat /\ Len(r) = Len(p) + Len(q)
      /\ \A i \in 1 .. Len(p) : r[i] = p[i]
      /\ \A i \in Len(p) + 1 .. Len(r) : r[i] = q[i - Len(p)]
  BY Joined
<1> HIDE DEF r
<1> SUFFICES ASSUME NEW i \in 1 .. Len(r) PROVE ~Sets(r[i], n)
  BY DEF Untouched, r
<1>2. CASE i \in 1 .. Len(p)
  BY <1>1, <1>2 DEF Untouched
<1>3. CASE i \in Len(p) + 1 .. Len(r)
  <2>1. i - Len(p) \in 1 .. Len(q)
    BY <1>1, <1>3
  <2> QED
    BY <1>1, <1>3, <2>1 DEF Untouched
<1> QED
  BY <1>1, <1>2, <1>3

LEMMA EndJoined ==
    ASSUME NEW S, NEW p \in Seq(S), NEW q \in Seq(S), NEW n, NEW v, EndsIn(q, n, v)
    PROVE  EndsIn(p \o q, n, v)
<1> DEFINE r == p \o q
<1>1. /\ Len(p) \in Nat /\ Len(q) \in Nat /\ Len(r) = Len(p) + Len(q)
      /\ \A i \in 1 .. Len(q) : r[Len(p) + i] = q[i]
      /\ \A i \in Len(p) + 1 .. Len(r) : r[i] = q[i - Len(p)]
  BY Joined
<1> HIDE DEF r
<1>2. PICK i \in 1 .. Len(q) :
        Sets(q[i], n) /\ \A j \in i .. Len(q) : Sets(q[j], n) => q[j].value = v
  BY DEF EndsIn
<1>3. Len(p) + i \in 1 .. Len(r) /\ Sets(r[Len(p) + i], n)
  BY <1>1, <1>2
<1>4. ASSUME NEW j \in Len(p) + i .. Len(r), Sets(r[j], n)
      PROVE  r[j].value = v
  <2>1. j - Len(p) \in i .. Len(q) /\ j \in Len(p) + 1 .. Len(r)
    BY <1>1
  <2> QED
    BY <1>1, <1>2, <1>4, <2>1
<1>5. EndsIn(r, n, v)
  BY <1>3, <1>4 DEF EndsIn
<1> QED
  BY <1>5 DEF r

LEMMA EndKept ==
    ASSUME NEW S, NEW p \in Seq(S), NEW q \in Seq(S), NEW n, NEW v,
           EndsIn(p, n, v), Untouched(q, n)
    PROVE  EndsIn(p \o q, n, v)
<1> DEFINE r == p \o q
<1>1. /\ Len(p) \in Nat /\ Len(q) \in Nat /\ Len(r) = Len(p) + Len(q)
      /\ \A i \in 1 .. Len(p) : r[i] = p[i]
      /\ \A i \in Len(p) + 1 .. Len(r) : r[i] = q[i - Len(p)]
  BY Joined
<1> HIDE DEF r
<1>2. PICK i \in 1 .. Len(p) :
        Sets(p[i], n) /\ \A j \in i .. Len(p) : Sets(p[j], n) => p[j].value = v
  BY DEF EndsIn
<1>3. i \in 1 .. Len(r) /\ Sets(r[i], n)
  BY <1>1, <1>2
<1>4. ASSUME NEW j \in i .. Len(r), Sets(r[j], n)
      PROVE  r[j].value = v
  <2>1. CASE j \in 1 .. Len(p)
    BY <1>1, <1>2, <1>4, <2>1
  <2>2. CASE j \in Len(p) + 1 .. Len(r)
    <3>1. j - Len(p) \in 1 .. Len(q)
      BY <1>1, <2>2
    <3> QED
      BY <1>1, <1>4, <2>2, <3>1 DEF Untouched
  <2> QED
    BY <1>1, <2>1, <2>2
<1>5. EndsIn(r, n, v)
  BY <1>3, <1>4 DEF EndsIn
<1> QED
  BY <1>5 DEF r

LEMMA Popped ==
    ASSUME NEW S, NEW q \in Seq(S), q # <<>>, NEW r, r = Tail(q)
    PROVE  /\ r \in Seq(S) /\ Head(q) \in S /\ Head(q) = q[1]
           /\ Len(q) \in Nat \ {0} /\ Len(r) \in Nat /\ Len(r) = Len(q) - 1
           /\ \A i \in 1 .. Len(r) : r[i] = q[i + 1]
<1>1. Len(q) \in Nat /\ Len(q) # 0
  BY EmptySeq, LenProperties
<1> QED
  BY <1>1, HeadTailProperties, LenProperties

(* Of the calls but the first, the last is still the last, unless the first*)
(* was the only one.                                                       *)
LEMMA EndPopped ==
    ASSUME NEW S, NEW q \in Seq(S), q # <<>>, NEW n, NEW v, EndsIn(q, n, v)
    PROVE  \/ EndsIn(Tail(q), n, v)
           \/ Sets(Head(q), n) /\ Head(q).value = v
<1> DEFINE r == Tail(q)
<1>1. /\ Head(q) = q[1]
      /\ Len(q) \in Nat \ {0} /\ Len(r) \in Nat /\ Len(r) = Len(q) - 1
      /\ \A i \in 1 .. Len(r) : r[i] = q[i + 1]
  BY Popped
<1> HIDE DEF r
<1>2. PICK i \in 1 .. Len(q) :
        Sets(q[i], n) /\ \A j \in i .. Len(q) : Sets(q[j], n) => q[j].value = v
  BY DEF EndsIn
<1>3. CASE i = 1
  BY <1>1, <1>2, <1>3
<1>4. CASE i # 1
  <2>1. i - 1 \in 1 .. Len(r) /\ r[i - 1] = q[i]
    BY <1>1, <1>4
  <2>2. ASSUME NEW j \in i - 1 .. Len(r), Sets(r[j], n)
        PROVE  r[j].value = v
    <3>1. j + 1 \in i .. Len(q) /\ r[j] = q[j + 1]
      BY <1>1, <1>4
    <3> QED
      BY <1>2, <2>2, <3>1
  <2>3. EndsIn(r, n, v)
    BY <1>2, <2>1, <2>2 DEF EndsIn
  <2> QED
    BY <2>3 DEF r
<1> QED
  BY <1>3, <1>4

LEMMA TellsPopped ==
    ASSUME NEW S, NEW q \in Seq(S), q # <<>>, NEW n, NEW v, Tells(q, n, v)
    PROVE  \/ Tells(Tail(q), n, v)
           \/ Head(q).name = n /\ Head(q).value = v /\ Silent(Tail(q), n)
<1> DEFINE r == Tail(q)
<1>1. /\ Head(q) = q[1]
      /\ Len(q) \in Nat \ {0} /\ Len(r) \in Nat /\ Len(r) = Len(q) - 1
      /\ \A i \in 1 .. Len(r) : r[i] = q[i + 1]
  BY Popped
<1> HIDE DEF r
<1>2. PICK i \in 1 .. Len(q) :
        q[i].name = n /\ \A j \in i .. Len(q) : q[j].name = n => q[j].value = v
  BY DEF Tells
<1>3. CASE i = 1 /\ Silent(r, n)
  BY <1>1, <1>2, <1>3 DEF r
<1>4. CASE i = 1 /\ ~Silent(r, n)
  <2>1. PICK k \in 1 .. Len(r) : r[k].name = n
    BY <1>4 DEF Silent
  <2>2. ASSUME NEW j \in k .. Len(r), r[j].name = n
        PROVE  r[j].value = v
    <3>1. j + 1 \in i .. Len(q) /\ r[j] = q[j + 1]
      BY <1>1, <1>4
    <3> QED
      BY <1>2, <2>2, <3>1
  <2>3. Tells(r, n, v)
    BY <2>1, <2>2 DEF Tells
  <2> QED
    BY <2>3 DEF r
<1>5. CASE i # 1
  <2>1. i - 1 \in 1 .. Len(r) /\ r[i - 1] = q[i]
    BY <1>1, <1>5
  <2>2. ASSUME NEW j \in i - 1 .. Len(r), r[j].name = n
        PROVE  r[j].value = v
    <3>1. j + 1 \in i .. Len(q) /\ r[j] = q[j + 1]
      BY <1>1, <1>5
    <3> QED
      BY <1>2, <2>2, <3>1
  <2>3. Tells(r, n, v)
    BY <1>2, <2>1, <2>2 DEF Tells
  <2> QED
    BY <2>3 DEF r
<1> QED
  BY <1>3, <1>4, <1>5

LEMMA SilentPopped ==
    ASSUME NEW S, NEW q \in Seq(S), q # <<>>, NEW n, Silent(q, n)
    PROVE  Silent(Tail(q), n) /\ Head(q).name # n
<1> DEFINE r == Tail(q)
<1>1. /\ Head(q) = q[1]
      /\ Len(q) \in Nat \ {0} /\ Len(r) \in Nat /\ Len(r) = Len(q) - 1
      /\ \A i \in 1 .. Len(r) : r[i] = q[i + 1]
  BY Popped
<1> HIDE DEF r
<1>2. Silent(r, n)
  BY <1>1 DEF Silent
<1> QED
  BY <1>1, <1>2 DEF r, Silent

(* A further notice.                                                       *)
LEMMA Appended ==
    ASSUME NEW S, NEW q \in Seq(S), NEW m \in S, NEW r, r = Append(q, m)
    PROVE  /\ r \in Seq(S) /\ Len(q) \in Nat /\ Len(r) = Len(q) + 1
           /\ \A i \in 1 .. Len(q) : r[i] = q[i]
           /\ r[Len(r)] = m
BY AppendProperties, LenProperties

LEMMA TellsAppended ==
    ASSUME NEW S, NEW q \in Seq(S), NEW m \in S, NEW r, r = Append(q, m)
    PROVE  /\ Tells(r, m.name, m.value)
           /\ \A n : n # m.name => /\ Silent(q, n) => Silent(r, n)
                                   /\ \A v : Tells(q, n, v) => Tells(r, n, v)
<1>1. /\ Len(q) \in Nat /\ Len(r) = Len(q) + 1
      /\ \A i \in 1 .. Len(q) : r[i] = q[i]
      /\ r[Len(r)] = m
  BY Appended
<1>2. Tells(r, m.name, m.value)
  <2>1. Len(r) \in 1 .. Len(r) /\ Len(r) .. Len(r) = {Len(r)}
    BY <1>1
  <2> QED
    BY <1>1, <2>1 DEF Tells
<1>3. ASSUME NEW n, n # m.name, Silent(q, n)
      PROVE  Silent(r, n)
  BY <1>1, <1>3 DEF Silent
<1>4. ASSUME NEW n, n # m.name, NEW v, Tells(q, n, v)
      PROVE  Tells(r, n, v)
  <2>1. PICK i \in 1 .. Len(q) :
          q[i].name = n /\ \A j \in i .. Len(q) : q[j].name = n => q[j].value = v
    BY <1>4 DEF Tells
  <2>2. i \in 1 .. Len(r) /\ r[i].name = n
    BY <1>1, <2>1
  <2>3. ASSUME NEW j \in i .. Len(r), r[j].name = n
        PROVE  r[j].value = v
    BY <1>1, <1>4, <2>1, <2>3
  <2> QED
    BY <2>2, <2>3 DEF Tells
<1> QED
  BY <1>2, <1>3, <1>4


-----------------------------------------------------------------------------
(* What is sent when properties change: the calls q are for the names D.   *)
(* Of each of these, the last call has its new value; or there is none     *)
(* because the value is the old one, or the one that the item has.         *)
Tell(q, old, new, values, D) ==
    /\ q \in Seq(SetCalls)
    /\ \A n \in Names \ D : Untouched(q, n)
    /\ \A n \in D :
           \/ EndsIn(q, n, Property(new, n))
           \/ /\ Untouched(q, n)
              /\ Property(new, n) = Property(old, n) \/ Property(new, n) = values[n]

LEMMA OneTold ==
    ASSUME NEW old \in Properties, NEW new \in Properties, NEW values, NEW n \in Names
    PROVE  Tell(publishValue(old, new, values, n), old, new, values, {n})
<1> DEFINE v == Property(new, n)
           call == [kind |-> "set", name |-> n, value |-> v]
           q == publishValue(old, new, values, n)
<1>1. call \in SetCalls
  BY SetCallMade, PropertyTyped
<1>2. call.kind = "set" /\ call.name = n /\ call.value = v
  OBVIOUS
<1> HIDE DEF call
<1>3. CASE v # Property(old, n) /\ values[n] # v
  <2>1. q = <<call>>
    BY <1>3 DEF publishValue, Sends, call
  <2>2. <<call>> \in Seq(SetCalls) /\ Len(<<call>>) = 1 /\ <<call>>[1] = call
    BY <1>1
  <2> HIDE DEF q, v
  <2>3. EndsIn(q, n, v)
    <3>1. 1 \in 1 .. Len(q) /\ 1 .. Len(q) = {1}
      BY <2>1, <2>2
    <3> QED
      BY <1>2, <2>1, <2>2, <3>1 DEF EndsIn, Sets
  <2>4. ASSUME NEW m \in Names \ {n}
        PROVE  Untouched(q, m)
    BY <1>2, <2>1, <2>2 DEF Untouched, Sets
  <2> QED
    BY <2>1, <2>2, <2>3, <2>4 DEF Tell, q, v
<1>4. CASE ~(v # Property(old, n) /\ values[n] # v)
  <2>1. q = <<>>
    BY <1>4 DEF publishValue, Sends
  <2>2. q \in Seq(SetCalls) /\ \A m : Untouched(q, m)
    BY <2>1 DEF Untouched
  <2> HIDE DEF q
  <2> QED
    BY <1>4, <2>2 DEF Tell, q
<1> QED
  BY <1>3, <1>4

LEMMA MoreTold ==
    ASSUME NEW old \in Properties, NEW new \in Properties, NEW values,
           NEW D, D \subseteq Names, NEW n \in Names \ D,
           NEW q, Tell(q, old, new, values, D)
    PROVE  Tell(q \o publishValue(old, new, values, n), old, new, values, D \cup {n})
<1> DEFINE p == publishValue(old, new, values, n)
           r == q \o p
<1>1. Tell(p, old, new, values, {n})
  BY OneTold
<1> HIDE DEF p
<1>2. q \in Seq(SetCalls) /\ p \in Seq(SetCalls)
  BY <1>1 DEF Tell
<1>3. r \in Seq(SetCalls)
  BY <1>2, Joined
<1>4. ASSUME NEW m \in Names \ (D \cup {n})
      PROVE  Untouched(r, m)
  <2>1. Untouched(q, m) /\ Untouched(p, m)
    BY <1>1 DEF Tell
  <2> QED
    BY <1>2, <2>1, UntouchedJoined
<1>5. ASSUME NEW m \in D \cup {n}
      PROVE  \/ EndsIn(r, m, Property(new, m))
             \/ /\ Untouched(r, m)
                /\ Property(new, m) = Property(old, m) \/ Property(new, m) = values[m]
  <2>1. CASE m = n
    <3>1. Untouched(q, m)
      BY <2>1 DEF Tell
    <3>2. CASE EndsIn(p, m, Property(new, m))
      BY <1>2, <3>2, EndJoined
    <3>3. CASE ~EndsIn(p, m, Property(new, m))
      <4>1. /\ Untouched(p, m)
            /\ Property(new, m) = Property(old, m) \/ Property(new, m) = values[m]
        BY <1>1, <2>1, <3>3 DEF Tell
      <4> QED
        BY <1>2, <3>1, <4>1, UntouchedJoined
    <3> QED
      BY <3>2, <3>3
  <2>2. CASE m # n
    <3>1. m \in D /\ m \in Names \ {n}
      BY <2>2
    <3>2. Untouched(p, m)
      BY <1>1, <3>1 DEF Tell
    <3>3. CASE EndsIn(q, m, Property(new, m))
      BY <1>2, <3>2, <3>3, EndKept
    <3>4. CASE ~EndsIn(q, m, Property(new, m))
      <4>1. /\ Untouched(q, m)
            /\ Property(new, m) = Property(old, m) \/ Property(new, m) = values[m]
        BY <3>1, <3>4 DEF Tell
      <4> QED
        BY <1>2, <3>2, <4>1, UntouchedJoined
    <3> QED
      BY <3>3, <3>4
  <2> QED
    BY <2>1, <2>2
<1> HIDE DEF r
<1>6. Tell(r, old, new, values, D \cup {n})
  BY <1>3, <1>4, <1>5 DEF Tell
<1> QED
  BY <1>6 DEF r, p

LEMMA AllTold ==
    ASSUME NEW old \in Properties, NEW new \in Properties, NEW values
    PROVE  Tell(Publications(old, new, values), old, new, values, Names)
<1> DEFINE p(n) == publishValue(old, new, values, n)
           q1 == p("customName")
           q2 == q1 \o p("role")
           q3 == q2 \o p("isMultiphase")
           q4 == q3 \o p("phaseCount")
           q5 == q4 \o p("piggyEnabled")
<1>1. Tell(q1, old, new, values, {"customName"})
  BY NamesAre, OneTold
<1> HIDE DEF q1
<1>2. Tell(q2, old, new, values, {"customName"} \cup {"role"})
  BY <1>1, NamesAre, MoreTold
<1> HIDE DEF q2
<1>3. Tell(q3, old, new, values, {"customName", "role"} \cup {"isMultiphase"})
  <2>1. Tell(q2, old, new, values, {"customName", "role"})
    <3>1. {"customName"} \cup {"role"} = {"customName", "role"}
      OBVIOUS
    <3> QED
      BY <1>2, <3>1
  <2> QED
    BY <2>1, NamesAre, MoreTold DEF q3
<1> HIDE DEF q3
<1>4. Tell(q4, old, new, values, {"customName", "role", "isMultiphase"} \cup {"phaseCount"})
  <2>1. Tell(q3, old, new, values, {"customName", "role", "isMultiphase"})
    <3>1. {"customName", "role"} \cup {"isMultiphase"} = {"customName", "role", "isMultiphase"}
      OBVIOUS
    <3> QED
      BY <1>3, <3>1
  <2> QED
    BY <2>1, NamesAre, MoreTold DEF q4
<1> HIDE DEF q4
<1>5. Tell(q5, old, new, values, {"customName", "role", "isMultiphase", "phaseCount"} \cup {"piggyEnabled"})
  <2>1. Tell(q4, old, new, values, {"customName", "role", "isMultiphase", "phaseCount"})
    <3>1. {"customName", "role", "isMultiphase"} \cup {"phaseCount"}
            = {"customName", "role", "isMultiphase", "phaseCount"}
      OBVIOUS
    <3> QED
      BY <1>4, <3>1
  <2> QED
    BY <2>1, NamesAre, MoreTold DEF q5
<1>6. Names = {"customName", "role", "isMultiphase", "phaseCount"} \cup {"piggyEnabled"}
  BY NamesAre
<1>7. Publications(old, new, values) = q5
  BY DEF Publications, q1, q2, q3, q4, q5
<1> QED
  BY <1>5, <1>6, <1>7


-----------------------------------------------------------------------------
(* What is still under way when the process ends.  This is a recursive     *)
(* function: it has a value by induction over the length of the queue.     *)
LEMMA SetInduction ==
    ASSUME NEW T, T \subseteq Nat, 0 \in T, \A n \in Nat : n \in T => n + 1 \in T
    PROVE  Nat \subseteq T
<1> DEFINE B == Nat \ T
<1> SUFFICES ASSUME B # {} PROVE FALSE
  OBVIOUS
<1>1. PICK n \in B : \A m \in B : ~(<<m, n>> \in OpToRel(<, Nat))
  BY NatLessThanWellFounded, WFMin
<1>2. n \in Nat /\ n # 0
  OBVIOUS
<1>3. n - 1 \in Nat /\ n - 1 < n
  BY <1>2
<1>4. <<n - 1, n>> \in OpToRel(<, Nat)
  BY <1>2, <1>3 DEF OpToRel
<1>5. n - 1 \in T
  BY <1>1, <1>3, <1>4
<1>6. (n - 1) + 1 \in T
  BY <1>3, <1>5
<1> QED
  BY <1>2, <1>6

Keeping(f, q, i) ==
    IF i = 0 THEN <<>>
    ELSE IF q[i].kind = "set" THEN Append(f[i - 1], q[i]) ELSE f[i - 1]

KeptUpTo(f, q, n) == f = [i \in 0 .. n |-> Keeping(f, q, i)]

LEMMA KeepingExists ==
    ASSUME NEW S, NEW q \in Seq(S)
    PROVE  \E f : KeptUpTo(f, q, Len(q))
<1> DEFINE T == {n \in Nat : \E f : KeptUpTo(f, q, n)}
<1>1. 0 \in T
  <2> DEFINE f == [i \in 0 .. 0 |-> <<>>]
  <2>1. f = [i \in 0 .. 0 |-> Keeping(f, q, i)]
    BY DEF Keeping
  <2> HIDE DEF f
  <2>2. KeptUpTo(f, q, 0)
    BY <2>1 DEF KeptUpTo
  <2> QED
    BY <2>2
<1>2. ASSUME NEW n \in Nat, n \in T
      PROVE  n + 1 \in T
  <2>0. PICK f : KeptUpTo(f, q, n)
    BY <1>2
  <2>1. f = [i \in 0 .. n |-> Keeping(f, q, i)]
    BY <2>0 DEF KeptUpTo
  <2> DEFINE g == [i \in 0 .. n + 1 |-> IF i = n + 1 THEN Keeping(f, q, i) ELSE f[i]]
  <2>2. \A i \in 0 .. n : g[i] = f[i]
    OBVIOUS
  <2>3. ASSUME NEW i \in 0 .. n + 1
        PROVE  Keeping(g, q, i) = Keeping(f, q, i)
    <3>1. CASE i = 0
      BY <3>1 DEF Keeping
    <3>2. CASE i # 0
      <4>1. i - 1 \in 0 .. n
        BY <3>2
      <4>2. g[i - 1] = f[i - 1]
        BY <2>2, <4>1
      <4> HIDE DEF g
      <4> QED
        BY <4>2 DEF Keeping
    <3> QED
      BY <3>1, <3>2
  <2>4. ASSUME NEW i \in 0 .. n + 1
        PROVE  g[i] = Keeping(f, q, i)
    <3>1. CASE i = n + 1
      BY <3>1
    <3>2. CASE i # n + 1
      <4>1. i \in 0 .. n
        BY <3>2
      <4>2. f[i] = Keeping(f, q, i)
        <5> DEFINE h(j) == Keeping(f, q, j)
        <5>1. f = [j \in 0 .. n |-> h(j)]
          BY <2>1
        <5> HIDE DEF h
        <5>2. f[i] = h(i)
          BY <4>1, <5>1
        <5> QED
          BY <5>2 DEF h
      <4> QED
        BY <2>2, <4>1, <4>2
    <3> QED
      BY <3>1, <3>2
  <2>5. g = [i \in 0 .. n + 1 |-> Keeping(g, q, i)]
    <3>1. \A i \in 0 .. n + 1 : g[i] = Keeping(g, q, i)
      BY <2>3, <2>4
    <3>2. g = [i \in 0 .. n + 1 |-> g[i]]
      OBVIOUS
    <3> HIDE DEF g
    <3> QED
      BY <3>1, <3>2
  <2> HIDE DEF g
  <2>6. KeptUpTo(g, q, n + 1)
    BY <2>5 DEF KeptUpTo
  <2> QED
    BY <2>6
<1>3. Nat \subseteq T
  <2> HIDE DEF T
  <2>1. T \subseteq Nat
    BY DEF T
  <2> QED
    BY <1>1, <1>2, <2>1, SetInduction
<1> QED
  BY <1>3, LenProperties

LEMMA OutlastingTyped ==
    ASSUME NEW S, NEW q \in Seq(S), NEW T, \A m \in S : m.kind = "set" => m \in T
    PROVE  Outlasting(q) \in Seq(T)
<1> DEFINE kept == CHOOSE f : f = [i \in 0 .. Len(q) |-> Keeping(f, q, i)]
<1>1. Outlasting(q) = kept[Len(q)]
  BY DEF Outlasting, Keeping
<1>2. kept = [i \in 0 .. Len(q) |-> Keeping(kept, q, i)]
  BY KeepingExists DEF KeptUpTo
<1> HIDE DEF kept
<1>3. ASSUME NEW i \in 0 .. Len(q)
      PROVE  kept[i] = Keeping(kept, q, i)
  <2> DEFINE h(j) == Keeping(kept, q, j)
  <2>1. kept = [j \in 0 .. Len(q) |-> h(j)]
    BY <1>2
  <2> HIDE DEF h
  <2>2. kept[i] = h(i)
    BY <2>1
  <2> QED
    BY <2>2 DEF h
<1> DEFINE N == {n \in Nat : n <= Len(q) => kept[n] \in Seq(T)}
<1>4. Len(q) \in Nat
  BY LenProperties
<1>5. 0 \in N
  <2>1. kept[0] = <<>>
    BY <1>3, <1>4 DEF Keeping
  <2>2. <<>> \in Seq(T)
    OBVIOUS
  <2>3. kept[0] \in Seq(T)
    BY <2>1, <2>2
  <2> QED
    BY <2>3
<1>6. ASSUME NEW n \in Nat, n \in N
      PROVE  n + 1 \in N
  <2> SUFFICES ASSUME n + 1 <= Len(q) PROVE kept[n + 1] \in Seq(T)
    OBVIOUS
  <2>1. kept[n] \in Seq(T) /\ n + 1 \in 1 .. Len(q) /\ (n + 1) - 1 = n /\ n + 1 # 0
    BY <1>4, <1>6
  <2>2. q[n + 1] \in S
    BY <2>1, ElementOfSeq
  <2>3. q[n + 1].kind = "set" => Append(kept[n], q[n + 1]) \in Seq(T)
    BY <2>1, <2>2, AppendProperties
  <2>4. kept[n + 1] = Keeping(kept, q, n + 1)
    BY <1>3, <1>4, <2>1
  <2> QED
    BY <2>1, <2>3, <2>4 DEF Keeping
<1>7. Nat \subseteq N
  <2> HIDE DEF N
  <2>1. N \subseteq Nat
    BY DEF N
  <2> QED
    BY <1>5, <1>6, <2>1, SetInduction
<1> QED
  BY <1>1, <1>4, <1>7


-----------------------------------------------------------------------------
(* Types, and what holds before the items are made or the meter is there.  *)
Messages == SetCalls \cup GetCalls

Items(f) == DOMAIN f = Names /\ \A n \in Names : f[n] \in Values(n)

BridgeTypes ==
    /\ Items(stored) /\ Items(cached)
    /\ calls \in Seq(Messages) /\ signals \in Seq(Notices)
    /\ requested \subseteq Names
    /\ settings \in Properties
    /\ service \in Roles \cup {NoRole}
    /\ ~known => /\ requested = Names /\ signals = <<>> /\ ~detected
                 /\ calls \in Seq(SetCalls)
    /\ ~detected => service = NoRole
    /\ service # NoRole => DOMAIN published = Exported(service)

LEMMA ItemSet ==
    ASSUME NEW f, Items(f), NEW n \in Names, NEW v \in Values(n), NEW g, g = [f EXCEPT ![n] = v]
    PROVE  /\ Items(g) /\ g[n] = v
           /\ \A m \in Names : m # n => g[m] = f[m]
BY DEF Items

LEMMA NewItems ==
    ASSUME NEW f, f = [n \in Names |-> Property(NewProperties, n)]
    PROVE  Items(f)
<1>1. \A n \in Names : f[n] \in Values(n)
  <2> SUFFICES ASSUME NEW n \in Names PROVE Property(NewProperties, n) \in Values(n)
    OBVIOUS
  <2> QED
    BY NewPropertiesTyped, PropertyTyped
<1> QED
  BY <1>1 DEF Items

LEMMA WiderSeq ==
    ASSUME NEW S, NEW T, S \subseteq T, NEW q \in Seq(S)
    PROVE  q \in Seq(T)
OBVIOUS

LEMMA SetCallsSent ==
    ASSUME NEW q \in Seq(SetCalls), NEW p \in Seq(Messages)
    PROVE  q \in Seq(Messages) /\ p \o q \in Seq(Messages)
<1>1. q \in Seq(Messages)
  BY WiderSeq DEF Messages
<1> QED
  BY <1>1, Joined

(* consume, and the whole of the constructor: each item with a value has   *)
(* its property, or a call is sent that sets the item to it.               *)
Carried(n, s, q, values) ==
    \/ Property(s, n) = Adopted(n, values[n])
    \/ EndsIn(q, n, Property(s, n))

LEMMA CarriedOn ==
    ASSUME NEW old \in Properties, NEW new \in Properties, NEW values, NEW n \in Names,
           NEW S, NEW q \in Seq(S), NEW p \in Seq(S),
           Tell(p, old, new, values, Names), Carried(n, old, q, values)
    PROVE  Carried(n, new, q \o p, values)
<1>1. CASE EndsIn(p, n, Property(new, n))
  BY <1>1, EndJoined DEF Carried
<1>2. CASE ~EndsIn(p, n, Property(new, n))
  <2>1. /\ Untouched(p, n)
        /\ Property(new, n) = Property(old, n) \/ Property(new, n) = values[n]
    BY <1>2 DEF Tell
  <2>2. CASE Property(new, n) = values[n]
    BY <2>2, PropertyTyped DEF Carried
  <2>3. CASE Property(new, n) = Property(old, n) /\ EndsIn(q, n, Property(old, n))
    <3>1. EndsIn(q \o p, n, Property(old, n))
      BY <2>1, <2>3, EndKept
    <3> QED
      BY <2>3, <3>1 DEF Carried
  <2>4. CASE Property(new, n) = Property(old, n) /\ Property(old, n) = Adopted(n, values[n])
    BY <2>4 DEF Carried
  <2> QED
    BY <2>1, <2>2, <2>3, <2>4 DEF Carried
<1> QED
  BY <1>1, <1>2

Loaded(l, D) ==
    /\ l.settings \in Properties
    /\ l.calls \in Seq(SetCalls)
    /\ \A n \in D \ requested : Carried(n, l.settings, l.calls, cached)

LEMMA Consumed ==
    ASSUME Items(cached), NEW l, NEW D, D \subseteq Names, Loaded(l, D), NEW n \in Names
    PROVE  Loaded(consume(l, n), D \cup {n})
<1>1. CASE n \in requested
  BY <1>1 DEF consume, Loaded
<1>2. CASE n \notin requested
  <2> DEFINE new == setProperty(l.settings, n, cached[n]).settings
             p == Publications(l.settings, new, cached)
             r == consume(l, n)
  <2>1. new \in Properties /\ Property(new, n) = Adopted(n, cached[n])
    BY PropertySet DEF Items, Loaded
  <2>2. r.settings = new /\ r.calls = l.calls \o p
    BY <1>2 DEF consume
  <2> HIDE DEF new
  <2>3. l.settings \in Properties /\ l.calls \in Seq(SetCalls)
    BY DEF Loaded
  <2>4. Tell(p, l.settings, new, cached, Names)
    BY <2>1, <2>3, AllTold
  <2> HIDE DEF p, r
  <2>5. p \in Seq(SetCalls) /\ l.calls \o p \in Seq(SetCalls)
    BY <2>3, <2>4, Joined DEF Tell
  <2>6. ASSUME NEW m \in (D \cup {n}) \ requested
        PROVE  Carried(m, new, l.calls \o p, cached)
    <3>1. CASE m = n
      BY <2>1, <3>1 DEF Carried
    <3>2. CASE m # n
      <4>1. m \in D \ requested /\ m \in Names
        BY <3>2
      <4>2. Carried(m, l.settings, l.calls, cached)
        BY <4>1 DEF Loaded
      <4> QED
        BY <2>1, <2>3, <2>4, <2>5, <4>1, <4>2, CarriedOn
    <3> QED
      BY <3>1, <3>2
  <2>7. Loaded(r, D \cup {n})
    BY <2>1, <2>2, <2>5, <2>6 DEF Loaded
  <2> QED
    BY <2>7 DEF r
<1> QED
  BY <1>1, <1>2

LEMMA AllConsumed ==
    ASSUME Items(cached), NEW s \in Properties
    PROVE  Loaded(load(s), Names)
<1> DEFINE l0 == [settings |-> s, calls |-> <<>>]
           l1 == consume(l0, "customName")
           l2 == consume(l1, "role")
           l3 == consume(l2, "isMultiphase")
           l4 == consume(l3, "phaseCount")
           l5 == consume(l4, "piggyEnabled")
           D1 == {} \cup {"customName"}
           D2 == D1 \cup {"role"}
           D3 == D2 \cup {"isMultiphase"}
           D4 == D3 \cup {"phaseCount"}
           D5 == D4 \cup {"piggyEnabled"}
<1>0. /\ D1 \subseteq Names /\ D2 \subseteq Names /\ D3 \subseteq Names /\ D4 \subseteq Names
      /\ D5 = Names
  BY NamesAre
<1>1. /\ "customName" \in Names /\ "role" \in Names /\ "isMultiphase" \in Names
      /\ "phaseCount" \in Names /\ "piggyEnabled" \in Names
  BY NamesAre
<1>2. Loaded(l0, {})
  BY DEF Loaded
<1>3. load(s) = l5
  BY DEF load
<1> HIDE DEF l0
<1>4. Loaded(l1, D1)
  BY <1>1, <1>2, Consumed
<1> HIDE DEF l1, D1
<1>5. Loaded(l2, D2)
  BY <1>0, <1>1, <1>4, Consumed
<1> HIDE DEF l2, D2
<1>6. Loaded(l3, D3)
  BY <1>0, <1>1, <1>5, Consumed
<1> HIDE DEF l3, D3
<1>7. Loaded(l4, D4)
  BY <1>0, <1>1, <1>6, Consumed
<1> HIDE DEF l4, D4
<1>8. Loaded(l5, D5)
  BY <1>0, <1>1, <1>7, Consumed
<1> QED
  BY <1>0, <1>3, <1>8


-----------------------------------------------------------------------------
(* The types are kept.                                                     *)
LEMMA TypesInit == Init => BridgeTypes
<1> SUFFICES ASSUME Init PROVE BridgeTypes
  OBVIOUS
<1>1. Items(cached)
  BY NewItems DEF Init
<1>2. Items(stored)
  <2>1. (CHOOSE r \in Roles : TRUE) \in Roles
    BY BridgeAssumption
  <2>2. ASSUME NEW n \in Names
        PROVE  stored[n] \in Values(n)
    <3>1. CASE n = "role"
      BY <2>1, <3>1 DEF Init, Values
    <3>2. CASE n # "role"
      BY <3>2, NewPropertiesTyped, PropertyTyped DEF Init
    <3> QED
      BY <3>1, <3>2
  <2>3. DOMAIN stored = Names
    BY DEF Init
  <2> QED
    BY <2>2, <2>3 DEF Items
<1>3. <<>> \in Seq(Messages) /\ <<>> \in Seq(Notices) /\ <<>> \in Seq(SetCalls)
  OBVIOUS
<1> QED
  BY <1>1, <1>2, <1>3, NewPropertiesTyped DEF Init, BridgeTypes

LEMMA FollowTyped ==
    ASSUME BridgeTypes, NEW new \in Properties, NEW heard \in BOOLEAN, followSettings(new, heard)
    PROVE  /\ settings' \in Properties
           /\ service' \in Roles \cup {NoRole}
           /\ service = NoRole => service' = NoRole
           /\ service' # NoRole => DOMAIN published' = Exported(service')
<1>1. settings' = new
  BY DEF followSettings
<1>2. CASE service # NoRole /\ heard
  <2>1. new.meter.role \in Roles \cup {NoRole}
    BY FieldsTyped DEF Properties
  <2>2. publishAll(new)
    BY <1>2 DEF followSettings
  <2> QED
    BY <1>1, <1>2, <2>1, <2>2 DEF publishAll
<1>3. CASE ~(service # NoRole /\ heard)
  <2>1. service' = service /\ published' = published
    BY <1>3 DEF followSettings
  <2> QED
    BY <1>1, <2>1 DEF BridgeTypes
<1> QED
  BY <1>2, <1>3

LEMMA PublicationsTyped ==
    ASSUME NEW old \in Properties, NEW new \in Properties, NEW values, NEW q \in Seq(Messages)
    PROVE  /\ Publications(old, new, values) \in Seq(Messages)
           /\ q \o Publications(old, new, values) \in Seq(Messages)
<1>1. Publications(old, new, values) \in Seq(SetCalls)
  BY AllTold DEF Tell
<1> QED
  BY <1>1, SetCallsSent

Gets == [i \in 1 .. Len(SettingNames) |-> [kind |-> "get", name |-> SettingNames[i]]]

LEMMA GetsTyped == Gets \in Seq(Messages)
<1>1. Len(SettingNames) = 5
  BY DEF SettingNames
<1>2. ASSUME NEW i \in 1 .. Len(SettingNames)
      PROVE  [kind |-> "get", name |-> SettingNames[i]] \in Messages
  <2>1. SettingNames[i] \in Names
    BY DEF Names
  <2> QED
    BY <2>1 DEF Messages, GetCalls
<1>3. Gets \in [1 .. 5 -> Messages] /\ 5 \in Nat
  BY <1>1, <1>2 DEF Gets
<1> HIDE DEF Gets
<1> QED
  BY <1>3, SeqDef

LEMMA FoundCalls ==
    ASSUME BridgeTypes, onDeviceFound
    PROVE  /\ load(NewProperties).calls \in Seq(Messages)
           /\ settings' = load(NewProperties).settings /\ settings' \in Properties
           /\ calls' \in Seq(Messages)
           /\ known => calls' = calls \o load(NewProperties).calls
<1> DEFINE l == load(NewProperties)
           more == IF known THEN <<>> ELSE Gets
<1>1. Loaded(l, Names)
  BY NewPropertiesTyped, AllConsumed DEF BridgeTypes
<1>2. settings' = l.settings /\ calls' = calls \o l.calls \o more
  BY DEF onDeviceFound, Gets
<1> HIDE DEF l
<1>3. l.settings \in Properties /\ calls \in Seq(Messages)
  BY <1>1 DEF Loaded, BridgeTypes
<1>4. l.calls \in Seq(Messages) /\ calls \o l.calls \in Seq(Messages)
  BY <1>1, <1>3, SetCallsSent DEF Loaded
<1>5. more \in Seq(Messages)
  BY GetsTyped
<1>6. known => more = <<>>
  OBVIOUS
<1> HIDE DEF more
<1>7. calls' \in Seq(Messages)
  BY <1>2, <1>4, <1>5, Joined
<1>8. (calls \o l.calls) \o <<>> = calls \o l.calls
  BY <1>4, ConcatEmptySeq
<1> QED
  BY <1>2, <1>3, <1>4, <1>6, <1>7, <1>8 DEF l

LEMMA TypesFound ==
    ASSUME BridgeTypes, onDeviceFound
    PROVE  BridgeTypes'
<1>1. settings' \in Properties /\ calls' \in Seq(Messages)
  BY FoundCalls
<1>2. /\ known' = TRUE /\ detected' = TRUE /\ stored' = stored /\ cached' = cached
      /\ signals' = signals /\ requested' = requested
      /\ service' = service /\ published' = published
  BY DEF onDeviceFound, exports
<1> QED
  BY <1>1, <1>2 DEF BridgeTypes, Items

(* An item has a value of its type; where a property takes it over, it is  *)
(* told on.                                                                *)
LEMMA ItemChanged ==
    ASSUME BridgeTypes, NEW n \in Names, NEW v \in Values(n), onVBusItemChanged(n, v)
    PROVE  /\ Items(cached') /\ cached'[n] = v
           /\ \A m \in Names : m # n => cached'[m] = cached[m]
           /\ requested' = requested \ {n}
           /\ service' \in Roles \cup {NoRole}
           /\ service = NoRole => service' = NoRole
           /\ service' # NoRole => DOMAIN published' = Exported(service')
           /\ \/ /\ detected => n \notin requested /\ cached[n] = v
                 /\ settings' = settings /\ calls' = calls
              \/ /\ settings' \in Properties
                 /\ Property(settings', n) = Adopted(n, v)
                 /\ calls' = calls \o Publications(settings, settings', cached')
<1> DEFINE values == [cached EXCEPT ![n] = v]
           set == setProperty(settings, n, v)
<1>1. cached' = values /\ requested' = requested \ {n}
  BY DEF onVBusItemChanged
<1>2. Items(values) /\ values[n] = v /\ \A m \in Names : m # n => values[m] = cached[m]
  <2>1. Items(cached)
    BY DEF BridgeTypes
  <2>2. values = [cached EXCEPT ![n] = v]
    OBVIOUS
  <2> HIDE DEF values
  <2>3. Items(values)
    BY <2>1, <2>2, ItemSet
  <2>4. values[n] = v
    BY <2>1, <2>2 DEF Items
  <2>5. \A m \in Names : m # n => values[m] = cached[m]
    BY <2>1, <2>2, ItemSet
  <2> QED
    BY <2>3, <2>4, <2>5
<1> HIDE DEF values
<1>3. CASE detected /\ (n \in requested \/ cached[n] # v)
  <2>1. /\ set.settings \in Properties /\ Property(set.settings, n) = Adopted(n, v)
        /\ set.heard \in BOOLEAN
    BY PropertySet DEF BridgeTypes
  <2>2. /\ followSettings(set.settings, set.heard)
        /\ calls' = calls \o Publications(settings, set.settings, values)
    BY <1>3 DEF onVBusItemChanged, values
  <2> HIDE DEF set
  <2>3. settings' = set.settings
    BY <2>2 DEF followSettings
  <2>4. /\ service' \in Roles \cup {NoRole}
        /\ service = NoRole => service' = NoRole
        /\ service' # NoRole => DOMAIN published' = Exported(service')
    BY <2>1, <2>2, FollowTyped
  <2> QED
    BY <1>1, <1>2, <2>1, <2>2, <2>3, <2>4
<1>4. CASE ~(detected /\ (n \in requested \/ cached[n] # v))
  <2>1. /\ settings' = settings /\ calls' = calls
        /\ service' = service /\ published' = published
    BY <1>4 DEF onVBusItemChanged, exports
  <2>2. /\ service \in Roles \cup {NoRole}
        /\ service # NoRole => DOMAIN published = Exported(service)
    BY DEF BridgeTypes
  <2> QED
    BY <1>1, <1>2, <1>4, <2>1, <2>2
<1> QED
  BY <1>3, <1>4

LEMMA NextNotice ==
    ASSUME BridgeTypes, signals # <<>>
    PROVE  /\ Head(signals).name \in Names
           /\ Head(signals).value \in Values(Head(signals).name)
           /\ Tail(signals) \in Seq(Notices)
<1>1. signals \in Seq(Notices)
  BY DEF BridgeTypes
<1> QED
  BY <1>1, Popped, NoticeIs

LEMMA TypesSignal ==
    ASSUME BridgeTypes, SignalArrives
    PROVE  BridgeTypes'
<1> DEFINE n == Head(signals).name
           v == Head(signals).value
<1>1. /\ signals # <<>> /\ signals' = Tail(signals) /\ onVBusItemChanged(n, v)
      /\ stored' = stored /\ known' = known /\ detected' = detected
  BY DEF SignalArrives
<1>2. n \in Names /\ v \in Values(n) /\ signals' \in Seq(Notices)
  BY <1>1, NextNotice
<1> HIDE DEF n, v
<1>3. /\ Items(cached') /\ requested' = requested \ {n}
      /\ service' \in Roles \cup {NoRole}
      /\ service = NoRole => service' = NoRole
      /\ service' # NoRole => DOMAIN published' = Exported(service')
  BY <1>1, <1>2, ItemChanged
<1>4. settings' \in Properties /\ calls' \in Seq(Messages)
  <2>1. CASE settings' = settings /\ calls' = calls
    BY <2>1 DEF BridgeTypes
  <2>2. CASE settings' \in Properties /\ calls' = calls \o Publications(settings, settings', cached')
    BY <2>2, PublicationsTyped DEF BridgeTypes
  <2> QED
    BY <1>1, <1>2, <2>1, <2>2, ItemChanged
<1>5. known
  BY <1>1 DEF BridgeTypes
<1>6. Items(stored') /\ requested' \subseteq Names /\ (~detected' => service' = NoRole)
  BY <1>1, <1>3 DEF BridgeTypes, Items
<1> QED
  BY <1>1, <1>2, <1>3, <1>4, <1>5, <1>6 DEF BridgeTypes


(* What a user may write is a value.                                       *)
LEMMA WritableValues ==
    ASSUME NEW n \in Names, NEW v \in Writable(n)
    PROVE  v \in Values(n)
<1>1. CASE n = "customName"
  BY <1>1 DEF Writable, Values
<1>2. CASE n = "role"
  BY <1>2 DEF Writable, Values
<1>3. CASE n = "phaseCount"
  <2>1. {0, 1, 3, 4} \subseteq 0 .. 4
    OBVIOUS
  <2> QED
    BY <1>3, <2>1 DEF Writable, Values
<1>4. CASE n = "isMultiphase"
  BY <1>4 DEF Writable, Values
<1>5. CASE n = "piggyEnabled"
  BY <1>5 DEF Writable, Values
<1> QED
  BY <1>1, <1>2, <1>3, <1>4, <1>5, NamesAre

(* The settings service has a value, and tells of it if it is new.         *)
LEMMA Stored ==
    ASSUME BridgeTypes, NEW n \in Names, NEW v \in Values(n), Store(n, v)
    PROVE  /\ Items(stored') /\ stored'[n] = v
           /\ \A m \in Names : m # n => stored'[m] = stored[m]
           /\ signals' \in Seq(Notices)
           /\ \/ signals' = signals /\ (~known \/ stored[n] = v)
              \/ known /\ signals' = Append(signals, [name |-> n, value |-> v])
<1>1. Items(stored) /\ signals \in Seq(Notices)
  BY DEF BridgeTypes
<1>2. stored' = [stored EXCEPT ![n] = v]
  BY DEF Store
<1>3. Items(stored')
  BY <1>1, <1>2, ItemSet
<1>4. stored'[n] = v
  BY <1>1, <1>2 DEF Items
<1>5. \A m \in Names : m # n => stored'[m] = stored[m]
  BY <1>1, <1>2, ItemSet
<1>6. CASE known /\ stored[n] # v
  <2> DEFINE notice == [name |-> n, value |-> v]
  <2>1. notice \in Notices
    BY NoticeMade
  <2>2. signals' = Append(signals, notice)
    BY <1>6 DEF Store
  <2> HIDE DEF notice
  <2>3. signals' \in Seq(Notices)
    BY <1>1, <2>1, <2>2, Appended
  <2> QED
    BY <1>3, <1>4, <1>5, <1>6, <2>2, <2>3 DEF notice
<1>7. CASE ~(known /\ stored[n] # v)
  <2>1. signals' = signals
    BY <1>7 DEF Store
  <2> QED
    BY <1>1, <1>3, <1>4, <1>5, <1>7, <2>1
<1> QED
  BY <1>6, <1>7

LEMMA NextCall ==
    ASSUME BridgeTypes, calls # <<>>
    PROVE  /\ Tail(calls) \in Seq(Messages)
           /\ Head(calls).name \in Names
           /\ \/ Head(calls).kind = "set" /\ Head(calls).value \in Values(Head(calls).name)
              \/ Head(calls).kind = "get"
<1>1. calls \in Seq(Messages)
  BY DEF BridgeTypes
<1>2. Tail(calls) \in Seq(Messages) /\ Head(calls) \in Messages
  BY <1>1, Popped
<1>3. CASE Head(calls) \in SetCalls
  BY <1>2, <1>3, SetCallIs
<1>4. CASE Head(calls) \in GetCalls
  BY <1>2, <1>4, GetCallIs
<1> QED
  BY <1>2, <1>3, <1>4 DEF Messages

(* A call that arrives stores a value, or asks for a notice.               *)
LEMMA CallServed ==
    ASSUME BridgeTypes, CallArrives,
           NEW n, n = Head(calls).name
    PROVE  /\ calls # <<>> /\ calls' = Tail(calls) /\ calls' \in Seq(Messages)
           /\ n \in Names
           /\ signals' \in Seq(Notices)
           /\ Items(stored')
           /\ \/ /\ Head(calls).kind = "set" /\ Head(calls).value \in Values(n)
                 /\ Store(n, Head(calls).value)
              \/ /\ Head(calls).kind = "get"
                 /\ [name |-> n, value |-> stored[n]] \in Notices
                 /\ signals' = Append(signals, [name |-> n, value |-> stored[n]])
                 /\ stored' = stored
<1>1. calls # <<>> /\ calls' = Tail(calls)
  BY DEF CallArrives
<1>2. /\ calls' \in Seq(Messages) /\ n \in Names
      /\ \/ Head(calls).kind = "set" /\ Head(calls).value \in Values(n)
         \/ Head(calls).kind = "get"
  BY <1>1, NextCall
<1>3. CASE Head(calls).kind = "set"
  <2>1. Head(calls).value \in Values(n) /\ Store(n, Head(calls).value)
    BY <1>2, <1>3 DEF CallArrives
  <2>2. signals' \in Seq(Notices) /\ Items(stored')
    BY <1>2, <2>1, Stored
  <2> QED
    BY <1>1, <1>2, <1>3, <2>1, <2>2
<1>4. CASE Head(calls).kind = "get"
  <2> DEFINE notice == [name |-> n, value |-> stored[n]]
  <2>1. signals' = Append(signals, notice) /\ stored' = stored
    BY <1>4 DEF CallArrives
  <2>2. signals \in Seq(Notices) /\ Items(stored) /\ stored[n] \in Values(n)
    BY <1>2 DEF BridgeTypes, Items
  <2>3. notice \in Notices
    BY <1>2, <2>2, NoticeMade
  <2> HIDE DEF notice
  <2>4. signals' \in Seq(Notices)
    BY <2>1, <2>2, <2>3, Appended
  <2>5. Items(stored')
    BY <2>1, <2>2 DEF Items
  <2> QED
    BY <1>1, <1>2, <1>4, <2>1, <2>3, <2>4, <2>5 DEF notice
<1> QED
  BY <1>2, <1>3, <1>4

LEMMA TypesCall ==
    ASSUME BridgeTypes, CallArrives
    PROVE  BridgeTypes'
<1>1. calls' \in Seq(Messages) /\ signals' \in Seq(Notices) /\ Items(stored')
  BY CallServed
<1>2. /\ cached' = cached /\ requested' = requested /\ known' = known /\ detected' = detected
      /\ settings' = settings /\ service' = service /\ published' = published
  BY DEF CallArrives, items, exports
<1>3. Items(cached')
  BY <1>2 DEF BridgeTypes, Items
<1>4. ASSUME ~known
      PROVE  signals' = <<>> /\ calls' \in Seq(SetCalls)
  <2>1. calls \in Seq(SetCalls) /\ calls # <<>> /\ calls' = Tail(calls) /\ signals = <<>>
    BY <1>4 DEF BridgeTypes, CallArrives
  <2>2. Head(calls) \in SetCalls /\ calls' \in Seq(SetCalls)
    BY <2>1, Popped
  <2>3. Head(calls).kind = "set" /\ Head(calls).name \in Names
    BY <2>2, SetCallIs
  <2>4. Store(Head(calls).name, Head(calls).value)
    BY <2>3 DEF CallArrives
  <2>5. signals' = signals
    BY <1>4, <2>4 DEF Store
  <2> QED
    BY <2>1, <2>2, <2>5
<1> QED
  BY <1>1, <1>2, <1>3, <1>4 DEF BridgeTypes

LEMMA TypesUser ==
    ASSUME BridgeTypes, NEW n \in Names, NEW v \in Writable(n), UserStores(n, v)
    PROVE  BridgeTypes'
<1>1. v \in Values(n) /\ Store(n, v)
  BY WritableValues DEF UserStores
<1>2. /\ signals' \in Seq(Notices) /\ Items(stored')
      /\ ~known => signals' = signals
  BY <1>1, Stored
<1>3. /\ cached' = cached /\ requested' = requested /\ known' = known /\ detected' = detected
      /\ calls' = calls
      /\ settings' = settings /\ service' = service /\ published' = published
  BY DEF UserStores, items, exports
<1>4. Items(cached')
  BY <1>3 DEF BridgeTypes, Items
<1> QED
  BY <1>2, <1>3, <1>4 DEF BridgeTypes

LEMMA ValueUpdated ==
    ASSUME BridgeTypes, NEW n \in Names, NEW v \in Writable(n), updateValue(n, v)
    PROVE  /\ settings' \in Properties
           /\ service' \in Roles \cup {NoRole}
           /\ service # NoRole
           /\ service' # NoRole => DOMAIN published' = Exported(service')
           /\ calls' = calls \o Publications(settings, settings', cached)
           /\ calls' \in Seq(Messages)
<1> DEFINE set == setProperty(settings, n, v)
<1>1. v \in Values(n)
  BY WritableValues
<1>2. set.settings \in Properties /\ set.heard \in BOOLEAN
  BY <1>1, PropertySet DEF BridgeTypes
<1>3. /\ followSettings(set.settings, set.heard)
      /\ calls' = calls \o Publications(settings, set.settings, cached)
      /\ service # NoRole
  BY DEF updateValue
<1> HIDE DEF set
<1>4. settings' = set.settings
  BY <1>3 DEF followSettings
<1>5. /\ service' \in Roles \cup {NoRole}
      /\ service' # NoRole => DOMAIN published' = Exported(service')
  BY <1>2, <1>3, FollowTyped
<1>6. settings \in Properties /\ calls \in Seq(Messages)
  BY DEF BridgeTypes
<1>7. calls' \in Seq(Messages)
  BY <1>2, <1>3, <1>6, PublicationsTyped
<1> QED
  BY <1>2, <1>3, <1>4, <1>5, <1>7

LEMMA TypesUpdate ==
    ASSUME BridgeTypes, NEW n \in Names, NEW v \in Writable(n), updateValue(n, v)
    PROVE  BridgeTypes'
<1>1. /\ settings' \in Properties /\ calls' \in Seq(Messages)
      /\ service' \in Roles \cup {NoRole} /\ service # NoRole
      /\ service' # NoRole => DOMAIN published' = Exported(service')
  BY ValueUpdated
<1>2. /\ stored' = stored /\ signals' = signals /\ detected' = detected
      /\ cached' = cached /\ requested' = requested /\ known' = known
  BY DEF updateValue, items
<1>3. known /\ detected
  BY <1>1 DEF BridgeTypes
<1>4. Items(stored') /\ Items(cached')
  BY <1>2 DEF BridgeTypes, Items
<1> QED
  BY <1>1, <1>2, <1>3, <1>4 DEF BridgeTypes

LEMMA TypesRestart ==
    ASSUME BridgeTypes, Restart
    PROVE  BridgeTypes'
<1>1. /\ calls' = Outlasting(calls) /\ signals' = <<>> /\ stored' = stored
      /\ cached' = [n \in Names |-> Property(NewProperties, n)]
      /\ requested' = Names /\ known' = FALSE /\ detected' = FALSE
      /\ settings' = NewProperties /\ service' = NoRole
  BY DEF Restart, unpublish
<1>2. calls' \in Seq(SetCalls)
  <2>1. \A m \in Messages : m.kind = "set" => m \in SetCalls
    BY GetCallIs DEF Messages
  <2> QED
    BY <1>1, <2>1, OutlastingTyped DEF BridgeTypes
<1>3. calls' \in Seq(Messages)
  BY <1>2, WiderSeq DEF Messages
<1>4. Items(cached') /\ Items(stored')
  BY <1>1, NewItems DEF BridgeTypes, Items
<1>5. <<>> \in Seq(Notices)
  OBVIOUS
<1> QED
  BY <1>1, <1>2, <1>3, <1>4, <1>5, NewPropertiesTyped DEF BridgeTypes

LEMMA TypesStep == BridgeTypes /\ [Next]_vars => BridgeTypes'
<1> SUFFICES ASSUME BridgeTypes, [Next]_vars PROVE BridgeTypes'
  OBVIOUS
<1>1. CASE onDeviceFound
  BY <1>1, TypesFound
<1>2. CASE SignalArrives
  BY <1>2, TypesSignal
<1>3. CASE onDeviceInitialized
  <2>1. settings.meter.role \in Roles \cup {NoRole}
    BY FieldsTyped DEF BridgeTypes, Properties
  <2>2. /\ service' = settings.meter.role /\ DOMAIN published' = Exported(service')
    BY <1>3 DEF onDeviceInitialized, publishAll
  <2> QED
    BY <1>3, <2>1, <2>2 DEF onDeviceInitialized, BridgeTypes, external, items, Items
<1>4. CASE onConnectionLost
  <2>1. known
    BY <1>4 DEF onConnectionLost, BridgeTypes
  <2> QED
    BY <1>4, <2>1, NewPropertiesTyped
    DEF onConnectionLost, unpublish, BridgeTypes, external, items, Items
<1>5. CASE onUpdateTimer
  <2>1. DOMAIN published' = DOMAIN published
    BY <1>5 DEF onUpdateTimer
  <2> QED
    BY <1>5, <2>1 DEF onUpdateTimer, BridgeTypes, external, items, Items
<1>6. ASSUME NEW c \in {0, 1}, setCurrent(c)
      PROVE  BridgeTypes'
  BY <1>6 DEF setCurrent, BridgeTypes, external, items, Items
<1>7. ASSUME NEW n \in {"customName", "role"}, NEW v \in Writable(n), updateValue(n, v)
      PROVE  BridgeTypes'
  BY <1>7, TypesUpdate, NamesAre
<1>8. CASE CallArrives
  BY <1>8, TypesCall
<1>9. ASSUME NEW n \in Names, NEW v \in Writable(n), UserStores(n, v)
      PROVE  BridgeTypes'
  BY <1>9, TypesUser
<1>10. CASE Restart
  BY <1>10, TypesRestart
<1>11. CASE UNCHANGED vars
  BY <1>11 DEF vars, BridgeTypes, Items
<1> QED
  BY <1>1, <1>2, <1>3, <1>4, <1>5, <1>6, <1>7, <1>8, <1>9, <1>10, <1>11 DEF Next


-----------------------------------------------------------------------------
(* The argument for CopiesAgree.  Told: the last that the service tells of *)
(* a setting is the value that it has; if it tells nothing, the item has   *)
(* it.  Followed: an item and its property agree, or a call is under way   *)
(* that sets the item to the property, or the item is about to change.     *)
Late(q, n, v) == \E i \in 1 .. Len(q) : q[i].name = n /\ q[i].value # v

Told(n) ==
    \/ Tells(signals, n, stored[n])
    \/ Silent(signals, n) /\ (n \in requested \/ cached[n] = stored[n])

Followed(n) ==
    detected /\ n \notin requested =>
        Carried(n, settings, calls, cached) \/ Late(signals, n, cached[n])

Agreement == \A n \in Names : Told(n) /\ Followed(n)

LEMMA LateAppended ==
    ASSUME NEW S, NEW q \in Seq(S), NEW m \in S, NEW r, r = Append(q, m),
           NEW n, NEW v, Late(q, n, v)
    PROVE  Late(r, n, v)
<1>1. PICK i \in 1 .. Len(q) : q[i].name = n /\ q[i].value # v
  BY DEF Late
<1>2. i \in 1 .. Len(r) /\ r[i] = q[i]
  BY Appended
<1> QED
  BY <1>1, <1>2 DEF Late

LEMMA LatePopped ==
    ASSUME NEW S, NEW q \in Seq(S), q # <<>>, NEW n, NEW v, Late(q, n, v),
           ~(Head(q).name = n /\ Head(q).value # v)
    PROVE  Late(Tail(q), n, v)
<1> DEFINE r == Tail(q)
<1>1. /\ Head(q) = q[1]
      /\ Len(q) \in Nat \ {0} /\ Len(r) \in Nat /\ Len(r) = Len(q) - 1
      /\ \A i \in 1 .. Len(r) : r[i] = q[i + 1]
  BY Popped
<1> HIDE DEF r
<1>2. PICK i \in 1 .. Len(q) : q[i].name = n /\ q[i].value # v
  BY DEF Late
<1>3. i # 1
  BY <1>1, <1>2
<1>4. i - 1 \in 1 .. Len(r) /\ r[i - 1] = q[i]
  BY <1>1, <1>3
<1>5. Late(r, n, v)
  BY <1>2, <1>4 DEF Late
<1> QED
  BY <1>5 DEF r

LEMMA TellsLate ==
    ASSUME NEW q, NEW n, NEW v, NEW w, Len(q) \in Nat, Tells(q, n, w), w # v
    PROVE  Late(q, n, v)
<1>1. PICK i \in 1 .. Len(q) :
        q[i].name = n /\ \A j \in i .. Len(q) : q[j].name = n => q[j].value = w
  BY DEF Tells
<1>2. i \in i .. Len(q)
  OBVIOUS
<1> QED
  BY <1>1, <1>2 DEF Late

(* The service has told of what is stored.                                 *)
LEMMA StoreTold ==
    ASSUME BridgeTypes, NEW m \in Names, NEW v \in Values(m), Store(m, v),
           cached' = cached, requested' = requested,
           NEW n \in Names, Told(n)
    PROVE  Told(n)'
<1>1. /\ stored'[m] = v
      /\ n # m => stored'[n] = stored[n]
      /\ \/ signals' = signals /\ (~known \/ stored[m] = v)
         \/ known /\ signals' = Append(signals, [name |-> m, value |-> v])
  BY Stored
<1>2. CASE signals' = signals /\ ~known
  <2>1. signals' = <<>> /\ n \in requested'
    BY <1>2 DEF BridgeTypes
  <2>2. Silent(signals', n)
    BY <2>1 DEF Silent
  <2> QED
    BY <2>1, <2>2 DEF Told
<1>3. CASE signals' = signals /\ stored[m] = v
  <2>1. stored'[n] = stored[n]
    BY <1>1, <1>3
  <2> QED
    BY <1>3, <2>1 DEF Told
<1>4. CASE known /\ signals' = Append(signals, [name |-> m, value |-> v])
  <2> DEFINE notice == [name |-> m, value |-> v]
  <2>1. notice \in Notices /\ signals \in Seq(Notices) /\ signals' = Append(signals, notice)
    BY <1>4, NoticeMade DEF BridgeTypes
  <2>2. notice.name = m /\ notice.value = v
    OBVIOUS
  <2> HIDE DEF notice
  <2>3. /\ Tells(signals', m, v)
        /\ n # m => /\ Silent(signals, n) => Silent(signals', n)
                    /\ \A w : Tells(signals, n, w) => Tells(signals', n, w)
    BY <2>1, <2>2, TellsAppended
  <2>4. CASE n = m
    BY <1>1, <2>3, <2>4 DEF Told
  <2>5. CASE n # m
    BY <1>1, <2>3, <2>5 DEF Told
  <2> QED
    BY <2>4, <2>5
<1> QED
  BY <1>1, <1>2, <1>3, <1>4

LEMMA StoreLate ==
    ASSUME BridgeTypes, NEW m \in Names, NEW v \in Values(m), Store(m, v),
           NEW n, NEW w, Late(signals, n, w)
    PROVE  Late(signals', n, w)
<1> DEFINE notice == [name |-> m, value |-> v]
<1>1. notice \in Notices /\ signals \in Seq(Notices)
  BY NoticeMade DEF BridgeTypes
<1>2. signals' = signals \/ signals' = Append(signals, notice)
  BY Stored
<1> HIDE DEF notice
<1> QED
  BY <1>1, <1>2, LateAppended

(* A call that arrives and is none for n leaves those for n as they are.   *)
LEMMA OtherCall ==
    ASSUME BridgeTypes, calls # <<>>, NEW n, Carried(n, settings, calls, cached),
           ~Sets(Head(calls), n)
    PROVE  Carried(n, settings, Tail(calls), cached)
<1>1. calls \in Seq(Messages)
  BY DEF BridgeTypes
<1> QED
  BY <1>1, EndPopped DEF Carried

LEMMA CallAgrees ==
    ASSUME BridgeTypes, Agreement, CallArrives
    PROVE  Agreement'
<1> DEFINE m == Head(calls).name
           v == Head(calls).value
<1>1. /\ calls # <<>> /\ calls' = Tail(calls) /\ m \in Names
      /\ signals \in Seq(Notices) /\ signals' \in Seq(Notices)
      /\ \/ Head(calls).kind = "set" /\ v \in Values(m) /\ Store(m, v)
         \/ /\ Head(calls).kind = "get"
            /\ [name |-> m, value |-> stored[m]] \in Notices
            /\ signals' = Append(signals, [name |-> m, value |-> stored[m]])
            /\ stored' = stored
  BY CallServed DEF BridgeTypes
<1>2. /\ cached' = cached /\ requested' = requested /\ known' = known /\ detected' = detected
      /\ settings' = settings
  BY DEF CallArrives, items
<1>3. CASE Head(calls).kind = "set"
  <2>1. v \in Values(m) /\ Store(m, v)
    BY <1>1, <1>3
  <2> SUFFICES ASSUME NEW n \in Names PROVE Told(n)' /\ Followed(n)'
    BY DEF Agreement
  <2>2. Told(n) /\ Followed(n)
    BY DEF Agreement
  <2> HIDE DEF v
  <2>3. Told(n)'
    BY <1>1, <1>2, <2>1, <2>2, StoreTold
  <2>4. Followed(n)'
    <3> SUFFICES ASSUME detected, n \notin requested
                 PROVE  Carried(n, settings, calls', cached) \/ Late(signals', n, cached[n])
      BY <1>2 DEF Followed
    <3>1. CASE Late(signals, n, cached[n])
      BY <1>1, <2>1, <3>1, StoreLate
    <3>2. CASE Carried(n, settings, calls, cached) /\ ~(n = m /\ v = Property(settings, n))
      <4>1. CASE Property(settings, n) = Adopted(n, cached[n])
        BY <4>1 DEF Carried
      <4>2. CASE EndsIn(calls, n, Property(settings, n))
        <5>1. EndsIn(calls', n, Property(settings, n))
          BY <1>1, <3>2, <4>2, EndPopped DEF Sets, BridgeTypes, v
        <5> QED
          BY <5>1 DEF Carried
      <4> QED
        BY <3>2, <4>1, <4>2 DEF Carried
    <3>3. CASE n = m /\ v = Property(settings, n)
      <4>1. stored'[n] = Property(settings, n)
        BY <1>1, <2>1, <3>3, Stored
      <4>2. CASE cached[n] = Property(settings, n)
        BY <4>2, PropertyTyped DEF Carried, BridgeTypes
      <4>3. CASE cached[n] # Property(settings, n)
        <5>1. Tells(signals', n, stored'[n])
          BY <1>2, <2>3, <4>1, <4>3 DEF Told
        <5> QED
          BY <1>1, <4>1, <4>3, <5>1, TellsLate, LenProperties
      <4> QED
        BY <4>2, <4>3
    <3> QED
      BY <2>2, <3>1, <3>2, <3>3 DEF Followed
  <2> QED
    BY <2>3, <2>4
<1>4. CASE Head(calls).kind = "get"
  <2> DEFINE notice == [name |-> m, value |-> stored[m]]
  <2>1. notice \in Notices /\ signals' = Append(signals, notice) /\ stored' = stored
    BY <1>1, <1>4
  <2>2. notice.name = m /\ notice.value = stored[m]
    OBVIOUS
  <2> HIDE DEF notice
  <2> SUFFICES ASSUME NEW n \in Names PROVE Told(n)' /\ Followed(n)'
    BY DEF Agreement
  <2>3. Told(n) /\ Followed(n)
    BY DEF Agreement
  <2>4. Told(n)'
    <3>1. /\ Tells(signals', m, stored[m])
          /\ n # m => /\ Silent(signals, n) => Silent(signals', n)
                      /\ \A w : Tells(signals, n, w) => Tells(signals', n, w)
      BY <1>1, <2>1, <2>2, TellsAppended
    <3>2. CASE n = m
      BY <2>1, <3>1, <3>2 DEF Told
    <3>3. CASE n # m
      BY <1>2, <2>1, <2>3, <3>1, <3>3 DEF Told
    <3> QED
      BY <3>2, <3>3
  <2>5. Followed(n)'
    <3> SUFFICES ASSUME detected, n \notin requested
                 PROVE  Carried(n, settings, calls', cached) \/ Late(signals', n, cached[n])
      BY <1>2 DEF Followed
    <3>1. CASE Late(signals, n, cached[n])
      BY <1>1, <2>1, <3>1, LateAppended
    <3>2. CASE Carried(n, settings, calls, cached)
      BY <1>1, <1>4, <3>2, OtherCall DEF Sets
    <3> QED
      BY <2>3, <3>1, <3>2 DEF Followed
  <2> QED
    BY <2>4, <2>5
<1> QED
  BY <1>1, <1>3, <1>4


LEMMA SignalAgrees ==
    ASSUME BridgeTypes, Agreement, SignalArrives
    PROVE  Agreement'
<1> DEFINE m == Head(signals).name
           v == Head(signals).value
<1>1. /\ signals # <<>> /\ signals' = Tail(signals) /\ onVBusItemChanged(m, v)
      /\ stored' = stored /\ known' = known /\ detected' = detected
  BY DEF SignalArrives
<1>2. m \in Names /\ v \in Values(m) /\ signals \in Seq(Notices)
  BY <1>1, NextNotice DEF BridgeTypes
<1>3. /\ cached'[m] = v
      /\ \A n \in Names : n # m => cached'[n] = cached[n]
      /\ requested' = requested \ {m}
      /\ \/ /\ detected => m \notin requested /\ cached[m] = v
            /\ settings' = settings /\ calls' = calls
         \/ /\ settings' \in Properties
            /\ Property(settings', m) = Adopted(m, v)
            /\ calls' = calls \o Publications(settings, settings', cached')
  BY <1>1, <1>2, ItemChanged
<1> SUFFICES ASSUME NEW n \in Names PROVE Told(n)' /\ Followed(n)'
  BY DEF Agreement
<1>4. Told(n) /\ Followed(n)
  BY DEF Agreement
<1>5. Told(n)'
  <2>1. CASE Tells(signals, n, stored[n])
    <3>1. CASE Tells(Tail(signals), n, stored[n])
      BY <1>1, <3>1 DEF Told
    <3>2. CASE m = n /\ v = stored[n] /\ Silent(Tail(signals), n)
      BY <1>1, <1>3, <3>2 DEF Told
    <3> QED
      BY <1>1, <1>2, <2>1, <3>1, <3>2, TellsPopped
  <2>2. CASE Silent(signals, n) /\ (n \in requested \/ cached[n] = stored[n])
    <3>1. Silent(Tail(signals), n) /\ m # n
      BY <1>1, <1>2, <2>2, SilentPopped
    <3> QED
      BY <1>1, <1>3, <2>2, <3>1 DEF Told
  <2> QED
    BY <1>4, <2>1, <2>2 DEF Told
<1>6. Followed(n)'
  <2> SUFFICES ASSUME detected, n \notin requested'
               PROVE  Carried(n, settings', calls', cached') \/ Late(signals', n, cached'[n])
    BY <1>1 DEF Followed
  <2>1. CASE /\ detected => m \notin requested /\ cached[m] = v
             /\ settings' = settings /\ calls' = calls
    <3>1. n \notin requested /\ cached'[n] = cached[n]
      BY <1>3, <2>1
    <3>2. CASE Carried(n, settings, calls, cached)
      BY <2>1, <3>1, <3>2 DEF Carried
    <3>3. CASE Late(signals, n, cached[n])
      <4>1. ~(m = n /\ v # cached[n])
        BY <2>1
      <4>2. Late(Tail(signals), n, cached[n])
        BY <1>1, <1>2, <3>3, <4>1, LatePopped
      <4> QED
        BY <1>1, <3>1, <4>2
    <3> QED
      BY <1>4, <3>1, <3>2, <3>3 DEF Followed
  <2>2. CASE /\ settings' \in Properties
             /\ Property(settings', m) = Adopted(m, v)
             /\ calls' = calls \o Publications(settings, settings', cached')
    <3>1. CASE n = m
      BY <1>3, <2>2, <3>1 DEF Carried
    <3>2. CASE n # m
      <4>1. n \notin requested /\ cached'[n] = cached[n]
        BY <1>3, <3>2
      <4>2. CASE Carried(n, settings, calls, cached)
        <5>1. Carried(n, settings, calls, cached')
          BY <4>1, <4>2 DEF Carried
        <5>2. settings \in Properties /\ calls \in Seq(Messages)
          BY DEF BridgeTypes
        <5>3. /\ Tell(Publications(settings, settings', cached'), settings, settings', cached', Names)
              /\ Publications(settings, settings', cached') \in Seq(Messages)
          BY <2>2, <5>2, AllTold, PublicationsTyped
        <5>4. Carried(n, settings', calls \o Publications(settings, settings', cached'), cached')
          BY <2>2, <5>1, <5>2, <5>3, CarriedOn
        <5> QED
          BY <2>2, <5>4
      <4>3. CASE Late(signals, n, cached[n])
        <5>1. Late(Tail(signals), n, cached[n])
          BY <1>1, <1>2, <3>2, <4>3, LatePopped
        <5> QED
          BY <1>1, <4>1, <5>1
      <4> QED
        BY <1>4, <4>1, <4>2, <4>3 DEF Followed
    <3> QED
      BY <3>1, <3>2
  <2> QED
    BY <1>3, <2>1, <2>2
<1> QED
  BY <1>5, <1>6

LEMMA UpdateAgrees ==
    ASSUME BridgeTypes, Agreement, NEW m \in Names, NEW v \in Writable(m), updateValue(m, v)
    PROVE  Agreement'
<1>1. /\ settings' \in Properties
      /\ calls' = calls \o Publications(settings, settings', cached)
  BY ValueUpdated
<1>2. /\ stored' = stored /\ signals' = signals /\ detected' = detected
      /\ cached' = cached /\ requested' = requested
  BY DEF updateValue, items
<1>3. settings \in Properties /\ calls \in Seq(Messages)
  BY DEF BridgeTypes
<1>4. /\ Tell(Publications(settings, settings', cached), settings, settings', cached, Names)
      /\ Publications(settings, settings', cached) \in Seq(Messages)
  BY <1>1, <1>3, AllTold, PublicationsTyped
<1> SUFFICES ASSUME NEW n \in Names PROVE Told(n)' /\ Followed(n)'
  BY DEF Agreement
<1>5. Told(n) /\ Followed(n)
  BY DEF Agreement
<1>6. ASSUME Carried(n, settings, calls, cached)
      PROVE  Carried(n, settings', calls', cached)
  <2>1. Carried(n, settings', calls \o Publications(settings, settings', cached), cached)
    BY <1>1, <1>3, <1>4, <1>6, CarriedOn
  <2> QED
    BY <1>1, <2>1
<1> QED
  BY <1>2, <1>5, <1>6 DEF Told, Followed

LEMMA FoundAgrees ==
    ASSUME BridgeTypes, Agreement, onDeviceFound
    PROVE  Agreement'
<1> DEFINE l == load(NewProperties)
<1>1. /\ stored' = stored /\ signals' = signals /\ cached' = cached /\ requested' = requested
      /\ settings' = l.settings
  BY DEF onDeviceFound
<1>2. Loaded(l, Names)
  BY NewPropertiesTyped, AllConsumed DEF BridgeTypes
<1>3. l.calls \in Seq(Messages) /\ calls \in Seq(Messages)
  BY FoundCalls DEF BridgeTypes
<1>4. known => calls' = calls \o l.calls
  BY FoundCalls
<1> HIDE DEF l
<1> SUFFICES ASSUME NEW n \in Names PROVE Told(n)' /\ Followed(n)'
  BY DEF Agreement
<1>5. Told(n)
  BY DEF Agreement
<1>6. ASSUME n \notin requested
      PROVE  Carried(n, settings', calls', cached)
  <2>1. known
    BY <1>6 DEF BridgeTypes
  <2>2. Carried(n, l.settings, l.calls, cached)
    BY <1>2, <1>6 DEF Loaded
  <2>3. CASE Property(l.settings, n) = Adopted(n, cached[n])
    BY <1>1, <2>3 DEF Carried
  <2>4. CASE EndsIn(l.calls, n, Property(l.settings, n))
    <3>1. EndsIn(calls \o l.calls, n, Property(l.settings, n))
      BY <1>3, <2>4, EndJoined
    <3> QED
      BY <1>1, <1>4, <2>1, <3>1 DEF Carried
  <2> QED
    BY <2>2, <2>3, <2>4 DEF Carried
<1> QED
  BY <1>1, <1>5, <1>6 DEF Told, Followed

LEMMA UserAgrees ==
    ASSUME BridgeTypes, Agreement, NEW m \in Names, NEW v \in Writable(m), UserStores(m, v)
    PROVE  Agreement'
<1>1. v \in Values(m) /\ Store(m, v)
  BY WritableValues DEF UserStores
<1>2. /\ cached' = cached /\ requested' = requested /\ detected' = detected
      /\ settings' = settings /\ calls' = calls
  BY DEF UserStores, items
<1> SUFFICES ASSUME NEW n \in Names PROVE Told(n)' /\ Followed(n)'
  BY DEF Agreement
<1>3. Told(n) /\ Followed(n)
  BY DEF Agreement
<1>4. Told(n)'
  BY <1>1, <1>2, <1>3, StoreTold
<1>5. Late(signals, n, cached[n]) => Late(signals', n, cached[n])
  BY <1>1, StoreLate
<1> QED
  BY <1>2, <1>3, <1>4, <1>5 DEF Followed

LEMMA AgreementInit == Init => Agreement
<1> SUFFICES ASSUME Init, NEW n \in Names PROVE Told(n) /\ Followed(n)
  BY DEF Agreement
<1>1. signals = <<>> /\ requested = Names /\ ~detected
  BY DEF Init
<1>2. Silent(signals, n)
  BY <1>1 DEF Silent
<1> QED
  BY <1>1, <1>2 DEF Told, Followed

LEMMA AgreementStep == BridgeTypes /\ Agreement /\ [Next]_vars => Agreement'
<1> SUFFICES ASSUME BridgeTypes, Agreement, [Next]_vars PROVE Agreement'
  OBVIOUS
<1>1. CASE onDeviceFound
  BY <1>1, FoundAgrees
<1>2. CASE SignalArrives
  BY <1>2, SignalAgrees
<1>3. CASE onDeviceInitialized
  BY <1>3 DEF onDeviceInitialized, external, items, Agreement, Told, Followed
<1>4. CASE onConnectionLost
  BY <1>4 DEF onConnectionLost, external, items, Agreement, Told, Followed
<1>5. CASE onUpdateTimer
  BY <1>5 DEF onUpdateTimer, external, items, Agreement, Told, Followed
<1>6. ASSUME NEW c \in {0, 1}, setCurrent(c)
      PROVE  Agreement'
  BY <1>6 DEF setCurrent, external, items, Agreement, Told, Followed
<1>7. ASSUME NEW n \in {"customName", "role"}, NEW v \in Writable(n), updateValue(n, v)
      PROVE  Agreement'
  BY <1>7, UpdateAgrees, NamesAre
<1>8. CASE CallArrives
  BY <1>8, CallAgrees
<1>9. ASSUME NEW n \in Names, NEW v \in Writable(n), UserStores(n, v)
      PROVE  Agreement'
  BY <1>9, UserAgrees
<1>10. CASE Restart
  <2> SUFFICES ASSUME NEW n \in Names PROVE Told(n)' /\ Followed(n)'
    BY DEF Agreement
  <2>1. signals' = <<>> /\ requested' = Names /\ ~detected'
    BY <1>10 DEF Restart
  <2>2. Silent(signals', n)
    BY <2>1 DEF Silent
  <2> QED
    BY <2>1, <2>2 DEF Told, Followed
<1>11. CASE UNCHANGED vars
  BY <1>11 DEF vars, Agreement, Told, Followed
<1> QED
  BY <1>1, <1>2, <1>3, <1>4, <1>5, <1>6, <1>7, <1>8, <1>9, <1>10, <1>11 DEF Next

LEMMA AgreementQuiet == BridgeTypes /\ Agreement => CopiesAgree
<1> SUFFICES ASSUME BridgeTypes, Agreement, detected, requested = {}, Quiet, NEW n \in Names
             PROVE  cached[n] = stored[n] /\ Property(settings, n) = ValueOf(n)
  BY DEF CopiesAgree
<1>1. Told(n) /\ Followed(n) /\ signals = <<>> /\ calls = <<>>
  BY DEF Agreement, Quiet
<1>2. Len(signals) = 0 /\ Len(calls) = 0
  BY <1>1
<1>3. ~Tells(signals, n, stored[n]) /\ ~Late(signals, n, cached[n])
  BY <1>2 DEF Tells, Late
<1>4. ~EndsIn(calls, n, Property(settings, n))
  BY <1>2 DEF EndsIn
<1>5. cached[n] = stored[n]
  BY <1>1, <1>3 DEF Told
<1>6. Property(settings, n) = Adopted(n, cached[n])
  BY <1>1, <1>3, <1>4 DEF Followed, Carried
<1> QED
  BY <1>5, <1>6 DEF Adopted, ValueOf

(* "DBusBridge will also update the QT property if the DBus object         *)
(* changes" (dbus_bridge.h:23), and the other way round: whatever the users*)
(* write, to the settings service or to the service of the meter, and      *)
(* however often the connection is lost or the process restarted, the      *)
(* settings service, the items and the properties agree when all items     *)
(* have a value and no message is under way (onPropertyChanged,            *)
(* onVBusItemChanged and consume of dbus_bridge.cpp).                      *)
THEOREM CopiesComeToAgree == Spec => []CopiesAgree
<1>1. Init => BridgeTypes /\ Agreement
  BY TypesInit, AgreementInit
<1>2. BridgeTypes /\ Agreement /\ [Next]_vars => (BridgeTypes /\ Agreement)'
  BY TypesStep, AgreementStep
<1> QED
  BY <1>1, <1>2, AgreementQuiet, PTL DEF Spec


-----------------------------------------------------------------------------
(* The argument for NothingUnpublished: of two items that show the same    *)
(* property only the first is ever marked, so it holds of the first items. *)
FirstItems == {"/CustomName", "/Ac/L1/Current"}

FirstItemsShown ==
    service # NoRole =>
        \A i \in FirstItems \ changed : published[i] = SourceValue(i, settings, current)

LEMMA FirstExported ==
    ASSUME NEW role
    PROVE  FirstItems \subseteq Exported(role)
BY DEF FirstItems, Exported

LEMMA AllShown ==
    ASSUME NEW s, publishAll(s), settings' = s, current' = current
    PROVE  FirstItemsShown'
<1>1. published' = [i \in Exported(s.meter.role) |-> SourceValue(i, s, current)]
  BY DEF publishAll
<1>2. ASSUME NEW i \in FirstItems
      PROVE  published'[i] = SourceValue(i, s, current)
  <2>1. i \in Exported(s.meter.role)
    BY FirstExported
  <2> HIDE DEF FirstItemsShown
  <2> QED
    BY <1>1, <2>1
<1> QED
  BY <1>2 DEF FirstItemsShown, SourceValue

LEMMA FollowShown ==
    ASSUME BridgeTypes, FirstItemsShown, NEW new, NEW heard, followSettings(new, heard)
    PROVE  FirstItemsShown'
<1>1. settings' = new /\ current' = current
  BY DEF followSettings
<1>2. CASE service # NoRole /\ heard
  BY <1>1, <1>2, AllShown DEF followSettings
<1>3. CASE ~(service # NoRole /\ heard)
  <2>1. /\ service' = service /\ published' = published
        /\ changed' = IF service # NoRole /\ new.customName # settings.customName
                      THEN changed \cup {FirstItem("customName")} ELSE changed
    BY <1>3 DEF followSettings
  <2> SUFFICES ASSUME service # NoRole, NEW i \in FirstItems \ changed'
               PROVE  published[i] = SourceValue(i, new, current)
    BY <1>1, <2>1 DEF FirstItemsShown, SourceValue
  <2>2. i \in FirstItems \ changed
    BY <2>1
  <2>3. published[i] = SourceValue(i, settings, current)
    BY <2>2 DEF FirstItemsShown
  <2>4. CASE i = "/CustomName"
    <3>1. new.customName = settings.customName
      BY <2>1, <2>4 DEF FirstItem
    <3> QED
      BY <2>3, <2>4, <3>1 DEF SourceValue
  <2>5. CASE i # "/CustomName"
    BY <2>3, <2>5 DEF SourceValue
  <2> QED
    BY <2>4, <2>5
<1> QED
  BY <1>2, <1>3

LEMMA FirstItemsStep == BridgeTypes /\ FirstItemsShown /\ [Next]_vars => FirstItemsShown'
<1> SUFFICES ASSUME BridgeTypes, FirstItemsShown, [Next]_vars PROVE FirstItemsShown'
  OBVIOUS
<1> DEFINE Same == /\ settings' = settings /\ current' = current /\ service' = service
                   /\ published' = published /\ changed' = changed
<1>0. Same => FirstItemsShown'
  BY DEF FirstItemsShown, SourceValue
<1>1. CASE onDeviceFound
  <2>1. service' = service /\ ~detected
    BY <1>1 DEF onDeviceFound, exports
  <2> QED
    BY <2>1 DEF BridgeTypes, FirstItemsShown
<1>2. CASE SignalArrives
  <2> DEFINE n == Head(signals).name
             v == Head(signals).value
             set == setProperty(settings, n, v)
  <2>1. onVBusItemChanged(n, v)
    BY <1>2 DEF SignalArrives
  <2>2. CASE detected /\ (n \in requested \/ cached[n] # v)
    <3>1. followSettings(set.settings, set.heard)
      BY <2>1, <2>2 DEF onVBusItemChanged
    <3> HIDE DEF set
    <3> QED
      BY <3>1, FollowShown
  <2>3. CASE ~(detected /\ (n \in requested \/ cached[n] # v))
    BY <1>0, <2>1, <2>3 DEF onVBusItemChanged, exports
  <2> QED
    BY <2>2, <2>3
<1>3. CASE onDeviceInitialized
  BY <1>3, AllShown DEF onDeviceInitialized
<1>4. CASE onConnectionLost
  BY <1>4 DEF onConnectionLost, unpublish, FirstItemsShown
<1>5. CASE onUpdateTimer
  <2>1. /\ published' = [i \in DOMAIN published |->
               IF i \in changed THEN SourceValue(i, settings, current) ELSE published[i]]
        /\ service # NoRole /\ settings' = settings /\ current' = current
    BY <1>5 DEF onUpdateTimer, Published
  <2>2. DOMAIN published = Exported(service)
    BY <2>1 DEF BridgeTypes
  <2>3. ASSUME NEW i \in FirstItems
        PROVE  published'[i] = SourceValue(i, settings, current)
    <3>1. i \in DOMAIN published
      BY <2>2, FirstExported
    <3>2. i \notin changed => published[i] = SourceValue(i, settings, current)
      BY <2>1, <2>3 DEF FirstItemsShown
    <3> QED
      BY <2>1, <3>1, <3>2
  <2> QED
    BY <2>1, <2>3 DEF FirstItemsShown, SourceValue
<1>6. ASSUME NEW c \in {0, 1}, setCurrent(c)
      PROVE  FirstItemsShown'
  <2>1. /\ settings' = settings /\ service' = service /\ published' = published
        /\ changed' = changed \cup {"/Ac/L1/Current"}
    BY <1>6 DEF setCurrent, FirstItem
  <2> SUFFICES ASSUME service # NoRole, NEW i \in FirstItems \ changed'
               PROVE  published[i] = SourceValue(i, settings, current')
    BY <2>1 DEF FirstItemsShown, SourceValue
  <2>2. i = "/CustomName" /\ i \in FirstItems \ changed
    BY <2>1 DEF FirstItems
  <2> QED
    BY <2>2 DEF FirstItemsShown, SourceValue
<1>7. ASSUME NEW n \in {"customName", "role"}, NEW v \in Writable(n), updateValue(n, v)
      PROVE  FirstItemsShown'
  <2> DEFINE set == setProperty(settings, n, v)
  <2>1. followSettings(set.settings, set.heard)
    BY <1>7 DEF updateValue
  <2> HIDE DEF set
  <2> QED
    BY <2>1, FollowShown
<1>8. CASE CallArrives
  BY <1>0, <1>8 DEF CallArrives, exports
<1>9. ASSUME NEW n \in Names, NEW v \in Writable(n), UserStores(n, v)
      PROVE  FirstItemsShown'
  BY <1>0, <1>9 DEF UserStores, exports
<1>10. CASE Restart
  BY <1>10 DEF Restart, unpublish, FirstItemsShown
<1>11. CASE UNCHANGED vars
  BY <1>0, <1>11 DEF vars
<1> QED
  BY <1>1, <1>2, <1>3, <1>4, <1>5, <1>6, <1>7, <1>8, <1>9, <1>10, <1>11 DEF Next

(* "Whenever the value of a QT property changes, the associated SetItem    *)
(* function will be called on the DBus" (dbus_bridge.h:21), for the first  *)
(* of the items that show a property, and all roles: the item shows the    *)
(* property, or is marked to be published (publishValue and onUpdateTimer  *)
(* of dbus_bridge.cpp).                                                    *)
THEOREM FirstItemsStayPublished == Spec => []FirstItemsShown
<1>1. Init => BridgeTypes /\ FirstItemsShown
  BY TypesInit DEF Init, FirstItemsShown
<1>2. BridgeTypes /\ FirstItemsShown /\ [Next]_vars => (BridgeTypes /\ FirstItemsShown)'
  BY TypesStep, FirstItemsStep
<1> QED
  BY <1>1, <1>2, PTL DEF Spec

(* The same of all items of the service, unless the meter may be that of   *)
(* an EV charger, which has two items for one current.                     *)
THEOREM NothingStaysUnpublished ==
    ASSUME "evcharger" \notin Roles
    PROVE  Spec => []NothingUnpublished
<1>1. BridgeTypes /\ FirstItemsShown => NothingUnpublished
  <2> SUFFICES ASSUME BridgeTypes, FirstItemsShown, service # NoRole
               PROVE  \A i \in Exported(service) \ changed :
                          published[i] = SourceValue(i, settings, current)
    BY DEF NothingUnpublished
  <2>1. service \in Roles
    BY DEF BridgeTypes
  <2>2. Exported(service) = FirstItems
    BY <2>1 DEF Exported, FirstItems
  <2> QED
    BY <2>2 DEF FirstItemsShown
<1>2. Init => BridgeTypes /\ FirstItemsShown
  BY TypesInit DEF Init, FirstItemsShown
<1>3. BridgeTypes /\ FirstItemsShown /\ [Next]_vars => (BridgeTypes /\ FirstItemsShown)'
  BY TypesStep, FirstItemsStep
<1> QED
  BY <1>1, <1>2, <1>3, PTL DEF Spec

=============================================================================
