----------------------------- MODULE DBusBridge -----------------------------
(***************************************************************************)
(* DBusBridge (dbus_bridge.cpp) in both of its uses.  It binds             *)
(* AcSensorSettings to the settings service of the system: what is stored  *)
(* there, the item that the process has of it, and the property are three  *)
(* copies, each of which may be changed by somebody else.  And it publishes*)
(* the properties of a meter as a service: a changed property is marked,   *)
(* and published when the timer runs out, or the sweep over the meter ends.*)
(*                                                                         *)
(* The settings service, and the items as far as they belong to velib, are *)
(* external.  What the code uses of them: the service tells of each change *)
(* of a value, messages arrive in their order, an item has the value it    *)
(* was last told of, and one that is set to the value it has sends nothing.*)
(***************************************************************************)
EXTENDS AcSensorSettings

CONSTANTS
    CustomNames,    \* names the user may choose
    MaxWrites,      \* bound: what users write, and the meter measures
    MaxLosses       \* bound: losses of the connection, and ends of the process

ASSUME BridgeAssumption == MaxWrites \in Nat /\ MaxLosses \in Nat /\ Roles # {}

(* The items of AcSensorSettingsBridge, in the order of its constructor.   *)
SettingNames == <<"customName", "role", "isMultiphase", "phaseCount", "piggyEnabled">>
Names == {SettingNames[i] : i \in 1 .. Len(SettingNames)}

(* What may be written to them; "" is no value of a role.                  *)
Writable(n) ==
    CASE n = "customName" -> CustomNames
      [] n = "role" -> Roles
      [] n = "phaseCount" -> {0, 1, 3, 4}
      [] OTHER -> BOOLEAN

VARIABLES
    stored,         \* external: the values in the settings service
    calls,          \* external: SetValue and GetValue calls on their way to it
    signals,        \* external: changes and replies on their way to the process
    cached,         \* the values of the items
    requested,      \* the items without a value (VeQItem::Requested)
    known,          \* items have been made since the process started
    detected,       \* AcSensorSettings and its bridge exist
    settings,       \* the properties of AcSensorSettings
    current,        \* the property of the phase L1, 0 when there is no value
    service,        \* role of the service of the meter, or NoRole
    published,      \* the values of its items
    changed,        \* its items with BusItemBridge::changed
    writes, losses

external == <<stored, calls, signals>>
items == <<cached, requested, known>>
exports == <<current, service, published, changed>>
vars == <<stored, calls, signals, cached, requested, known, detected, settings,
          current, service, published, changed, writes, losses>>

-----------------------------------------------------------------------------
(* The settings of a meter of several phases; onDeviceFound sets           *)
(* isMultiphase.  The custom name is none of the fields of                 *)
(* AcSensorSettings, and stands beside them.                               *)
NoName == ""

NewProperties ==
    [customName |-> NoName,
     meter |-> [NewSettings(NoSerial, TRUE) EXCEPT !.isMultiphase = TRUE]]

Property(s, n) == IF n = "customName" THEN s.customName ELSE s.meter[n]

(* setProperty: the setter, whose signals the mediator hears.              *)
setProperty(s, n, v) ==
    LET call == Call(s.meter)
        set(result) == [settings |-> [s EXCEPT !.meter = result.settings],
                        heard |-> result.heard # <<>>]
    IN  CASE n = "customName" ->
                [settings |-> [s EXCEPT !.customName = v], heard |-> FALSE]
          [] n = "role" -> set(setClassAndVrmInstance(call, v))
          [] n = "isMultiphase" -> set(setIsMultiphase(call, v))
          [] n = "phaseCount" -> set(setPhaseCount(call, v))
          [] OTHER -> set(setPiggyEnabled(call, v))

(* VeQItem::setValue of a value that an item has, or not.                  *)
Sends(values, n, v) == values[n] # v

(* onPropertyChanged and publishValue of a consumer.                       *)
publishValue(old, new, values, n) ==
    LET v == Property(new, n)
    IN  IF v # Property(old, n) /\ Sends(values, n, v)
        THEN <<[kind |-> "set", name |-> n, value |-> v]>> ELSE <<>>

(* For all properties: the signals of those that change come in this order.*)
Publications(old, new, values) ==
    publishValue(old, new, values, "customName")
        \o publishValue(old, new, values, "role")
        \o publishValue(old, new, values, "isMultiphase")
        \o publishValue(old, new, values, "phaseCount")
        \o publishValue(old, new, values, "piggyEnabled")

-----------------------------------------------------------------------------
(* The items of the service that are bound to a property.                  *)
Exported(role) ==
    {"/CustomName", "/Ac/L1/Current"} \cup IF role = "evcharger" THEN {"/Current"} ELSE {}

SourceValue(i, s, c) ==
    IF i = "/CustomName" THEN <<s.customName>> ELSE <<c>>

(* produce, for each of the items.                                         *)
publishAll(s) ==
    /\ service' = s.meter.role
    /\ published' = [i \in Exported(s.meter.role) |-> SourceValue(i, s, current)]
    /\ changed' = {}

unpublish == service' = NoRole /\ published' = <<>> /\ changed' = {}

(* onPropertyChanged of a producer: the first item of the list that is     *)
(* bound to the property is marked, and the search ends.                   *)
FirstItem(property) == IF property = "current" THEN "/Ac/L1/Current" ELSE "/CustomName"

(* A change of the settings, where the service is concerned: the mediator  *)
(* replaces it if it has heard of the change (onServiceTypeChanged).       *)
followSettings(new, heard) ==
    /\ settings' = new
    /\ UNCHANGED current
    /\ IF service # NoRole /\ heard THEN publishAll(new)
       ELSE /\ changed' = IF service # NoRole /\ new.customName # settings.customName
                          THEN changed \cup {FirstItem("customName")} ELSE changed
            /\ UNCHANGED <<service, published>>

-----------------------------------------------------------------------------
Init ==
    /\ stored = [n \in Names |-> IF n = "role" THEN CHOOSE r \in Roles : TRUE
                                 ELSE Property(NewProperties, n)]
    /\ calls = <<>> /\ signals = <<>>
    /\ cached = [n \in Names |-> Property(NewProperties, n)]
    /\ requested = Names /\ known = FALSE
    /\ detected = FALSE
    /\ settings = NewProperties
    /\ current = 0
    /\ service = NoRole /\ published = <<>> /\ changed = {}
    /\ writes = 0 /\ losses = 0

(* consume: an item that has a value sets its property.                    *)
(* Mutant: it does not.                                                    *)
consumeNothing(loaded, n) == loaded

consume(loaded, n) ==
    LET new == setProperty(loaded.settings, n, cached[n]).settings
    IN  IF n \in requested THEN loaded
        ELSE [settings |-> new,
              calls |-> loaded.calls \o Publications(loaded.settings, new, cached)]

(* For all items, in the order of the constructor.                         *)
load(s) ==
    LET named       == consume([settings |-> s, calls |-> <<>>], "customName")
        ofRole      == consume(named, "role")
        ofMultiphase == consume(ofRole, "isMultiphase")
        ofPhases    == consume(ofMultiphase, "phaseCount")
    IN  consume(ofPhases, "piggyEnabled")

onDeviceFound ==
    LET get(n) == [kind |-> "get", name |-> n]
    IN  /\ ~detected
        /\ detected' = TRUE
        /\ known' = TRUE
        /\ settings' = load(NewProperties).settings
        /\ calls' = calls \o load(NewProperties).calls \o
               IF known THEN <<>> ELSE [i \in 1 .. Len(SettingNames) |-> get(SettingNames[i])]
        /\ UNCHANGED <<stored, signals, cached, requested, writes, losses>>
        /\ UNCHANGED exports

(* The service tells of a change, or replies.  The item has a new value;   *)
(* onVBusItemChanged takes it over, if the item is bound.                  *)
onVBusItemChanged(n, v) ==
    LET values == [cached EXCEPT ![n] = v]
        set == setProperty(settings, n, v)
    IN  /\ cached' = values
        /\ requested' = requested \ {n}
        /\ IF detected /\ (n \in requested \/ cached[n] # v)
           THEN /\ followSettings(set.settings, set.heard)
                /\ calls' = calls \o Publications(settings, set.settings, values)
           ELSE UNCHANGED <<settings, calls>> /\ UNCHANGED exports

SignalArrives ==
    /\ signals # <<>>
    /\ signals' = Tail(signals)
    /\ onVBusItemChanged(Head(signals).name, Head(signals).value)
    /\ UNCHANGED <<stored, known, detected, writes, losses>>

(* All settings have a value; the setup of the meter ends, and             *)
(* onDeviceInitialized makes its service.                                  *)
onDeviceInitialized ==
    /\ detected /\ requested = {}
    /\ service = NoRole
    /\ publishAll(settings)
    /\ UNCHANGED external /\ UNCHANGED items
    /\ UNCHANGED <<detected, settings, current, writes, losses>>

onConnectionLost ==
    /\ losses < MaxLosses /\ losses' = losses + 1
    /\ detected
    /\ detected' = FALSE
    /\ settings' = NewProperties
    /\ unpublish
    /\ current' = 0
    /\ UNCHANGED external /\ UNCHANGED items
    /\ UNCHANGED writes

(* onUpdateTimer, or publishPendingChanges at the end of a sweep.          *)
(* Mutant: it ends with the first item.                                    *)
PublishOne(i) == i \in changed /\ i = CHOOSE j \in changed : TRUE

Published(i) == i \in changed

(* Mutant: the marks remain.                                               *)
KeptMarks == changed

RemainingMarks == {}

onUpdateTimer ==
    /\ service # NoRole
    /\ changed # {}
    /\ published' = [i \in DOMAIN published |->
           IF Published(i) THEN SourceValue(i, settings, current) ELSE published[i]]
    /\ changed' = RemainingMarks
    /\ UNCHANGED external /\ UNCHANGED items
    /\ UNCHANGED <<detected, settings, current, service, writes, losses>>

(* The meter measures another current.                                     *)
setCurrent(c) ==
    /\ writes < MaxWrites /\ writes' = writes + 1
    /\ service # NoRole
    /\ c # current
    /\ current' = c
    /\ changed' = changed \cup {FirstItem("current")}
    /\ UNCHANGED external /\ UNCHANGED items
    /\ UNCHANGED <<detected, settings, service, published, losses>>

(* BridgeItem::setValue: a user writes to the service of the meter.        *)
updateValue(n, v) ==
    LET set == setProperty(settings, n, v)
    IN  /\ writes < MaxWrites /\ writes' = writes + 1
        /\ service # NoRole
        /\ followSettings(set.settings, set.heard)
        /\ calls' = calls \o Publications(settings, set.settings, cached)
        /\ UNCHANGED <<stored, signals, detected, losses>>
        /\ UNCHANGED items

-----------------------------------------------------------------------------
(* The settings service.                                                   *)
Store(n, v) ==
    /\ stored' = [stored EXCEPT ![n] = v]
    /\ signals' = IF known /\ stored[n] # v
                  THEN Append(signals, [name |-> n, value |-> v]) ELSE signals

CallArrives ==
    /\ calls # <<>>
    /\ calls' = Tail(calls)
    /\ LET call == Head(calls)
       IN  \/ call.kind = "set" /\ Store(call.name, call.value)
           \/ /\ call.kind = "get"
              /\ signals' = Append(signals, [name |-> call.name, value |-> stored[call.name]])
              /\ UNCHANGED stored
    /\ UNCHANGED items /\ UNCHANGED exports
    /\ UNCHANGED <<detected, settings, writes, losses>>

UserStores(n, v) ==
    /\ writes < MaxWrites /\ writes' = writes + 1
    /\ Store(n, v)
    /\ UNCHANGED items /\ UNCHANGED exports
    /\ UNCHANGED <<calls, detected, settings, losses>>

(* The calls that have an effect without the process that made them.       *)
Outlasting(messages) ==
    LET kept[i \in 0 .. Len(messages)] ==
            IF i = 0 THEN <<>>
            ELSE IF messages[i].kind = "set" THEN Append(kept[i - 1], messages[i])
            ELSE kept[i - 1]
    IN  kept[Len(messages)]

(* The process ends and is started again: what it has set still arrives,   *)
(* what is for it does not.                                                *)
Restart ==
    /\ losses < MaxLosses /\ losses' = losses + 1
    /\ known
    /\ calls' = Outlasting(calls)
    /\ signals' = <<>>
    /\ cached' = [n \in Names |-> Property(NewProperties, n)]
    /\ requested' = Names /\ known' = FALSE
    /\ detected' = FALSE
    /\ settings' = NewProperties
    /\ unpublish
    /\ current' = 0
    /\ UNCHANGED <<stored, writes>>

Next ==
    \/ onDeviceFound
    \/ SignalArrives
    \/ onDeviceInitialized
    \/ onConnectionLost
    \/ onUpdateTimer
    \/ \E c \in {0, 1} : setCurrent(c)
    \/ \E n \in {"customName", "role"} : \E v \in Writable(n) : updateValue(n, v)
    \/ CallArrives
    \/ \E n \in Names : \E v \in Writable(n) : UserStores(n, v)
    \/ Restart

Spec == Init /\ [][Next]_vars

(* Messages arrive, and the timer of the service runs.                     *)
FairSpec == Spec /\ WF_vars(CallArrives) /\ WF_vars(SignalArrives) /\ WF_vars(onUpdateTimer)

-----------------------------------------------------------------------------
Quiet == calls = <<>> /\ signals = <<>>
ValueOf(n) == IF n = "phaseCount" THEN Bounded(stored[n]) ELSE stored[n]

(* "DBusBridge will also update the QT property if the DBus object         *)
(* changes" (dbus_bridge.h:23), and the other way round: whoever has       *)
(* written what, in whatever order it has crossed on the way, when nothing *)
(* is under way any more the settings service, the items and the           *)
(* properties agree.  A number of phases out of range may stay as it is in *)
(* the service, where the property has the nearest in range.               *)
CopiesAgree ==
    detected /\ requested = {} /\ Quiet =>
        \A n \in Names : cached[n] = stored[n] /\ Property(settings, n) = ValueOf(n)

(* "Whenever the value of a QT property changes, the associated SetItem    *)
(* function will be called on the DBus" (dbus_bridge.h:21): a value that   *)
(* is not marked as changed is the published one.                          *)
NothingUnpublished ==
    service # NoRole =>
        \A i \in Exported(service) \ changed :
            published[i] = SourceValue(i, settings, current)

(* Writes are not echoed for ever: when nothing more is written, nothing   *)
(* more is sent, and everything is published.                              *)
Settles == <>[](Quiet /\ changed = {})
=============================================================================
