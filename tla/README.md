# Verification of dbus-cgwacs

`dbus-cgwacs` reads Carlo Gavazzi energy meters over Modbus RTU (RS485, or a
Zigbee bridge) and publishes what it measures on D-Bus.  This directory holds
TLA+ models of its core, translated from the sources, TLC configurations that
check them, and proofs that TLAPS checks.  Source paths below are relative to
`software/src/` unless they start with another directory.

Contents: [the system](#the-system) · [modules](#modules) · [runs](#runs) ·
[fairness](#fairness) · [proofs](#proofs) · [where code and documents
disagree](#where-code-and-documents-disagree) · [what is not
modelled](#what-is-not-modelled) · [plan](#plan)

## The system

Everything runs in one Qt thread.  Concurrency comes from the event loop: bytes
on the serial line, expiring timers, D-Bus calls, and *synchronous signals* - a
handler that is called from within an `emit` calls back into the emitter before
the emitter has finished.

| component | state | operations | hard behaviour | what makes it correct |
|---|---|---|---|---|
| `AcSensorUpdater` | state of the engine, requested setup, failure counters, command table and indices, timer; owns the `AcSensorSettings` | constructor, `startMeasurements`, `onReadCompleted`, `onWriteCompleted`, `onErrorReceived`, `onWaitFinished`, settings slots; each ends in `startNextAction` | replies, timeouts and settings interleave; retries; loss and rediscovery; late replies | always one thing under way; settings exist iff detected; what is measured is what was identified and configured; no step skipped by a retry |
| command tables (in `ac_sensor_updater.cpp`) | constant | selection by protocol and settings, `getMaxInterval` | hand-written offsets and counts | every value lies in its reply, every command is reached in a sweep, late replies cannot pass for energy |
| `ModbusRtu` | read state, current slave, pending commands, checksum, timer | `readRegisters`, `writeRegister`, `handleByteRead`, `processPacket`, `onTimeout`, `processPending` | re-entrant signals; bytes lost, damaged, late | every request ends once, in order; nothing but a meter's data is reported |
| `Crc16` | two bytes | `add`, `getValue`, `reset` | 512 typed constants | equals the CRC of the Modbus standard |
| `AcSensor`, `AcSensorPhase` | connection state, device type, protocol, error code, values | setters with change signals | uninitialised protocol; setter ignores repeated types | protocol is that of the device |
| `AcSensorSettings` | multiphase, phase count, piggy flag, energies | setters that call one another | intermediate values visible to listeners | the three end up consistent |
| `DataProcessor` | accumulated negative power, whether estimates are to be saved | `setPower`, `setNegativeEnergy`, `setInitialEnergy`, `updateEnergySettings` | a quotient whose denominator may be 0; estimates saved now and then, taken up after a loss, a restart or a change of phases | a rise is divided as the phases have fed back since the last one; what was saved is not lost while several phases are measured; phases that are not connected have no values |
| `AcSensorMediator` | bridges of the sensors that are published | found / detected / lost / role changed | two sensors, partial failure | exactly the present sensors are published; the process ends when none is left |
| `DBusBridge` and the two bridges made of it | items, `changed` flags, bindings of items to properties | `consume`, `produce`, `onPropertyChanged`, `onVBusItemChanged`, `onUpdateTimer`, `BridgeItem::setValue` | three copies of a setting, each with its writers; echoes; setters that change other properties; bindings that end and begin again | the copies agree when nothing is under way; what is not marked is published; writes are not echoed for ever |
| `tools/hub4_wireless`: `Drf1600Detector` over `Drf1600` | state, retries, timer; command and buffer of the driver | `start`, the handlers of the driver's signals, `onTimer`; `send`, `onReadyRead`, `onTimeout` | replies that do not say what they reply to; a retry counter shared by all steps; a restart without reply | ends with a result; success only for a converter that is programmed, failure only after as many faults as there are retries |

Interaction: `AcSensorMediator` creates an updater per sensor; the updaters of a
bus share one `ModbusRtu`, call `readRegisters`/`writeRegister` and are called
back through `readCompleted`, `writeCompleted`, `errorReceived` (which carry the
slave address only: the handler must know what it asked).  The updater fills an
`AcSensor` and signals its `ConnectionState`; on `Detected` the mediator binds
the `AcSensorSettings` to localsettings and calls `startMeasurements` when every
setting has a value; on `Connected` it publishes the sensor through
`AcSensorBridge`; on `Disconnected` it removes the service and, if no sensor is
left, ends the process.

The hazards this gives rise to are listed, with their source lines, in
`PROJECT.json`, each with the properties aimed at it, or with the reason why there
is none.

## Modules

| module | models | extends |
|---|---|---|
| `CommandTables` | meters, protocols and the tables of `CompositeCommand`s, all of them, with every offset | |
| `AcSensorUpdater` | the state engine, and the meter it talks to | `CommandTables` |
| `AcSensorLifecycle` | abstract: order of connection states, and lifetime of the settings | |
| `AcquisitionSweep` | history of what a sweep over the table has read | `AcSensorUpdater` |
| `AcSensorUpdaterProofs` | theorems: types, activity, counters | `AcSensorUpdater` |
| `AcSensorRequestProofs` | theorems: requests, life cycle, late replies | `AcSensorUpdaterProofs` |
| `AcSensorSetupProofs` | theorems: the meter as the updater knows it, and the sweeps | `AcSensorRequestProofs`, `AcquisitionSweep` |
| `Crc16` | checksum and its definition by polynomial division | |
| `ModbusRtu` | the driver, its clients, the serial line | |
| `ModbusRtuProofs` | theorems | `ModbusRtu` |
| `RequestServer` | abstract: a queue of requests | |
| `AcSensorSettings` | the setters of the settings and the signals they emit on the way | |
| `AcSensorMediator` | the sensors of a port as services on D-Bus, and when the process ends | `AcSensorSettings`, instantiates `AcSensorLifecycle` |
| `AcSensorMediatorProofs` | theorems | `AcSensorMediator` |
| `DataProcessor` | the reverse energy of each phase, and the handlers of the updater that call it | |
| `DataProcessorProofs` | theorems | `DataProcessor` |
| `DBusBridge` | settings and services on D-Bus as copies of properties | `AcSensorSettings` |
| `DBusBridgeProofs` | theorems | `DBusBridge` |
| `Drf1600` | the driver of the Zigbee converters | |
| `Drf1600Detector` | the program that configures a converter, the converter, the line | `Drf1600` |
| `Drf1600DetectorProofs` | theorems | `Drf1600Detector` |
| `MC...` | sets of meters, bytes, commands for TLC | |

**AcSensorUpdater.**  The members of the C++ object, with those of the `AcSensor`
and the mode of the `AcSensorSettings` it owns, are one record, `updater`.  A C++
method is an operator from the record before the call to the record after it, so
that a handler is the composition of the calls it makes: `onReadCompleted` is
`acceptRead` (its `switch`), then the reset of the counters, then
`startNextAction`, which first deals with a requested setup and then acts in the
state it is in.  An action of the module is one event: an answer of the bus, the
timer, a change of settings, all settings arriving, or the installer's hand.
`request` is what the object waits for from the bus, `timer` that
`mAcquisitionTimer` runs, `fault` that the process has ended on a failed assertion
or a null pointer; after that nothing happens.  Abstractions:

* The three settings that choose what to measure (`isMultiphase`, `phaseCount`,
  `piggyEnabled`) are one mode: `multi`, `single`, or `piggy`.
* Time is not measured.  A round of 250 ms may or may not have been overrun
  (`overrun` is chosen freely), and a running timer may expire at any moment.
* Measured values are dropped; the replies that steer the engine are kept.
* The driver answers each request once, with a reply or an error (module
  `ModbusRtu` shows that it does).  `StaleReplies` weakens this to what the
  comment at `ac_sensor_updater.cpp:59` says of Zigbee adapters: the reply to a
  request that timed out may be taken for the reply to a later one.
* `mProtocolType` has no initial value; `Init` chooses it among all protocols
  and `"garbage"`.
* The meter is external: `id`, `reverse` (has registers for the reverse energy of
  each phase), `locked` (front selector), and the registers that are written.  A
  write that times out may or may not have been carried out.

**ModbusRtu.**  The C++ object is the record `driver`.  `ByteReceived` is
`handleByteRead` for one byte; the last byte of a packet and `onTimeout` emit a
signal, within which the client may make its next request, and end in
`resetStateEngine` and `processPending`, in that order (`finish`).  The line is a
queue of bytes; a timeout comes at any time, so that a whole reply or its tail is
left for the next command.  The line may lose a reply, cut it, put a byte in
front, or damage it.  Payloads are chosen to be the worst for the parser: they
look like the head of another reply.

**Crc16** holds the two tables as they are in the code, without variables: `MCModbusRtu`
gives the driver this checksum, so that run `bus` checks it wherever the driver uses it.

**AcSensorSettings.**  A setter is an operator on a call: the settings, and the
settings that the slots have found, in order (`heard`), for each of the four signals
other classes listen to.  `disablePiggy` inside `updatePhaseCount` inside
`setIsMultiphase` inside `enablePiggy` thus shows each of them what the C++ slot would
see.  `updatePhaseCount` is also reached by a value that is not new; the number of
phases is then what it was, and nothing follows.

**AcSensorMediator.**  `sensors[a]` is the `AcSensor` at a slave address with its
settings, the bridges made for it and the items of its services that are online.  The
connection state moves as `AcSensorLifecycle` allows (`Updater(a)`), which the run
`updater` shows of `AcSensorUpdater`; each action of the life cycle is joined by the
slot of the mediator that the change of state runs.  A bridge is the object with the
number of phases and the role it was made with, which it does not change; a service is
what is seen of it on D-Bus.  Two services may have the same name one after the other,
so the order of deleting and making bridges matters.

* `deviceIds` is the list in memory, which is empty until the first `registerDevice`;
  `storedIds` is the one in the settings, which outlives the process.  That the item
  has its value by then is the todo at `ac_sensor_mediator.cpp:30`, and assumed.  So is
  that the process is the only one: several ports have a process each, and each
  writes back the list it cached, without what the others have added since.
* A serial number is on the bus once.
* After a loss, the bridge of the meter is deleted at once; that of the PV inverter on
  L2 belongs to the settings and goes with them, when the event loop deletes what was
  left to `deleteLater` (`DeferredDelete`).  That this comes before the search starts
  again, 15 s later, is assumed (`SearchAgain`).
* `searches[a]` is history: which of the other sensors were being searched when this
  one was lost, and have been ever since.  It measures time for
  `TerminatesWithoutMeter`, and nothing depends on it.
* `SerialEvent` ends the process because the serial port is gone, and `Restart` is
  the next one.  The `AcSensor` of L2 is published while it is still Disconnected, an
  instant before `AcSensorUpdater` connects it; the model makes it one step.

**DataProcessor.**  The meters that count reverse energy for all phases together.  An
action is a handler of the updater with the `startNextAction` it ends with, because the
`resetValues` at its beginning (`ac_sensor_updater.cpp:626`) comes *after* the values of
the reply it was called for.  `processor` holds the members `mNegativePower` and
`mStoreReverseEnergy`; `fed` is history: the power fed back since the counter was last taken
in, as the documentation would count it, while `processor.negative` is what the code counts.
The total power and those of the phases come in two replies (registers 0x0028 and 0x0012 of
each table), so there are two actions, `TotalRead` and `PhasesRead`, with anything in between,
and the total is not bound to be their sum.

* Energies and powers are integers.  The counter is read when its rise is a multiple of
  the accumulated power, so that the quotient of the code is exact.
* A register that reads 0x7FFFFFFF has no value (`getDouble`, `ac_sensor_updater.cpp:1012`).
  `NaN` is that value for the counter, the estimates and the sums made of them; for powers,
  which are only added up and shown, `measured` is the set of phases whose power has a value.
* `mEnergyReverse` is not initialised in `ac_sensor_phase.cpp:5`, but by the `resetValues` of
  the constructor of `AcSensor`.
* Of the settings, those that matter are the number of phases and the saved energies, here
  without the way over D-Bus (module `DBusBridge`).  Measuring L2 as a PV inverter is
  measuring one phase, as far as the reverse energy is concerned.
* The per-phase counters of the ET340, which are handed on as they are, are left out.

**DBusBridge.**  A setting is in three places: the settings service (`stored`), the item
that the process has of it (`cached`), and the property (`settings`, with the setters of
`AcSensorSettings`).  Calls and signals between the first two are under way in `calls` and
`signals`; a change of a property calls back into the bridge at once.  A property of a
meter is in two: the object and its service (`published`), with `changed` as the mark that
it is to be published.  A setting is loaded (`load`) when its meter is found, in the order
of the constructor of `AcSensorSettingsBridge` (`consume`, once for each), each setter working on
what the one before has left.  `publishValue` decides for each property whether it is sent.

* velib (`VeQItem`) and the settings service are external.  What is assumed of them: calls
  and signals keep their order; the service tells of each change of a value; an item set to
  the value it has sends nothing.  Without the last, two quick writes would be echoed for
  ever, and the assertion `!busy` (`dbus_bridge.cpp:248`) depends on the same.
* Five of the settings stand for the thirteen: one without setters of consequence
  (`customName`), the role, and the three that change one another.  The items of the meter are
  the custom name and the current of L1; for an EV charger, its current is shown twice.

**Drf1600, Drf1600Detector.**  `send`, `onReadyRead`, `onTimeout` and `processPacket` of
the driver; the handler of the signal that `processPacket` emits is part of its action.  A
byte is its place in the reply it belongs to, so that a reply that is split, mixed with
another, or at the wrong baud rate is told from one that is not, and nothing else is.

* `Hub4Wireless` sets `adjustSettings` and never `panId`, so only that is modelled, for one
  converter at a time.
* The converter is external: it answers at its own baud rate, and what it was told
  becomes true with the next restart.  No coordinator is nearby, as the instructions
  demand (`tools/hub4_wireless/qml/main.qml:73`).
* Noise is never taken for a version, a type, or the PAN ID 0xFFFE.
* Faults of the line (losses, damage, replies later than the timer) are counted and bounded
  by `MaxFaults`.

## Runs

`CHECK_DEADLOCK FALSE` is set in every run but `mediator` and `data_processor`: the model
of the updater stops where the process ends (`fault`), or where it stalls on a device of
unknown type (below); the driver stops when no client wants anything; the detector ends
with its result; the bridge is quiet when nothing is written any more.

| run | question | bounds, and why they are enough |
|---|---|---|
| `updater` | Whatever happens in whatever order, is the sensor identified, configured, and measured as its settings ask, with one activity at a time? Is every command of the table read in a sweep? Does the updater implement `AcSensorLifecycle`? | Every type of meter, as it comes out of its box; every mode, so all tables. Both limits are 0, so every failure is a loss, after which the meter may have been exchanged: each state of the engine is left this way for each meter. Retries are the next runs' matter. |
| `updater_stale` | The same with stale replies: are the counters bounded, does the table index stay in step with the request, can another reply pass for an energy value? | Two meters with different tables and setups, limits of 1 and 1. One late reply at a time. |
| `updater_live` | Is a failed request repeated as it was? Is a meter that answers measured in the end, and one that does not given up? | Limits 1 and 1, so that each request fails, is retried, and fails for good, in any mixture of timeouts and errors (a second retry would repeat the first); a meter of each kind that needs all of the setup; two of the modes. |
| `bus` | Is each request of two clients answered once, in order, by its meter's own data? Is nobody starved? Is it the server its header describes? Is the checksum that of the standard? | Two meters, one of which is also written to; 8 bytes under way, one whole reply and the rest of another. The checksum: all sequences of two bytes (the first reaches all entries of the tables, the second all combinations with what the first left; the checksum is a function of its last value and one byte), and what has been fed to it whenever a reply is about to be complete. |
| `mediator` | Is what is published what is there, whatever settings change and sensors are lost? Do the slots of the settings see them consistent and up to date? Does the list of devices survive? Does the process end when no meter is left? | A meter of each kind and both addresses, so that meters are exchanged and sensors lost one by one or together; one role besides that of new settings, because what counts is whether it is the same; any number of restarts. |
| `data_processor` | Is the counter of the meter divided as the phases have fed back? Is anything lost that was saved? Does a phase that is not connected have values? | Powers of 1 and -1 or none, for the total and for each phase, so that their proportions are 0, 1/2, 1 and 2, and the sum of the phases differs from the total; up to two units accumulated for each; a counter of 0, 1 and 2, or without a value, so that it can rise twice, be saved between, fall, and be lost. The theorems have no bounds. |
| `detector` | Does the tool always wait for one thing, and end? Is a converter programmed when it says so, and have there been enough faults when it says that it is not? | Converters at 9600, at 38400 and at another rate, of both types, joined to a network or not. 3 retries instead of 5, and 4 faults: the retries can be used up by any mixture, in one step or over several restarts, with one fault to spare. The theorems on the safety properties have no bounds. |
| `dbus_bridge` | Do the copies of a setting agree in the end, whoever has written what? Is everything published? Do the echoes end? | Five settings, two writes by anybody at any moment (a third repeats the crossing of two), two losses or restarts. Checked also with 3 and 1. |
| `updater_bails`, `updater_detected`, `bus_idle`, `dbus_charger` | see [below](#where-code-and-documents-disagree) | the limits of the code for the first |

Properties, in the modules with their reasons:

* `OneActivity` - after every step the updater waits for exactly one of: an answer,
  its timer, the settings.  Twenty paths through `startNextAction` have to start
  something, or the sensor is silent for ever.  The exception is part of the
  property: `onReadCompleted` returns early for an unknown device.
  The detector of the Zigbee converters has the same duty; its `OneActivity` also says that
  no handler sends a command while another is outstanding (`drf1600.cpp:146`).
* `MeterConfigured` - whenever it measures, and no change of settings is pending,
  the *meter* is configured as the *settings* ask, although both may change while
  the setup is under way, writes are lost, and meters exchanged.
* `IdentifiedMeter` - a sensor that is present has the protocol of the meter on the
  bus, also after an exchange.
* `NeverSinglePhaseOnEm300` - the write that would reset an EM3xx's energy counters
  is never requested, although it is legal for the EM24 and the value is held in
  the same member.
* `CommandsReadable` - each value that `processAcquisitionData` takes lies in the
  reply, and no command exceeds the meter's limit.
* `AssertionsHold` - no assertion of the handlers fails, as long as replies are not
  mixed up.
* `SettingsLifetime`, `LifecycleSpec` - the promise of the header.
* `RetriesSameRequest` - a failed request is repeated as it was.
* `ReplyFitsCommand`, `EnergyNotMistaken` - under stale replies.
* `CountersBounded` - the failure counters stay within their limits.
* `FullSweep` - a sweep reads each command of the table.
* `EventuallyConnected`, `DeadMeterIsLost` - liveness of the engine.
* `NothingForgotten`, `EachWaitsOnce`, `ServerSpec`, `EveryoneServed` - the queue.
* `SignalsGenuine`, `ReplyMatchesCommand` - the parser.
* `IsModbusCrc` - the checksum.
* `ServicesMatchSensors` - bridges and services are a function of the sensors and
  their settings *now*, though bridges are made at different moments, and taking down
  an old one may take down the new one of the same name.
* `ListenersInformed` - from every state of the settings that is reached, every setter
  with every value (the number of phases is not checked by the caller) keeps the three
  settings consistent for whoever listens, and tells them of the final result.
* `DevicesRemembered` - a list cached and written back as a whole loses nothing.
* `TerminatesWithoutMeter` - `connectionLost` is emitted at a moment at which *all*
  sensors are Disconnected.  Each of them is searched again some time after its loss,
  so that two could in principle miss each other for ever.
* `EstimatedInProportion` - while several phases are measured and no setup is due, a rise of
  the counter gives each estimate the part that the power its phase has fed back *since the
  counter was last taken in* has in that of the total (`README.md:34`), though the accumulated
  power is cleared in one place and the values are reset in another, total and phases are read
  at different moments, and quotient, counter and estimates may have no value.  The rises of
  the phases need not add up to that of the total (observations below).
* `SavedEnergyKept` - while several phases are measured and no setup is due, no estimate is
  below what was saved of it, and saving makes nothing less, whatever losses, restarts and
  changes of the number of phases have come before.  It does not hold for a single phase, nor
  while a setup is due after a change to one (observations below).
* `UnconnectedInvalid` - a phase that was connected until the last change of settings, and
  whose values may be in the reply under way, ends without a power and without an energy.
* `CopiesAgree`, `Settles` - writers on both sides of D-Bus, each echoing the other, with
  setters that change other properties: they end, and end in agreement.
* `NothingUnpublished` - between the mark, the timer, the end of a sweep and the
  replacement of the service, no change is lost.
* `FoundMeansProgrammed` - replies are not verified, and a late one is taken for that to
  the next command; still, success is reported only for a converter that has the wanted
  baud rate, the wanted type (or will have it with its next restart), and, as a router, no
  network.
* `FailsOnlyAfterFaults` - failure is reported only after as many faults as there are
  retries, though the counter is shared by all steps, and by both baud rates.
* `Ends` - the same counter starts again with each change of the baud rate.

Each of them is violated by a plausible mistake in the code: `PROJECT.json` lists,
as a mutant, a definition and its mistaken form for each property of each run.

## Fairness

* `AcSensorUpdater!Fairness`: a request is answered in the end (the driver has a
  timeout of its own, and `bus` shows that every command on the bus ends and every
  pending one gets its turn); a running Qt timer expires; localsettings gives every
  setting a value.  It is written with the guards of the actions in place of
  `ENABLED`, which is weak fairness of each of the three.
* `EventuallyConnected` assumes further that from some time on nothing disturbs the
  bus, the settings and the installation, and that the meter is one that can be
  measured; it claims nothing when the process has ended.
* `ModbusRtu!FairSpec`: weak fairness of the end of a command.  Its timer is
  started with it and is stopped only when it ends.  Bytes need not arrive.

* `TerminatesWithoutMeter` is an implication and needs no fairness of the
  specification; what it assumes stands in it: no meter is found any more, each search
  ends (`DeadMeterIsLost`, run `updater_live`), and no search is *overtaken*: one that
  fails takes a few request timeouts, and is over before the timer of a sensor lost
  later (15 s, or 30 s with Zigbee) runs out.

* `Drf1600Detector!FairSpec`: what the tool sends arrives at the converter or is lost, its
  replies arrive, and the two timers run out.  The faults are bounded, and `Ends` needs
  that: with a fault in each change of the baud rate the tool goes on for ever (below).
* `DBusBridge!FairSpec`: D-Bus delivers calls and signals, and the periodic timer of the
  service runs.  Writes and losses are bounded, so `Settles` says what follows the last.

No fairness is assumed of the meters and their line, the user, or the clients.

## Proofs

`AcSensorUpdaterProofs` proves, for **all** limits, sets of meters and modes, with
and without stale replies (the only assumption is `UpdaterAssumption`, the types of
the constants):

| theorem | property |
|---|---|
| `TypeCorrect` | `TypeOK` |
| `SettingsLiveWhenDetected` | `SettingsLifetime` |
| `AlwaysOneActivity` | `OneActivity` |
| `CountersStayBounded` | `CountersBounded` |

None of the four is inductive by itself.  That `createSettings` finds no settings,
and that `onWaitFinished` may go back to `DeviceId`, needs that the settings are
gone in the identifying states and in `WaitOnConnectionLost`; that `startMeasurements`
and `selectCommands` find a case for the protocol needs that settings belong to a
known protocol; that the recursion from `Wait` ends needs command index 0 there and
a first command that is due in every round, for each of the fourteen tables; that
the meter's reply has a first register needs that no request asks for none.  These
are the conjuncts of `Sound`.

The argument follows the code.  `Free` says that an object waits for nothing, `Busy`
that it waits for exactly one thing (or is stalled).  `NextActionPosts`:
`startNextAction` turns every `Sound` and `Free` object into a `Sound` and `Busy` one,
by one lemma for each kind of state.  For each handler there is then a lemma that
the object it passes on to `startNextAction` is `Sound` and `Free`, whatever the reply
holds and whatever state it arrives in - the proof does not use that a reply answers
the request, so that it covers stale replies.  `Preserved` has one case per action,
and `Invariant` follows by temporal reasoning.

`AcSensorMediatorProofs` proves, for **all** sets of addresses, meters, serial numbers
and roles (assumption `MediatorAssumption`: meters have serial numbers):

| theorem | property |
|---|---|
| `TypeCorrect` | `TypeOK`, in no run |
| `ServicesFollowSensors` | `ServicesMatchSensors` |
| `ListenersKnow` | `ListenersInformed` |
| `DevicesStayRemembered` | `DevicesRemembered` |

First the setters: `EmitTells`, `DisableTells`, `UpdateTells`, `IsMultiphaseTells`
and `PhaseCountTells` follow the calls inwards to outwards, for a call in any state of
progress, and `CallsInform` concludes that every setter called on consistent settings
leaves them consistent, and has told the slots or has changed nothing visible.  Then
one sensor: `Fits` says that it is published as it should be, and one lemma for each
slot shows that it stays so; `ChangeFits` rests on `CallsInform`, because the services
are made from what the *last* slot found.  The inductive invariant `Inv` adds that the
list in memory, once read, is the stored one, and that settings of published sensors
are consistent: without the first `DevicesRemembered` is not inductive, without the
second neither are the other two.

`DataProcessorProofs` proves, for **all** sets of powers and all bounds (assumption
`DataAssumption`: powers are integers):

| theorem | property |
|---|---|
| `TypeCorrect` | `TypeOK` |
| `UnconnectedStayInvalid` | `UnconnectedInvalid` |
| `SavedStaysKept` | `SavedEnergyKept` |
| `DividedInProportion` | `EstimatedInProportion` |

The inductive invariant says besides that what the code has accumulated is what has been fed
back since the counter was last taken in (`Accumulated`), which is what makes proportion a
consequence of the quotient (`Proportional`, from `NatQuotient`).  It claims nothing while a
setup is due (`SetupDue`) or while L1 has no estimate (`JustReset`): power from that time is
still in `mNegativePower`, which `resetValues` does not clear, but the reading that gives L1 its
estimate clears it before a rise can use it.  Nothing is assumed of which estimates have values:
the code only looks at L1, and a counter without a value leaves saved estimates beside missing
ones, so `DivideEstimates` and `ShareTyped` are stated for sums with and without a value.

`AcSensorRequestProofs` proves, for the same constants as `AcSensorUpdaterProofs`, what the
updater asks for, with and without stale replies:

| theorem | property |
|---|---|
| `NoSinglePhaseOnEm300` | `NeverSinglePhaseOnEm300` |
| `RepliesFitCommands` | `ReplyFitsCommand` |
| `ImplementsLifecycle` | `LifecycleSpec` (step simulation) |
| `RepeatsFailedRequests` | `RetriesSameRequest` (action property) |
| `EnergyIsNotMistaken` | `EnergyNotMistaken` |

The invariant (`RequestInvariant`) is in two parts.  `Placed` says which protocols and
connections a state belongs to: nobody is in `SetMeasuringSystem` for an EM3xx with single
phase wanted, because each way there computes `mDesiredMeasuringSystem` anew.  `Requested`
says which request an object in that state waits for, the last conjunct of it
(`AsksForCommand`) for the tables.  `NextActionOutcome` is the lemma that carries all five:
it says what `startNextAction` may turn a `Ready` object into - the same connection, `Detected`
with new settings, or `Connected` and measuring - and that it ends `Placed` and `Requested`.
The retries follow because the request is a function of state, protocol and index, none of
which a failure changes.  `EnergyIsNotMistaken` needs one fact more, `LateKnown`: a late reply
is that to a command of *this* table, or as short as those to the setup.  It is inductive
because no table is left without a setup in between, and because the model has one late
reply at a time.  `EnergyDistinct` and `NoEnergyInTwo` then look at the fourteen tables: no two
commands of one table have replies of the same length of which one is an energy and the other
something else.

`AcSensorSetupProofs` proves what the updater knows of the meter:

| theorem | property | assumes |
|---|---|---|
| `NoAssertionFails` | `AssertionsHold` | `StaleReplies = FALSE` |
| `MeterIdentified` | `IdentifiedMeter` | `StaleReplies = FALSE` |
| `CommandsAreReadable` | `CommandsReadable` | `StaleReplies = FALSE` |
| `SweepsAreFull` | `FullSweep` | `StaleReplies = FALSE` |
| `MeasuredAsConfigured` | `MeterConfigured` | `StaleReplies = FALSE`, `PlausibleMeters` |

`StaleReplies = FALSE` is not a convenience: with stale replies the assertions of the setup
fail, and the configuration read may be another's (observations below); the runs check these
properties without them for the same reason.  `PlausibleMeters` says that the application
register of an EM24 never holds the number of that register, 0x1101: the code compares the two
(`ac_sensor_updater.cpp:460`) and would leave such a meter as it is.  The invariant is `SInv`:
`Fits(updater, meter)` relates each step of the setup to the registers of the meter - what the
steps passed have read or written is what the meter holds, as long as no other setup is
requested - and `Identified` the protocol to the meter on the bus.  A meter is exchanged only
while its sensor is lost, and its state engine therefore in `DeviceId`, which `Fits` leaves
free.  `ActionFits` shows that `startNextAction` preserves it, and one lemma per handler that the
object it is called with fits the registers that the request has left behind; a write that
times out may have been carried out, which `Fits` allows in the states that write.

`SweepsAreFull` is about the same updater with the history variables of `AcquisitionSweep`, which
restrict nothing (`SweepInvariant` proves `Spec` as well).  The invariant says what has been read
when the sweep has come to command *i* of a round: the commands of the rounds before, and of this
round those before *i* (`Covered`).  Each answer adds its command, a failure or a late timer adds
nothing, and the end of a round moves on to the next; that the rounds are through when every
command has been read is checked table by table, where the last command has the longest
interval (`Rounds`).

`ModbusRtuProofs` proves, for **any** meters, commands and **any** checksum (assumptions
`ModbusAssumption` and `RepliesAssumption`: addresses are 1 to 247, and what a meter sends are
bytes):

| theorem | property |
|---|---|
| `TypeCorrect` | `TypeOK` |
| `NothingIsForgotten` | `NothingForgotten` |
| `ClientsWaitOnce` | `EachWaitsOnce` |
| `ServesInOrder` | `ServerSpec` (step simulation) |
| `RepliesMatchCommands` | `ReplyMatchesCommand` |

The invariant says that the driver is `Settled` between actions (a command on the bus with its
timer, or nothing pending), and that the commands in its queue and those its clients wait for
`Match`: no client twice, none without.  `finish` is followed through the state in which a client's
handler submits while `mState` is not yet `Idle` - the reason why `submit` must queue and
`processPending` must come last.

`RepliesMatchCommands` needs no checksum.  If a damaged byte makes the parser lose its place, it
begins again wherever the address of the slave occurs next, in the data for instance; what saves
it is that a reply to another kind of command does not fit into the rest.  `InStep` says so of a
text, and `RepliesInStep` proves it of everything that the line may make of a reply.  `Following`
is what each byte then preserves (`AcceptFollows`): either the function that has been parsed is
that of the command, or fewer bytes are left than the packet lacks (`Lacks`).

`Drf1600DetectorProofs` proves, for **all** numbers of retries, baud rates of converters and
bounds of faults (assumption `DetectorAssumption`):

| theorem | property |
|---|---|
| `AlwaysOneActivity` | `OneActivity` |
| `SuccessIsGenuine` | `FoundMeansProgrammed` |
| `FailureTakesFaults` | `FailsOnlyAfterFaults` |
| `TypeCorrect` | `TypeOK` and `LineTyped` (what is on the line, and the converter), in no run |

The first and the last are not inductive without each other, nor without `RetriesLeft`: a
program in progress has retries left, because the step that uses the last one ends it or sets
new ones.  `Handled` is what each handler of the driver's signals leaves behind, and there is
one lemma for each (`EnterHandles`, `RestartHandles`, `ErrorHandles`, and `PacketHandles`, which
holds for any bytes whatever).  `SuccessIsGenuine` rests on `Honest`: every byte on the line and
in the buffer tells something that is so *and stays so* - a byte of the name of the wanted type
has been sent by a converter that is of it or was just told to be, a byte of "no network" by one
that has left its network, and what is understood at 9600 baud by one that talks at 9600 baud.
While a program is in progress a converter is only ever told the wanted type, 9600 baud and to
forget its network, so a reply may be as late as it likes.  That the type has *already* been
taken up does not follow, and is false (below).

`FailureTakesFaults` rests on `Accounts`: while a program that could still succeed is in progress,
there have been as many faults as retries are used (`Paid(0)`), and nothing can go wrong with the
command that is awaited, because it or the reply to it, and nothing else, is on the line
(`OnTrack`) - or there has been one fault more (`Paid(1)`).  A converter that talks at 38400 baud
is the exception: the tests at 9600 baud use up their retries without any fault (`Searching`), but
the retries at 38400 baud are then still to come.  From there on nothing may have told the
converter to restart before it has been told to talk at 9600 baud (`Testing38400`).

`DBusBridgeProofs` proves, for **all** names, roles and bounds (assumption `BridgeAssumption`:
there is a role, of which the settings service has one from the start):

| theorem | property |
|---|---|
| `CopiesComeToAgree` | `CopiesAgree` |
| `FirstItemsStayPublished` | `FirstItemsShown`, in no run |
| `NothingStaysUnpublished` | `NothingUnpublished`, if `"evcharger"` is no role |

`CopiesAgree` says nothing of a state with messages under way, so that the invariant must say
what these are good for.  `Told(n)`: the last that the service tells of a setting is the value
that it has; if it tells nothing, the item has it.  `Followed(n)`: a property is what its item
has, or the last call that sets the item sets it to the property, or a notice is under way that
changes the item.  The two need each other: when the last call arrives, it is what the service
tells that keeps `Followed`.  Setters that change other properties are the hard case; it is one
lemma, `CarriedOn`, for a notice that arrives, for a value that a user writes, and five times for
the constructor (`AllConsumed`), on top of what all publications together amount to (`AllTold`).
That a restart leaves only calls that set values (`OutlastingTyped`) is by induction over
the queue, which the library's theorem of well-founded sets allows (`SetInduction`).  The second
table row is what the code does for every role: of two items that show a property the first is
published.  The third is all that `dbus_bridge.h:21` promises, and false with an EV charger (run
`dbus_charger`).

Only model-checked:

* Liveness (`EventuallyConnected`, `DeadMeterIsLost`, `EveryoneServed`, `Ends`, `Settles`), and
  `TerminatesWithoutMeter`, which is an implication between temporal formulas: out of the
  prover's reach.
* `IsModbusCrc`, by induction over a sequence of bytes and with operations on bits.
* `SignalsGenuine`: for a checksum of which nothing is known it is false.

## Where code and documents disagree

Four runs end in a violation, each of a claim made by the repository.

* `updater_bails` - "terminate after 5 consecutive requests ends in a timeout"
  (`README.md:81`): the counters are compared before they are incremented, so it
  takes six.  The trace ends in a Detected sensor whose first setup request has timed out
  five times; requests of a Connected sensor are counted by the same lines.
* `updater_detected` - settings are null while the sensor is not detected
  (`ac_sensor_updater.h:57`), and measuring needs them: a setup requested just before
  the connection is lost survives in `mSetupRequested`, and the next action leaves
  `WaitOnConnectionLost` for a setup with a null `mSettings`.
* `bus_idle` - "Ignore the data" (`modbus_rtu.cpp:147`): bytes received while no
  command is on the bus are not parsed, but they have been added to the checksum
  that the next reply is checked with.

* `dbus_charger` - "Whenever the value of a QT property changes, the associated SetItem
  function will be called on the DBus" (`dbus_bridge.h:21`): `onPropertyChanged` marks
  the first item that is bound to the property and ends its search.  The current of L1
  is bound to `/Ac/L1/Current` and, for an EV charger, to `/Current`, which keeps its
  first value.

Other observations made while modelling.  In the updater:

* The device of unknown type stalls (`Stalled` in `OneActivity`) until the process is ended
  by the mediator.
* Any error of the probe for reverse energy registers, a timeout included, is taken for
  "Meter has no per-phase reverse registers" (`ac_sensor_updater.cpp:318`); the
  conclusion lasts until another type of meter is found.
* `ac_sensor_updater.cpp:460` compares the application with the *address* of its register,
  so that an unlocked EM24 is always written (the outcome is right all the same:
  `MeterConfigured`).
* With stale replies, unlike without, the assertions of the setup can fail.
* An EM24 that is configured as desired is measured with its error code still set if the
  settings change while its front selector is locked, because `WaitFrontSelector` leads to
  `CheckSetup` and not, as in `documents/ac_sensor_updater_states.dot:48`, to
  `CheckFrontSelector`.

In the `DataProcessor`:

* A saved energy of 0 is taken for none (`data_processor.cpp:116`): after a restart, a phase
  that has never fed back starts with an equal part of the total, where `README.md:34`
  would leave it at 0.
* Energies since the last save are lost by a setup, as by a restart.
* `mStoreReverseEnergy` is never reset: after a change from several phases to one, the total
  of the meter is saved as the energy of L1, also when it is less than what was saved.
* When the counter rises without any total power fed back before, no phase gets the rise.
* The rises of the phases need not add up to that of the counter: each is in proportion to what
  its phase has fed back, relative to the *total* power that the meter has shown as fed back.
  With phases at -1, -1 and 1 and the total at -1, they rise by twice as much.
* A counter without a value (0x7FFFFFFF) passes the test `delta <= 0`
  (`data_processor.cpp:64`): the total loses its value and the accumulated power is cleared.
  The next reading has nothing to be compared with, so what the counter has gained from the
  last valid reading to that one goes to no phase.  If it is the first reading after a setup,
  phases that have been saved start with what was saved, and the others have no estimate until
  the next setup (if L1 has been saved) or the next reading (if not).

In the bridges and the tool:

* Deleting a bridge leaves `BridgeItem::mBridge` of its items dangling
  (`dbus_bridge.cpp:26`, `287-291`); whether it can be used then is velib's matter.
* The second constructor (`dbus_bridge.cpp:18`) leaves `mIsInitialized` without a value;
  nobody calls it.
* With two adapters, `Hub4Wireless` takes `findChildren().size() <= 1` for the end, while the
  detectors are only deleted later: if both end in the same pass of the event loop it stays
  Busy, otherwise the last result is all that is shown.
* Success may be reported for a converter that has not been restarted.  A router is to become a
  coordinator, and three attempts in a row are overtaken both by the 250 ms of the driver and by
  the 250 ms before the next attempt: while it tests the baud rate, asks for the type, and
  changes the type.  That leaves two of the five retries.  The late replies are read by later
  commands: the confirmation of the new type is taken for the type (`Drf1600::processPacket`
  looks at two letters, which are the same in both) and its last two bytes for the PAN ID, and
  `finished(true)` follows before the restart.  The converter is what was wanted when it is next
  switched on (`FoundMeansProgrammed`).  No run reaches this: it takes four retries and six
  faults, at which `Ends` is too much for TLC.
* A converter at 38400 baud that answers the test but never the change of its rate is
  retried for ever, because each pass through 38400 baud starts with all retries; so is a
  router near a powered coordinator, whose PAN ID comes back with each restart.

## What is not modelled

* Settings and items that are bound like those that are modelled; texts, units, device
  instances and the creation of settings (`AddSettings`) in `DBusBridge`.
* Measured values other than the reverse energy and one current, and the wording of logs;
  the per-phase counters of the ET340.
* Of the mediator, the processes of other ports, which share the list of devices.
* Of `Hub4Wireless`, two adapters at a time.  `Drf1600::readShortAddress` and `ComTest` are
  used by nobody.
* `main.cpp`: start-up without state of its own (what it connects to quitting the
  application is in `AcSensorMediator`).  velib, veutil and qslog are
  submodules that are not in the repository.
* Opening the serial port and `serialEvent`, which ends the process; the Qt event
  loop, other than the order of events it allows.
* The user interface of `tools/hub4_wireless`.

## Plan

1. *(done)* `CommandTables`, `AcSensorUpdater`, `AcSensorLifecycle`, `AcquisitionSweep`;
   `Crc16`; `ModbusRtu`, `RequestServer`; the invariant of the updater proved.
2. *(done)* `AcSensorMediator`, composed of `AcSensorLifecycle` for each sensor;
   its invariant proved.
3. *(done)* `AcSensorSettings`.
4. *(done)* `DataProcessor`; its invariant and its action properties proved.
5. *(done)* `DBusBridge`, in both directions, with the setters of `AcSensorSettings`.
6. *(done)* `Drf1600`, `Drf1600Detector`; one activity proved.
7. *(done)* The requests, the life cycle and the setup of the updater, the queue of the driver, the
   detector's success, and the copies of the bridge proved.
8. *(done)* The sweeps of the updater, the failures of the detector, and the kinds of replies
   proved.  Left to prove: `SignalsGenuine`, from an assumption on what the checksum tells apart; that the bytes of
   the checksum stay bytes.
9. Left to model: the mode of `AcSensorUpdater` as a refinement of the three settings; two adapters
   in `Hub4Wireless`.
