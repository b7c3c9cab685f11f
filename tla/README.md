# Formal models of the SENTRON integration

TLA+ models of the Home Assistant integration `siemens_sentron`
(`src/custom_components/siemens_sentron`), the TLC runs that check them on small
instances and the TLAPS proofs of the properties that matter most for every
instance. Line numbers below are lines of that directory's files.

## 1. The system

One *config entry* is one Modbus/TCP device: a SENTRON Powercenter gateway with
wireless end devices behind it (ECPD, MCB RCM, AFDD, auxiliary switches ...), a
PAC2200 meter, or a VersiCharge charger. Everything runs on one asyncio event
loop: a handler is atomic between two `await`s, and the order in which awaiting
tasks go on is what makes the program hard.

| Component | State it keeps | Operations | Talks to |
|---|---|---|---|
| `modbus_api.py` connection | `client`, `_io_lock`, read counter | connect, close, read, write once | the device; every request passes `_io_lock`, first come first served, with a request timeout and no retry |
| `coordinator.py` refresh | `_root_gateway`, `_cached_slaves`, `_next_discovery_at`, `data`, `last_update_success` | `_async_update_data` every 10 s (a charger) or 15 s (a Powercenter or PAC2200) | connection, discovery, decoders; replaces the published snapshot |
| `coordinator.py` VersiCharge control | command guard, two rate-limit stamps, target, phase count, the values in the snapshot | target, resume, pause, fallback | called by `number.py`, `switch.py`; writes registers 1633, 1660/1661 |
| `versicharge.py` conversions | none | kW to A and back, readback | called by the control and the entities |
| `versicharge.py` `TotalEnergyFilter` | accepted total, run of lower readings | `seed`, `update` | the poll; the energy sensor's restore in `sensor.py` |
| `coordinator.py` write lock and cooldown | `_write_lock`, deadline, countdown task | four `write_..._with_cooldown`, countdown | buttons, switches, selects, numbers of a Powercenter; republishes the guarded entities |
| `coordinator.py` self-test tracking | running, baseline, display cache, timeout tasks | start, cancel, complete by a poll, time out | `button.py`, `sensor.py` |
| `coordinator.py` unlock window | deadline and task per device | start, reset, countdown, end by a poll | the unlock switch, `select.py`, `number.py` |
| `__init__.py` entry lifecycle | the registered coordinator | set up, unload, reload | Home Assistant; the topology reload of the coordinator |
| `gateway.py`, `discovery.py`, `device_types.py` | none | which root is it, which end devices are there | connection |
| `config_flow.py` | none | one form, one probe | root detection |
| entities, tables, diagnostics | presentation only | | the coordinator |

What is hard here, with its line, is the `hazards` list of `PROJECT.json`. In
short:

* a poll and a command overlap at every register block the poll reads, and both
  write the same snapshot;
* a request that nobody answered may have been executed, and a deadline can give
  up on a request that is still on the wire;
* any await can be the last one of a task (cancellation), so what a `finally`
  block does or forgets decides about everything after it;
* a shutdown or reload clears the coordinator's state under tasks that still run;
* a coordinator that was shut down may still run a refresh, a test or a write
  beside the one that replaced it;
* a device behind a radio link answers some requests and not others, and what is
  concluded from the missing ones lasts until the next reload;
* a meter that misbehaves must not look like a reset meter, nor the reverse,
  across polls, restarts and crashes;
* two roundings meet at the bounds of a range.

### What makes each component correct

* *Charge control*: one command at a time, whatever ends it; the remembered
  target is always one that can be resumed; an acknowledged limit and the shown
  target belong together; a stale snapshot does not last.
* *Conversion*: every value the user interface offers can be carried out, at the
  nearest ampere.
* *Energy filter*: the published total never falls unless the meter was reset,
  and then it does.
* *Write path of a Powercenter*: writes are single and spaced, however they end;
  a waiting call ends; the entities are blocked exactly through the cooldown.
* *End-device commands*: a command is sent only in a state of the device that
  permits it; a number, select or switch never shows a value its register did not
  hold (but for the "off" a locate switch starts with); a running test
  and an unlock window have their own full time, and end.
* *Lifecycle*: no connection is left behind; a device once published is not
  forgotten; entities that no longer fit the topology are created anew; a reload
  does not stop half-way.
* *Root detection and discovery*: whatever is not answered, a device is never
  taken for another one, values are decoded by the rules of the firmware, and an
  entity shows only what some refresh reads.

## 2. The modules

| Module | Models | Lines |
|---|---|---|
| `PowerConversion` | the arithmetic of the charging target | `versicharge.py` 457-565, `coordinator.py` 1069-1095 |
| `VersiChargeControl` (extends it) | the four commands, the poll, the charger and its connection, shutdown | `coordinator.py` 208-458, 972-1146, `modbus_api.py` 51-99, 205-283 |
| `TotalEnergyFilter` | filter, restore, reload, crash | `versicharge.py` 850-901, `sensor.py` 284-303, `coordinator.py` 151-166 |
| `SpacedWrites` | abstract: what a Powercenter is promised | |
| `PowercenterCooldown` (refines it) | lock, cooldown, countdown task, entities, shutdown | `coordinator.py` 521-648, 895-924 |
| `EndDeviceCommands` (instances `PowercenterCooldown`) | the entities of an end device around the write path: checks, read-back, self-test tracking, unlock window, refreshes | the command entities of `button.py`, `switch.py`, `select.py`, `number.py`; `coordinator.py` 462-564, 598-893 |
| `EntryLifecycle` | setup, refresh cycles, rediscovery, the delayed reload, unload, shutdown | `__init__.py` 32-109, `coordinator.py` 482-514, 895-992, 1100-1146, `discovery.py` 210-331 |
| `DeviceCatalog` | which type a variant is, what its profile lists, what is read and what is shown | `const.py` 49-309, `profiles.py`, `discovery.py` 43-99, `coordinator.py` 1223-1368, the platforms' `async_setup_entry` |
| `RootProbe` (extends it) | which root answers at an address | `gateway.py` 60-346, `versicharge.py` 421-449, 662-669, 761-824 |
| `Onboarding` (extends both) | form, entry, detection, discovery, first and later refreshes, entities | `config_flow.py`, `gateway.py` 349-425, `discovery.py` 112-311, `coordinator.py` 926-1020, 1100-1146 |
| `MC...` | instances for TLC | |
| `...Proofs` | TLAPS proofs about the module they extend | |

### VersiChargeControl

A service call is a record in `calls`: *queued* (it took the guard and waits for
the I/O lock), *sent*, *answered*. The steps are the code between two awaits:
`SetTarget`, `Resume`, `Pause`, `SetFallback` run to the I/O lock; `Send` takes
it; `ServeRequest` is the charger; `LimitAcknowledged`, `FallbackAcknowledged`,
`NotAcknowledged` and `Abandoned` (deadline or cancellation) are the four ways
out through the `finally` block. `SetTargetLocally` is the target edit without a
write and `RefuseFallback` the one refusal that changes state. The poll reads
register 1633, then the fallback pair, then publishes a *new* dictionary;
`held` records whether the dictionary a fallback command captured is still the
published one. The phase count is re-read or kept at the publication.

Abstractions: one request is outstanding per connection (the I/O lock); the
register blocks without control data are left out; `lastCommanded` is only shown
and is left out; `updateOk` starts FALSE, because until the first refresh there
is no data and so nothing to call; the charger's unit id is constant; the
installation current is constant while an entry lives. A request abandoned on
the wire stays there (`wire`), may be served late, and is served before any later one.
The charger accepts every value it is sent.

### TotalEnergyFilter

`life` is the life of a config entry: first refresh, sensor added (restore),
running. `saved` is what Home Assistant would restore. The restore feeds the
*published* value into the filter once more, as `restore_versicharge_energy`
does, and not the register. `readings` is a history variable: the readings of
this life. One confirmation would not be enough for this reuse of the published
value, so the module assumes at least two; the code uses three.

### PowercenterCooldown

`calls` and `waiters` are the asyncio lock; `cooldown` is the time to the
deadline in seconds; `countdown` is the task that sleeps a second at a time
(`due` is the interval between the end of its sleep and its run, in which the
clock may already have passed the deadline); `blocked` is what the entities last
published. Only delayed writes are modelled: entities write to end devices and
send commands, and parameter writes to the gateway itself, which need no
cooldown, do not occur in the entities. Entities refuse calls
during the cooldown before they reach the lock (`MayCall`). A cancelled task's
`finally` block runs with the shutdown that cancelled it. After the shutdown
calls in flight go on, and their requests find no client.

### EndDeviceCommands

One entity of one `kind` (every button, switch, select and number of an end
device is one of them) and several service calls on it. The variables of the
write path are those of `PowercenterCooldown`, and every step that touches them
is one of that module's actions: `Ask` is the entity's handler up to its first
await (availability, `Permits`, the start of the tracking, then the lock taken or
waited for), `Refuse`, `WriteLate` and `Cancel` are the ways out of the wait,
`Serve` is the device, `EndWrite` the end of the request with everything the
handler does before its next await: the tracking cancelled by the except clause
of a button, the unlock window opened or closed, the value a number or a locate
switch takes over, the state written. A select goes on with `ReadBack` and
`ReportSuccess` or `ReportFailure`. `Read` and `Publish` are a refresh with its
two ends: what is read is old when it is published, and
`_update_device_test_tracking` and the physical acknowledgement of an unlock are
part of `Publish`. `Expire`, `CountWindow` and `CountCooldown` are the three
timer tasks; `Tick` is a second.

`last` stands for `_last_raw`, `_last_valid_value` and `_attr_is_on`, `written`
for the state Home Assistant was given last. `connected` is what
`is_unit_connected` returns: the last refresh worked and its connection state was
answered as connected. A device whose connection state was not answered is still
queried and published, but its entities are unavailable. `held` is a history variable: the
values the register has held. `test.timeouts` is a set, although the code keeps
one task per device, so that a task that were not replaced would be seen.

Abstractions: the value of a register is one of `Values`, one of which
(`OutOfRange`) the entity does not accept; a device that says it is not connected
is not queried, and any other answer may be missing. Two entities of a device share the
write path, and only that, so a second entity is another caller of
`PowercenterCooldown`; a test and a window of one device are independent.

What the model shows of the code and no property forbids: a second press whose
write is refused by the cooldown cancels the tracking of the first, acknowledged
test (`button.py` 139); a cancelled press leaves a tracking without a command
(no except clause sees it); a refresh that was in flight when a test or an unlock
began can end its tracking or window early with an older status
(`coordinator.py` 833). A locate switch, the root's as an end device's, reads
nothing: it starts with `_attr_is_on = False` (`switch.py` 177, 296) and shows
"off" from its first state on, also after a reload while the device blinks. This
"off" is made up, so `ShownWasHeld` exempts it by name (`MadeUp`); of a locate
switch the property says that "on" is never shown unless the register held it,
and of every other number, select and switch that no value is.

### EntryLifecycle

`entry` is Home Assistant's state of the entry, or the step of the operation that
holds its `setup_lock`. `co` holds the coordinator objects: `current` is the one
the entry works with, the others outlive their registration in a refresh or a
timer. `NewCoordinator`, `Connect`, `FirstRefresh` and `Forward` are the awaits
of `async_setup_entry`, `FailSetup` its except clauses and `CancelSetup` the
cancellation they do not catch. `UnloadPlatforms` and `Close` are
`async_unload_entry` up to and after the wait for the I/O lock. `Rediscover` is
`async_discover_slaves` with the merge and the comparison of signatures, which
looks at `_cached_slaves` as they are *then*, empty after a shutdown. `FireReload`
is the end of the second `_async_reload_after_topology_change` sleeps.

A slot is `no`, `generic` (present and not identified) or `typed`; an unanswered
presence register hides it and an unanswered identification makes it generic, so
the merge replaces a known device by a generic one and reloads. `calm` is the
history's last disturbance: from then on devices stay and answer. It exists for
the liveness properties and for nothing else. `MaxReloads` bounds the reloads
counted while they wait.

What the model shows of the code: a refresh that outlives the shutdown compares
its discovery with the emptied cache and schedules another reload, which is
spurious and harmless (`NewDevicesGetEntities` holds all the same); a cancelled
setup leaves its connection open (`SocketsHaveOwners` says so, and it is the only
case).

### DeviceCatalog, RootProbe, Onboarding

`DeviceCatalog` is the code's tables as operators: a profile is a set of keys
with the way each is read; every metered quantity no other platform shows is the
one key `metering`. `RootProbe` is the order of probes in
`async_build_gateway_data` and `async_detect_root_device`, on a *box* (what the
registers of the thing at the address hold) and the set of requests that were
*lost*. A probe chain is an operator of both, so that every subset of answers is
tried. `Onboarding` is the way from the form to the entities: `SubmitForm` is
the flow, `Detect` and `Discover` and `Read` the parts of a refresh, `Forward`
the platforms, and `Reload` and `Refresh` begin again.

Assumptions about what is outside, stated as `BoxesAssumption` and
`DevicesAssumption`, evaluated by the run and cited by the proofs: only a
PAC2200 has its order number; a Powercenter has one of the variants the code
knows or none, another Siemens device neither these nor, together, the firmware
and slot registers; another box with a charger's manufacturer text has neither
the order number nor the plausible ratings of one; a charger has a firmware
version; a readable variant is the true one, and so is the variant of the longest
hint in an article number. They are what the probes rely on: a device that breaks
one of them may be taken for another by the code too. Besides, a box
does not change, and a charger answers at its own unit ids only. `NoneAssumption`, `ProbeAssumption` and `NoDataAssumption`
say that "no answer" and "no data" are values of their own, as Python's `None`
is, and that the two known unit ids are valid ones.

What the model shows of the code: a Powercenter 1100 whose variant was lost once
is treated as a 1000 until the next reload; a legacy charger whose firmware block
was lost is `modern_assumed` and its energy counts ten times until then; a
charger that answers at both unit ids may be stored at the fallback one. The
header of `discovery.py` (27-29) calls the gateway's connection state the
presence indicator; for a Powercenter 1000 the code uses the pairing status
(`discovery.py` 229-234), and so does the model.

## 3. The runs

| Run | Question | Instance and why it is enough |
|---|---|---|
| `power_conversion` | does the conversion keep its promises? | exhaustive: both phase counts, 6..80 A, every 0.1 kW in range; the 0.01-kW inputs around each |
| `versicharge_control` | guard, target and limit under all interleavings | two callers (a third is refused by the guard as the second is), one phase, 6..7 A so that two targets share an ampere and one is below the bounds, a raw limit above the installation, another controller that pauses, a fallback time that is refused; `Interval` 1 (elapsed or not). Symmetric in the callers |
| `versicharge_progress` | does a command end, does a stale snapshot go away? | one caller, whose command may be abandoned and served late; resume, pause and a fallback edit; a target edit adds no step of its own kind after `Begin` |
| `versicharge_stale_poll` | does editing the target of a paused charger write? | no failures and no other controller: the counterexample needs only one poll and two calls |
| `energy_filter` | when does the published total fall, and does a reset get through? | values 0..4 (a full value, a zero, a run of three rising readings between), six readings per life, three confirmations; any number of lives |
| `powercenter_cooldown` | are writes spaced, do waits end, do entities follow? | four callers (one writes, three wait, so a waiter can be overtaken by cancellations on both sides), ten seconds |
| `powercenter_shutdown` | does the shutdown stop the tasks? | the same |
| `end_device_commands` | are commands sent only when allowed, are shown values real (but the first "off" of a locate switch), do tests and windows keep their time? | two callers (one writes, one waits or is refused), every kind of entity, two values it may show and one it may not; `Cooldown` 2, `TestTimeout` 3, `AckWindow` 3, `RcmSettle` 2: a test and a window outlive a cooldown, so a second press comes while they run, and an unchanged RCM result can count before the timeout |
| `end_device_readback` | is the read-back the truth? | the same |
| `entry_lifecycle` | is any socket, device or reload lost? | two coordinators alive at a time (one that outlives its registration and the current one); one slot, since a topology is compared and merged slot by slot; two reloads that wait |
| `entry_deferred_reload` | does the reload wait for the refresh? | the same |
| `onboarding` | is anything taken for something else? | sixteen boxes: every supported root with each way of answering the probes tell apart, and boxes that are none; thirty end devices: every variant, readable and not, and variant registers that no table knows; unit ids 1, 2 and another; one slot, since each is treated by itself |

The four violations are disagreements between a sentence of the repository and
the code:

* `versicharge_stale_poll`: `docs/VERSICHARGE.md` 196-197 promises that a target
  edit while paused performs no Modbus write. A poll that read register 1633
  before the pause was acknowledged publishes the old limit over it. Until the
  next poll the charger counts as charging, and a target entered then is written
  and starts it.
* `powercenter_shutdown`: `async_shutdown` says it stops the runtime tasks. A
  write in flight ends later and starts a new countdown task, which runs for ten
  seconds on the coordinator that was shut down.
* `entry_deferred_reload`: `coordinator.py` 505 defers the reload "until the
  active coordinator refresh has returned". The code sleeps a second, whatever
  the refresh does; the refresh that scheduled it still has all its devices to
  read.
* `end_device_readback`: `select.py` 171-173 takes the read-back for the truth.
  When it answers with another value, `select.py` 183-187 still reports success
  if the published data holds the requested one, and the refresh asked for just
  before may have refreshed nothing.

Every property of a passing run has a mutant in `PROJECT.json`: a change of one
definition, of the kind a bug in that code would be, under which the run finds
the property violated.

`MCPowerConversion` ends at the upper bound of its walk and is checked without
deadlock detection; every other run checks for deadlock.

### Fairness

Used by `versicharge_progress`, `powercenter_cooldown`, `end_device_commands`,
`entry_lifecycle`, `onboarding`, and the violations of these instances.

* A ready task and an expired timer run: weak fairness of the poll's steps,
  of the countdown task, the clock and the lock's next waiter.
* A command always has a way to end (`Finish`): the request timeout (5 s for a
  charger, 15 s for a Powercenter) and the 12-second deadline of a VersiCharge
  command, so weak fairness of ending a sent request.
* The I/O lock is first come first served, so a queued command, to which the
  lock is offered again and again between the blocks of the polls, gets it:
  strong fairness of `Send`. Without it the wait would end with the deadline,
  which is also there.
* The next poll is scheduled after the last one ended (`StartPoll`).
* The awaits of a setup, an unload and a refresh end, by an answer or a timeout:
  weak fairness of `SetupStep \/ FailSetup`, `UnloadEnds`, `Close`,
  `RefreshEnds`, and of the steps of `Onboarding`. Home Assistant retries a setup
  that was not ready (`RetrySetup`, `Detect`).
* Home Assistant gives the `setup_lock` in turn and a discovery becomes due again
  every `_DISCOVERY_INTERVAL_SECONDS` while refreshes come and go: strong fairness
  of `TopologyReload` and `Rediscover`, which other operations and cached
  refreshes disable again and again.
* Every end-device request has a timeout and the three countdowns run: weak
  fairness of `EndWrite`, of the lock's next waiter, `Expire`, `CountWindow`,
  `CountCooldown`, `Tick`.

No fairness is assumed of users, of a device, of the other controller, of a
cancellation or of a shutdown. `NewDevicesGetEntities` and `EntryComesUp` are
about what happens after `CalmDown`, which may never come; `DerivedStatesEnd` is
about behaviours in which nothing more is asked for.

## 4. The proofs

All proofs are for arbitrary constants that satisfy the named assumptions
(`NoneAssumption`, `ControlAssumption`, `FilterAssumption`,
`CooldownAssumption`, `CommandsAssumption`, `LifecycleAssumption`, and those of
section 2 for `Onboarding`).

* **`PowerConversionProofs`**: `NominalPower` is monotone; every 0.1-kW target
  inside the bounds converts to an allowed ampere (`InBoundsPowerConverts`), the
  nearest one (`NearestAmpere`); the power of an ampere converts back to it
  (`AmpereRoundTrip`); the initial target converts (`InitialTargetConverts`).
  The range 6..80 A and the phases 1 and 3 are the code's; the currents are not
  enumerated. `MCPowerConversionProofs` draws from them the three invariants of
  the run `power_conversion`; its inductive invariant is that the power walked
  through never leaves `PowerBounds`.
* **`VersiChargeControlProofs`**: the invariant `IInv` strengthens the checked
  ones by what a call in flight carries (`CommandsConvert`): a target or resume
  call carries a power that converts, and exactly the ampere of that power; a
  pause carries zero. That is why the acknowledged limit matches the target that
  is committed with it. From `IInv` follow `TypeOK`, `SingleFlight`,
  `TargetUsable`, `AckedLimitMatchesTarget` and the action property
  `TargetMovesWithItsAnswer`.
* **`TotalEnergyFilterProofs`**: two strengthenings, each tying the filter to the
  history of readings. `HistoryInv`: an unfinished run of n lower readings is a
  rising selection of n of the latest readings, which all lie below the accepted
  total; the reading that completes the run completes the selection that
  `FallsOnlyAfterReset` asks for. `LatestInv`: the latest reading is the accepted
  one, or the run ends with it and counts at least as many readings as have been
  rising up to now, so a run of `Confirmations` is followed (`RisingRunShown`).
  `RestartKeepsTotal` follows from types alone: a seed never lowers the accepted
  value, and the one update that follows it is not enough to confirm a reset.
  For every number of confirmations above one and every set of readings.
* **`PowercenterCooldownProofs`**: `LockOK` and `EntitiesFollowCooldown` with
  two facts more: until the shutdown the write under way was issued by the live
  coordinator, and a call waits at a free lock only while the cooldown of the
  write before it runs. The second is why a waiter never sends
  (`WaitersAreRefused`) and why a write that begins after waiting is no step of
  the promise. `PromiseKept` is the refinement of `SpacedWrites`, step by step,
  for any callers and any cooldown.

* **`EndDeviceCommandsProofs`**: first that every step is a step of
  `PowercenterCooldown` or leaves its variables alone (`CommandsKeepToThePath`),
  so that all that is proved there holds here and its invariants can be used:
  `CommandsAreSpaced` is the refinement of `SpacedWrites` by the commands, and
  `CommandsMeetCooldown` what the entities and the waiting calls meet. Then
  three small invariants of their own: `OneTimeout` (a running test has exactly
  one timeout, due when the test has run its full time) for `RunningHasTimeout`
  and `RestartGetsFullTime`; `WindowInv` (the written state of the unlock switch
  is what the published status and the window give, and an open window has its
  task) for `UnlockFollowsWindow`; `HeldInv` (what is published, read,
  remembered or asked for by a request the device has served was held, or is the
  "off" a locate switch starts with) for `ShownWasHeld`.
  `SentOnlyWhenAllowed` is proved with the path's fact that a waiter never sends while the
  coordinator lives, which is why a check made before the wait is never stale when it counts.
* **`EntryLifecycleProofs`**: the invariant `LInv`. `Owner` and `SetupIsQuiet`
  tie the state of the entry to the coordinator it works with; `UpIsLoaded` says
  only the registered one is up; `CacheIsData` and `ReadingKeeps` that it compares
  with what it has published and that a refresh has lost none of it; and
  `FitsOrReloads`, the strengthening of `ChangedTopologyReloads`, that what is
  about to be published fits the entities too, unless a reload is under way.
  Without the last, the publication that follows a rediscovery could not be
  shown to be covered by the reload the rediscovery scheduled. From it follow
  `TypeOK`, `SocketsHaveOwners`, `ChangedTopologyReloads` and, step by step,
  `NoTopologyForgotten`.

* **`OnboardingProofs`**: five arguments that meet in one invariant, for any
  boxes, any devices and any answers lost.
  *Detection.* What a chain of requests hears is what the box holds, or nothing
  (`FirstHeardIn`), so each probe finds a root of the set `Roots(box)` or nothing,
  and so does the chain of probes in whatever order the stored kind puts them
  (`DetectionIsSound`). `Roots` says of a charger also that its two profiles are
  those of its firmware or assumed, and that it answers at the root's unit id.
  *Retries.* What some answers were enough to find, all of them find, with the
  kind and unit id found first (`RetryFinds`). So every entry stays detectable
  (`EntriesStayDetectable`) and, once nothing is lost, no refresh fails
  (`ReadsFailOnlyByLoss`): the two safety facts the liveness property
  `EntryComesUp` rests on, beside the fairness of the retries.
  *Discovery.* Whatever of connection, pairing, variant and article number
  answers, the slot found is in `TrueInfos(device)` (`DiscoveryIsTrue`).
  *Profiles.* Every step of `get_effective_device_profile` keeps a profile sound
  (a value that is read for every item, one item for a key) and keeps its keys
  (`BreakerKeeps` to `CurrentKeeps`); the inputs and outputs of a DIDO are new
  keys because no earlier step adds one of them. Hence `ShownIsRead`: the choices
  by variant of the five platforms agree with the choices by type and variant of
  profile and refresh. It needs the type to be the one the variant says, which is
  part of `TrueInfos`.
  *Steps.* `OnboardingInv` carries these facts through the refreshes: the root
  stays the detected one until a reload, so what was decoded by its profile is
  still explained by it (`DecodedOK`); the keys published belong to the slot
  published beside them (`KeysOK`); and nothing is published without a root. From
  it follow all five invariants of the run `onboarding`.

Every invariant of a passing run is proved, and so is every action property and
the refinement. Only model-checked is everything about liveness, which is beyond
the proof system (`CommandEnds`, `SnapshotCatchesUp`, `WaitingEnds`,
`EntitiesReturn`, `DerivedStatesEnd`, `ReloadCompletes`, `NewDevicesGetEntities`,
`EntryComesUp`).

## 5. Not modelled, and the plan

Left out for good: presentation (names, formats, ids), register addresses and
scales, diagnostics, translations and the release scripts. They hold no state and
no order of events. `PROJECT.json` says of every component how far it is
modelled.

Still open, in this order:

1. The display cache of a derived RCM test timestamp (`coordinator.py` 800-833)
   and its restore: it is only shown, and a completed tracked test is the only
   thing that replaces it.
2. `ModbusLink`: the I/O lock's queue with its request timeouts and the 12-second
   deadline on one clock, and an abstract link that the connection of
   `VersiChargeControl` implements. The untimed question, that a command can be
   abandoned before and after its request left, is modelled; the timed one, how
   long it may wait behind a poll, is not.
3. A composition of `EntryLifecycle` with `EndDeviceCommands`: commands of a
   coordinator that was shut down against those of its successor, which starts
   without the cooldown of the other (`coordinator.py` 109). Nothing in the
   repository promises a rest across a reload, so there is no property to check
   yet.
