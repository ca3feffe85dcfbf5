# Formal models of SolisConnect

SolisConnect is a Home Assistant integration for Solis inverters. One inverter
is reached over Modbus (TCP or serial), over the SolisCloud HTTP API, or both.
This directory holds TLA+ models of the parts of it whose correctness depends on
the order in which things happen, the TLC configurations that check them on
small instances, and proofs that TLAPS checks for every instance. Paths below
are relative to `src/custom_components/solisconnect/`.

Everything in the integration runs on one asyncio event loop. There are no
threads, but every `await` is a point where any other coroutine may run, so a
step of a model is the code between two suspensions.

## Inventory

| Part | State | Operations | Interacts with |
| --- | --- | --- | --- |
| Inverter hub (`inverter_hub.py`) | active protocol, polling object, dwell and recovery timestamps, health timer, tick guard | start, stop, switch, health tick, probe, delegated reads and writes | builds and stops polling objects; entities and services call it |
| Modbus polling (`data_retrieval.py`) | stopped flag, timers, first poll, connection check guard, poll lock, groups being updated | poll, connect loop, watchdog, timed updates, block recovery, spike filter, stop | controller, cache, hub |
| Cloud polling (`cloud/cloud_retrieval.py`) | stopped flag, timer, inverter id | poll, update cycle, gates for unmapped entities and TOU V2, stop | API client, cache, pending writes of the cloud controller |
| Modbus controller (`modbus_controller.py`) | enabled, data received, time of the last success | connect, reads, writes, forced close, close | client, lock and inter-frame clock of the link |
| Client manager (`client_manager.py`) | per link: client, lock, reference count, time of the last request | get client, get lock, wait for the gap, release | every controller of a link, config flows |
| Cloud controller (`cloud/cloud_controller.py`) | verify tasks, pending registers | writes of control CIDs (single, composed, TOU switch), verify, close | API client, cache, cloud polling |
| API client (`cloud/api_client.py`) | token, request lock, time of the last request | signed post with retries, login, reads, control | SolisCloud |
| Entities (`sensors/`, `time.py`) | shown value, availability | bit and value writes, companion writes, staleness watchdog | hub, cache |
| Register cache and dispatch (`helpers.py`) | one dictionary for all inverters, one clock drift counter | save, get, notify, clock correction | everything |
| Entry lifecycle (`__init__.py`, `config_flow.py`) | controllers by entry, entity lists, unique ids | setup with stagger, unload, validation, migration, services | all of the above |
| Register tables (`sensor_data/`, `data/`) | none | blocks with their poll speeds and features, CID encoding and decoding | setup, polling, recovery, cloud parts, entities |

### Hard behaviours

* A poll, a probe or a write is suspended while something else switches the
  protocol, stops the polling object, unloads the entry or reconnects the link.
  Stopping cancels timers, never a coroutine that is under way.
* One RS485 link serves several inverters, each with polls and writes of its
  own; a device that answers one request at a time is shared through one lock
  and one clock, by reference counting.
* SolisCloud accepts commands that may not stick, and reports the inverter's
  settings late. A write is shown at once and verified later, beside polls.
* Failover needs hysteresis: it must neither flap nor stay on a dead protocol.
* Failure and timeouts end in the middle of multi-step operations (block
  recovery, TOU switch writes, config flow validation, setup).
* Several entities share the bits of one register, several inverters one cache
  and one drift counter, several versions one entity registry.

### What makes each part correct

* Hub: at most one live polling object and always the one it holds, of the
  active protocol; timers only for the active protocol; switches spaced; return
  only after a recovery; failover and return happen; stopped objects go quiet.
* Write routing: the fallback is not the protocol that just failed.
* Link: the count of references is that of the users, less what validations release
  in excess; one request at a time; gaps between frames; nobody blocks it forever.
* Cloud writes: no mark left behind, no stale poll over a pending write, the
  cache converges to the inverter, registers that are not set keep their value.
* Register recovery: without lost packets only sensors on rejected registers are
  disabled; an enabled one is read by exactly one group; the standby's list
  follows; in the end nothing rejected is polled.
* Switches: an undisturbed call changes its own bits only, an acknowledged one was
  carried out in full, and what is shown comes to be what the device holds.
* Readings: Modbus polls hold spikes back, but values that last get through; a derived
  value is of one poll; clocks are set only after many tests, and then until they are right.
* API client: requests are serial and spaced from the last headers, retried controls
  are not overtaken, a second login helps, every call ends.
* Entry identity: no two entries have one ID, and entities keep their history.

`PROJECT.json` lists every component with its status and every hazard at its
line with the properties that cover it.

## Modules

| Module | Stands for |
| --- | --- |
| `Retrieval` | the life of `DataRetrieval` and `CloudDataRetrieval` objects and their transports |
| `InverterHub` (extends `Retrieval`) | `SolisInverterHub`: start, stop, switch, select (restored, picked during the setup or later), health tick |
| `PollerLease` | abstract: one holder of timers at a time, revoked before it is granted anew |
| `RoutedWrite` (extends `InverterHub`) | `_routed_write` beside everything the hub does |
| `ModbusLink` | one link: client manager, controllers, reads and writes, config flow validation |
| `HalfDuplexBus` | abstract: a bus with one request outstanding and a minimum gap before each |
| `CloudWrites` | writes of one control CID, verify tasks, polls that land beside them, unload |
| `RegisterTables` | the blocks of all register tables: start, speed, required features, widths |
| `RegisterRecovery` | poll cycles, bisection of rejected blocks, disabling of sensors, both lists of groups |
| `BitRegister` | one register whose bits are switches: toggles, whole writes, both protocols, verifies, polls |
| `Readings` | spike filter, derived sensors, clock drift test |
| `CloudApi` | `SolisCloudApiClient`: request lock, spacing, retries, login, controls |
| `EntryIdentity` | unique IDs of entries and entities through migrations, flows, reloads and removal |
| `MC...` | constants, scenarios and symmetry for TLC |
| `HubProofs` | theorems about `InverterHub` and `RoutedWrite` |
| `ModbusLinkProofs`, `CloudWritesProofs`, `RegisterRecoveryProofs`, `BitRegisterProofs`, `ReadingsProofs`, `CloudApiProofs`, `EntryIdentityProofs` | theorems about the module they are named after |

### How state and actions correspond to the code

**Retrieval.** `ret[r]` is one polling object. `task` follows its
`poll_controller` coroutine: `listening` (waits for the started event),
`scheduled` (task created), `preparing` (connect loop, or the cloud gates),
`first` (first cycle), `ended`. `stopped` is `_stopped`, `timers` is "the list
of unsubscribe callbacks is not empty", `busy` a cycle that a timer started.
`age[p]` is the time since the last success, `socket` is pymodbus' `connected`.
The registers a cycle reads are abstracted to whether the transport answered.
Objects that were stopped and have no coroutine left are garbage: the identity
is reused, so a finite set stands for unboundedly many switches.

**InverterHub.** `active`, `current`, `dwell`, `healthySince`, `healthTimer`
and `tick` are `_active_name`, `_retrieval`, the age of `_last_switch`, the age
of `_primary_healthy_since`, `_unsub_health` and a health tick in its probe.
`async_set_active` has no suspension point once it owns the lock (stopping a
polling object awaits nothing), so `SetActive` is one step. `sinceSetback` is a
history variable for one property.

**RoutedWrite.** `write[w]` is a call of `_routed_write`: its first attempt, the
one it falls back to, and (history) whether the hub switched in between.

**ModbusLink.** `registered` and `refs` are the manager's entry of the link;
`line[c]` is the FIFO of the `asyncio.Lock` made with client `c`, the holder
first; `ctl[k]` is a controller, of an entry or of a config flow, with the
client it was built with; `op[o]` is one read or write: waiting to connect,
connecting, waiting to send, sleeping off the gap, its frame on the wire, or
between two blocks of a poll. `lastRequest` is `last_modbus_request`,
`sinceFrame` a history variable with the age of the last frame really sent. A
validation is `FlowStarts` and one `FlowAttemptEnds` per attempt, each with the release
of its `finally` clause (`attempts` counts them). `surplus` counts, as history, the releases by
controllers that hold no reference, `retried` tells whether there has been one since
the link was unused. Whether a device answers is open at every request.

**CloudWrites.** `device` are the inverter's settings, `cloud` what SolisCloud
reports of them, `cache` the shared cache, `pending` whether the CID's registers
are in `_pending_write_registers`, `call[w]` a write, `verify[v]` a verify task
and `poll[p]` an update cycle that was answered and has not published yet.

**RegisterTables** is data: every block of `hybrid_sensors.py` and
`string_sensors.py` in the order of its entities, so that the recovery is checked
on the real layouts. Names, units and scaling are left out.

**RegisterRecovery.** `groups` and `standby` are `_sensor_groups` of the Modbus and
of the cloud controller. `cycle[c]` is one update cycle: the groups still to be
read (`queue`, and `todo` for those a recovery has made), the ONCE groups it will
drop (`marked`), and the run of registers `lo`, `n` it bisects; `hash` is
`poll_updating`. A step is one request and the code up to the next one. The field `by` of
a group is the cycle whose recovery made it, since the code tells equal groups of two
cycles apart by identity. A scenario is what was set up and which registers the
inverter rejects.

**BitRegister.** One register shared by switches and by an entity that writes all
of it. A scenario says what the cloud knows of it: `whole` (43110, one control
CID), `bits` (43707, twelve CIDs, one per bit) or `local` (43483, no CID; one of
its switches is inverted). `call[w]` is a write: the Modbus frame, the read of the
old bits, or the control calls, with the fallback of `_routed_write` between them. A
toggle on a cold cache raises (`Divergences`). `verifies` and `poll` are as in
`CloudWrites`, per bit. `began`, `acknowledged` and `undisturbed` are history: what the
device held when the call was made, whether it ended well, and whether every value it
took was one that the device held then or since by its own doing.

**Readings.** A poll of inverter `i` over Modbus brings all its blocks or some of them,
one over the cloud (`active`) the state of charge as it is reported and what it maps of
the pair. `spikes` is the counter of a Modbus object: the hub's, or the one before it
whose cycle was in flight at the switch (`winding`) and brings what it had not read.
`received` is what a derived sensor has collected, `drift` the one counter in
`hass.data`, `setting` the inverters with a clock write under way.

**CloudApi.** `lock` and `queue` are `_request_lock`, `slot` says that the spacing
since `_last_request_monotonic` has passed, which the headers of a response set
(`Headers`) before its body is read with the lock held. `token` numbers tokens by the
login that brought them, `fresh` compares the age with `TOKEN_LIFETIME`. `call[c]` is a
call with its stage (login or the request itself), its attempt and the token it carries.

**EntryIdentity.** Unique IDs are `Old` (host or identification in front), `Dict`
(the `repr` of a definition, one per edition of the code) or `New` (the serial).
`Loads` is `async_migrate_entry` and `async_setup_entry` up to its suspension,
`SetUp` the migration of definitions and the platforms. `using` and `built` are the
serial and the groups that the set-up has read at its start; `seen` and `deleted`
are history.

## What the runs show

| Run | Module | Shows |
| --- | --- | --- |
| `failover` | `InverterHub` | typing, `CurrentServesActive`, `NoOrphans`, `MinDwellBetweenSwitches`, `ReturnOnlyAfterRecovery`, refinement of `PollerLease`, `FailsOver`, `ReturnsToPrimary`, `StoppedGoesQuiet` |
| `manual` | `RoutedWrite` | manual mode, the restored option being the one the hub starts with, and a write: `StandbyHasNoTimers`, `FallbackUnlessOvertaken` |
| `link` | `ModbusLink` | typing, `EveryHolderIsCounted`, `OneRequestPerClient`, refinement of `HalfDuplexBus` by the registered client, `OperationsEnd` |
| `cloud` | `CloudWrites` | typing, `PendingHasVerify`, `PollRespectsVerify`, `CacheConverges` |
| `recovery` | `RegisterRecovery` | typing, `EnabledCovered`, `NoFalseAlarm`, `StandbyFollows`, `Settles` |
| `switches` | `BitRegister` | `OthersKept`, `WritesApplied`, `ShownConverges` |
| `readings` | `Readings` | `SpikesHeldBack`, `SetAfterManyDrifts`, `MixedOnlyAfterGap`, `ReadingsConverge` |
| `api` | `CloudApi` | `SpacedUnlessCancelled`, `CallOrderKept`, `SecondLoginHelps`, `EveryCallEnds` |
| `identity` | `EntryIdentity` | `UniqueSerials`, `OldestKept` |

The comment above each property states it in words. Every property is known to
fail for a mutated definition (`mutants` in `PROJECT.json`).

### Divergences

Three runs state what a comment or a page of the documentation says and find it
violated. Each is listed under `findings` with the line quoted:

| Run | Claim | What happens |
| --- | --- | --- |
| `unload` | stop on unload | a health tick suspended in its probe starts a polling object after the stop |
| `restore` | the standby stays idle | `async_start` overwrites the object that a selection, restored or picked during the setup, has started |
| `renamed` | delete the duplicate and restart, and the old entity is renamed | the migration does not run again once the entry has its serial, so the duplicate is made anew |

Reading and modelling met the following too, for which no run is kept. The
properties are stated so that they hold in spite of these: per registered client,
"unless overtaken", "undisturbed", "finally".

* Hub and link: a cycle of a stopped object that was in flight at the switch goes on
  beside the new object (`inverter_hub.py:39`); a switch during the first attempt of a
  write makes the failed protocol "the other" (`inverter_hub.py:257`); an unloaded
  controller in mid-poll reconnects its released client beside the new client of a
  reloaded entry (`modbus_controller.py:227`).
* Reference counting: `client_manager.py:108` says "Release a client and clean up if no
  more references", but a validation takes one reference (`config_flow.py:603`) and
  releases one in each of up to five attempts (`config_flow.py:605`, `660`). From the
  second on it releases what entries hold: their client is closed under them and dropped
  from the manager, and an entry that is set up then gets another client, with a lock
  of its own, for the same bus. `EveryHolderIsCounted` says by how much the count is
  short.
* Cloud writes: overlapping verifies share one set of marks, so the first to end lets
  stale polls over the other; a verify whose two reads both fail leaves the unverified
  value in the cache (`cloud/cloud_controller.py:243`); a write that awaits its control
  call at unload starts a verify afterwards (`cloud/cloud_controller.py:72`); of two
  concurrent composed writes of one CID the second sends the first one's register as
  it was before (`cloud/cloud_controller.py:166`); a write of a V1 TOU current goes to
  all slots.
* Cloud reads of TOU switches: the read before a write takes a CID that is missing
  from the answer for "off", while a poll keeps the cached bit.
* API client: `cloud/api_client.py:117` says "Enforce minimum spacing between requests",
  which is measured from the headers of the last response (`cloud/api_client.py:154`):
  after a body that took the second to read the next request goes out at once. A
  request cancelled before its headers leaves the spacing unset; a read whose token was
  withdrawn never logs in again; a control that logs in may be overtaken.
* Cloud writes of TOU switches: the old value is what is cached when the first control
  is sent (`cloud/cloud_controller.py:197`). When the hub falls back from a Modbus write
  under which a stale poll has landed, the changes are computed from that poll: the
  write may be acknowledged with nothing sent, or send other bits.
* Switches and selects on a cold cache: `sensors/solis_binary_sensor.py:122` says "Read the
  live value from the inverter first" (issue #402), and `solis_select_entity.py:142`
  likewise. The controller of an entity is the hub (`__init__.py:353`), which has no
  `async_read_holding_register`: the call ends in an `AttributeError`, and nothing is
  read, written or shown. `tests/test_switch_conflicts_requires.py:103` and
  `tests/test_solis_select_entity.py:38` pass because their controllers are mocks. The
  live read of the cloud controller (`cloud/cloud_controller.py:299`) has no other caller.
* Switches: two toggles that overlap lose a bit; a switch shows the requested state
  when nothing was sent; the conflicts of 43110 are not symmetric and option 37 of the
  select sets bits that conflict; 90005 is tested by a `_register` it never has.
* Readings: `data_retrieval.py:432` says "Filter short-lived implausible readings for
  known noisy registers", which is done to Modbus readings only; the cloud publishes
  33139 and 33148 as they are reported (`cloud/cloud_retrieval.py:156`), so after a
  failover a spike can be shown at once, and stays cached when Modbus comes back.
* Readings: after a poll that missed one block a derived sensor may combine two polls
  from then on; the drift counter is shared, so tests of one inverter count for, or
  reset, those of another, while a test is named after consecutive cycles.
* Recovery: a packet lost during a bisection disables sensors the inverter serves.
* Tables: grid inverters with TOU V2 get time entities of 43711 and above that no block
  polls; derived PV powers listen to registers that are not polled without PV.
* Identity: numbers, switches and selects with host-based IDs are never migrated; of
  two entries with one serial, removing the one that provides the entities deletes
  them with their history; `docs/source/migration.md:20` says the integration goes on
  without a serial, while the set-up raises (`__init__.py:168`).

### Bounds

* Hub (`failover`): two polling objects, the held one and one that winds down; a
  stopped object is reused when it is done, so there are unboundedly many switches.
  Two ticks cover a tick in its probe beside a later one. `MinDwell` 1,
  `PrimaryRecovery` 2 and `StaleAfter` 1 or 2 units keep the order of the code's
  constants (120 s, 300 s, 120 s, a tick every 30 s) and let each threshold be missed
  by one. Ages saturate at the largest threshold they are compared with, which loses
  nothing. The cloud is the primary: a Modbus probe counts as a success, so with
  Modbus as primary staleness alone keeps switches apart. The violation runs use
  2 and 3 units. `manual` has no ticks that matter and needs no thresholds above 1; a
  third polling object lets two that were stopped wind down under one write.
* Link: an entry and a config flow with one operation each, two clients (one
  registered, one left behind by an unload). A clock unit is 50 ms, so the gaps are 1
  and 2. A validation makes up to two attempts of the code's
  five: two releases empty a count of two, and the theorem is for any number.
* Cloud: two registers with two values ("as before" and "changed", a composed write),
  one write at a time, two verifies so that they overlap, one poll.
* Recovery: every block of the tables with each single bad register, and with each pair
  in blocks of up to eight registers; beside these a group of three sensors and a ONCE
  group under two cycles, of one polling object or of a stopped one and its successor,
  with up to two bad registers and one fault. `MaxDepth` 1 stands for 24: it is
  reached, and going deeper is the same step again.
* Switches: two switches and a writer of the whole register, two or three bits, three
  scenarios; `MaxEvents` 3 failures, toggles or outside changes.
* Readings: the code's own `Patience` 3 and `DriftLimit` 5; `MaxEvents` 5 suffices for
  the state of charge to jump to both edges and back between missing blocks, or around
  a visit to the cloud. One stopped object at a time has a cycle in flight. Two
  inverters read no derived sensor, since only the drift counter is shared.
* API: two controls and a read, the code's three attempts, three calls, three events
  (a token expires or is withdrawn, the service fails, a call is cancelled).
* Identity: an old entry with every subset of old and duplicate entities, one entry
  that may be added, two serials, a sensor that needs a feature and a number, two
  editions of duplicates, three actions of a user.

### Fairness

The event loop runs what is ready and every external call ends by an answer or a
timeout (pymodbus and aiohttp both have one), hence weak fairness of each
coroutine's steps, of timers and of the clock. `LeavePrimary` and probes are weakly
fair because the health timer fires for as long as it is registered. The lock of a
link is FIFO, so no strong fairness is needed there. In `CloudWrites` the
landing of polls is strongly fair: the API may fail arbitrarily often but not for
every poll.

Recovery takes its lock and starts a cycle of a speed with strong fairness, since the
model keeps no order of the waiters and overlapping timers may skip a cycle; requests
are weakly fair. In `BitRegister` and `Readings` polls, verifies and writes end, lost
links return and the cloud catches up; what goes wrong or changes is bounded by
`MaxEvents`. In `CloudApi` only the call's own steps and the passing of time are fair,
nothing the service does. `EntryIdentity` has safety only. Users, unloads, switches of
the connection and the far ends are never fair; `FailsOver` and `ReturnsToPrimary`
assume the far end stays down or up.

## What is proved

All theorems hold for every value of the constants under the assumptions named in
the modules.

* `HubProofs`: `TypeCorrect`, and from one inductive invariant `NoOrphansHolds`,
  `CurrentServesActiveHolds` and `StandbyIdle`. `NoOrphans` alone is not
  inductive: a switch picks an unused identity, so the invariant also says what
  unused, held and stopped objects look like, and that nothing is held before
  `async_start`. The last three assume that nothing but the initial protocol is
  selected before `async_start`, by the restore or a user, the case that `restore`
  refutes.
  `HubImplementsLease` (the set of objects with timers only grows from empty and only
  shrinks to empty) follows under the same assumption; `DwellRespected` and
  `RecoveryRespected` are about failover mode. The dwell theorem needs that a tick in its
  probe measured a dwell not above the present one;
  the recovery theorem that the age of `_primary_healthy_since` never exceeds the time
  since the last setback.
  Of `RoutedWrite`: `WritesLeaveHub` shows step by step that it implements
  `InverterHub` (an attempt does nothing to the hub that its environment may not do),
  so that every theorem of the hub holds beside writes, `StandbyIdleBesideWrites` for
  one. `FallbackToOther` needs that the first attempt is on the active protocol for as
  long as no switch has overtaken it.
* `ModbusLinkProofs`: `LinkTypeCorrect`, `ClientSerial`, `LinkImplementsBus` and
  `HoldersCounted`.
  The invariant behind the first two is that an operation past a lock is first in
  the line of its client; it is stable under reloads because a controller's client
  changes only while none of its operations runs, which is the second conjunct.
  The refinement of `HalfDuplexBus` needs one more (`GapKept`): the clock of the
  registered client never runs ahead of its last frame, and an operation that
  sleeps off the gap on it wakes when the gap is over and stamps that same client.
  A released client is outside the claim, since the code stops timing it.
  `HoldersCounted` is for any number of attempts, flows and entries; it needs that the
  registered client is held by somebody until a validation has released too much, and
  that a client which is made anew has no holders yet.
* `CloudWritesProofs`: `CloudTypeCorrect`, `NoMarkLeftBehind` (each end of a verify
  clears the marks) and `PollsKeptOut`. The last needs that a verify which has been
  alone is still the only one and its marks are still set, which overlapping verifies
  break.
* `RegisterRecoveryProofs`: `BlocksFilled`, `OnlyBadSensorsDisabled`,
  `StandbyEditedAlong` and `EnabledStayRead`, for any tables whose groups are
  contiguous and share no sensor; `RecoveryAssumption` says so, and the run evaluates
  it for all real tables. Two lemmas carry the load: a set of registers without gaps
  fills the block from its lowest one (counted by `Cardinality`, not by induction), and
  clusters are the classes of an equivalence, so splitting a group loses no sensor and
  puts none in two groups. The invariant adds that groups are disjoint, that a group
  marked to be dropped was read once, and that what is bisected lies in the block of
  its group. Steps are sorted into three kinds (a cycle moves on, ends a block, or
  disables and replaces), so that each invariant is shown for three cases only.
* `BitRegisterProofs`: `BystandersKept` and `AcknowledgedApplied`, both from `BitsAimed`:
  an undisturbed call wants what the device held when the call was made with its
  switch turned, the device differs from that in no bit that it did not differ in then,
  and the bits still to be sent include all that differ. Any mixture of failed
  frames, partly sent TOU switches and one fallback keeps this. `BitAssumption` asks
  that no bit conflicts with itself.
* `ReadingsProofs`: `SpikesFiltered` and `ClockSetAfterDrifts`, since the counters of
  the code, each object's for its own readings, never run ahead of what has been read,
  and `MixedExplained`, since a derived sensor keeps a register over a poll only if that
  poll lacked the other one.
* `CloudApiProofs`: `RequestsSpaced`, `SecondLoginAccepted` and `ControlsInOrder`. The
  invariant says that who is past the lock holds it, that a request in flight carries
  the present token, that who waits is in the queue once, and that a control that has
  not logged in is ahead of all that were called later.
* `EntryIdentityProofs`: `SerialsUnique` and `OldestEntityKept`. For the second every
  entity an entry has ever shown must have a witness in the registry: itself under its
  old ID or its definition's, or one as old under the new ID. That some of them is the
  oldest is the well-foundedness of the naturals.

Only model-checked is all liveness (`FailsOver`, `ReturnsToPrimary`, `StoppedGoesQuiet`,
`OperationsEnd`, `CacheConverges`, `Settles`, `ShownConverges`, `ReadingsConverge`,
`EveryCallEnds`): fairness and `ENABLED` are beyond the prover. The theorems of the hub
about ownership and the lease assume that no other protocol is selected early, because the
code breaks the properties otherwise.

## Not modelled

* Register payloads, scaling, names and entity presentation; requests, signatures and
  answers of SolisCloud. `cloud/cloud_mapping.py` converts floating-point values and
  texts, which TLC has no arithmetic for; what is modelled of it is which registers a
  control CID packs and which CIDs are bits of one register.
* The gates that skip cloud reads (unmapped entities, TOU V2), companion writes and
  adjusted limits of numbers, restored values, required bits of switches, the
  staleness watchdog of entities: each reads and writes one entity's own state between
  two suspensions, or none.
* Stagger, services and diagnostics: they call what is modelled, in no order of theirs.
* The device registry and the time entities, which are migrated like the entity
  registry and the sensors.
* The event loop's own scheduling order, beyond "some ready step runs".
* pymodbus' retries and timeouts inside one request: a request either is answered
  or raises. Its automatic reconnection of a lost client is an external action.
* Clock steps: durations are measured by a monotonic clock in the models, while
  the code uses wall-clock UTC.

## Plan

Every part whose steps interleave is modelled, and every invariant and action property
that a run checks is a theorem. What is left:

1. Hub: what still holds with early selections, in particular how many objects can be
   left behind and for how long.
2. Cloud writes: a safety core of `CacheConverges`, that a cache which differs from the
   inverter is explained by a task, a poll or a report that is still to come.
3. Link: which entries lose their client, and until when, after a validation has
   released too much.
