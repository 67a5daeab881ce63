# MoistureLoop: a TLA+ model of the irrigation controller

MoistureLoop (`custom_components/moisture_loop`) is a Home Assistant
integration that waters soil zones in closed loop: a moisture sensor and an
actuator (switch or valve) per zone, one integration-wide slot so that only one
zone waters at a time, pulses with soak phases in between, and a safety design
in which water is never turned on without authority and never left on without
somebody who turns it off. This directory holds a model of that control logic,
the TLC runs that check it on small instances, and TLAPS proofs for every
instance. All paths below are relative to `src/custom_components/moisture_loop/`
unless they say otherwise; `SPECIFICATION.md` is `src/SPECIFICATION.md`.

How to run: `tlc -config AutoZone.cfg MCZoneControllers` (the cfg names the
run, `PROJECT.json` the module), `tlapm SlotManager_proof.tla`.

## 1. Inventory

| component | code | state | operations | interacts with |
|---|---|---|---|---|
| slot manager | `slot_manager.py` | owner, FIFO queue of requests with futures, live blockers, blockers not yet saved, grants switch, three barrier flags | request, cancel, release, requeue at the tail, add/remove blocker (with a Store write inside the lock), set barrier (with the lock, and a synchronous twin without it), open/close admission | controllers (requests, blockers), coordinator (barrier), Store |
| controller core | `state_machine.py` | none: `decide(TransitionInput) -> Decision` | one row of the table T1–T59 per event | called by the zone controller |
| zone controller | `zone_controller.py` | state, session, fault, timers, watchdog, observation, in-flight ON marker, shared OFF operation, slot task, pending manual start | apply a decision, session-owner task around ON and OFF calls, OFF attempts, slot offers, actuator and sensor callbacks, fallback scan, persist failures | core, slot manager, Store, Home Assistant services and states |
| final ON authority | `runtime.py` (`_evaluate_on_authority`) | an ON token | authorise before, recheck after each await of the ON call | controller, coordinator, slot manager |
| reconciliation coordinator | `reconciliation.py` | observed/applied generation and snapshot, flags, worker, reload decision, handle and task | observe, run the coalescing worker, publish, queue and run a reload, close publication | Core's config entry, slot barrier, runtime, Repairs |
| entry runtime | `runtime.py`, `__init__.py` | controllers, run identity, shutdown stage | setup, recovery of persisted sessions, application of a configuration snapshot, two-stage shutdown, tombstones | all of the above |
| Store | `storage.py` | safety records, blockers, run ids, clean-shutdown marker | verified writes, migration | runtime, controllers, slot manager |
| values | `models.py`, `const.py` | none | classification, validation, detectors, day splitting | all |
| repairs, flows, services, entities, diagnostics | `repairs.py`, `config_flow.py`, `services.py`, `sensor.py` ... | none of their own | call controller or runtime methods, or display fields | controllers |

What is hard here: everything runs on one asyncio loop, and every `await` is a
place where other coroutines run. A zone's lock is dropped for the ON and OFF
service calls; blockers are written to the Store with the slot lock held while
a lock-free setter changes the barrier; a configuration can change while an
older one is applied; a valve can be deaf, slow, vanish or be turned by somebody
else; a Store write can fail between two actions of one decision; the process
can die between any two writes; a zone can be given another valve while its old
one is open. What must hold:

* slot manager: one live request per zone, first come first served, no lost
  wake-up, no grant past a blocker, blockers fail closed around the Store;
* controllers: water is fenced, serialised, attended, accounted for, ends, and
  keeps the reason it was first ended for; AUTO pulses are covered by a fresh
  reading and by the watchdog of that reading;
* coordinator: only the live configuration is published and admitted, no ON
  under a reload, a failed reload is not repeated, every observation resolves;
* recovery and shutdown: flow that may be under way is in the file at every
  point where the process can die, it is fenced before the next run grants
  anything and accounted for after it, only a clean stop hands a soak over, a
  shutdown ends in its budget and a clean marker hides no water of ours;
* records: a valve keeps one record with its hazards, its open session and the
  day's total, however zones, registry rows and valves are exchanged.

The full list of hazards, each at its line and with the properties aimed at it,
is `hazards` in `PROJECT.json`.

## 2. Modules

| module | models | form |
|---|---|---|
| `SlotOps` | the methods of `SlotManager` as operators from slot state to slot state | pure |
| `WaterShare` | what zones may rely on when they share the water | abstract specification |
| `SlotManager` | the object under every order of calls, with its lock and the Store write in between; implements `WaterShare` | state machine |
| `StateMachine` | `decide()` and its helpers: `Decide(i, e)` returns state, session, fault, closed session, actions, row | pure |
| `ZoneControllers` | several `ZoneController`s with devices, sensors, timers and tasks around one slot manager; composes `SlotOps` and `StateMachine` | state machine |
| `Reconciliation` | `ConfigurationReconciliationCoordinator`, the listener and the part of setup around it | state machine |
| `SafetyStore` | the transactions of the Store as operators on its contents | pure |
| `Recovery` | `EntryRuntime`s over one Store file: setup, recovery, operation, shutdown, unload, crashes; composes `SlotOps`, `StateMachine` and `SafetyStore` | state machine |
| `SafetyRecords` | the application of a configuration snapshot: records, histories, retained controllers, acknowledgements | state machine |
| `SlotManager_proof`, `StateMachine_proof`, `ZoneControllers_proof`, `Reconciliation_proof`, `SafetyRecords_proof`, `SafetyWater_proof`, `Recovery_proof` | theorems and proofs | |
| `FoldLemmas` | what a loop over a sequence (`FoldLeft`) does, for the proofs | |
| `MCSlotManager`, `MCZoneControllers`, `MCReconciliation`, `MCRecovery`, `MCSafetyRecords` | instances for TLC | |

Definitions whose comment starts with "Slip" are wrong variants of the
definition after them (a dropped guard, a missing reset, a wake-up that is
forgotten). They are not used by the specifications; `mutants` in
`PROJECT.json` says which property each one must break.

### SlotManager

An action is a method as the loop runs it. Methods under
`async with self._lock` need `LockFree`; `AddBlocker` and `RemoveBlocker` keep
the lock across the write (`writing`), which ends in `WriteVerified` or
`WriteFailed`. `SetReconciliationStateNow` and `CloseAdmissionNow` run at any
time, as in the code. `recorded` is what the Store's last verified snapshot
holds. `AbandonRequest` is the cancellation of a task that awaits its grant.
`future` is that of the zone's newest request.

`WaterShare` says the same without queue, lock and Store: one holder, a set of
zones that wait, the hazards, and whether water is handed out at all; whenever
the last obstacle goes away, somebody who waits gets the water in that very
step. The refinement mapping is in `SlotManager`: the owner, the zones with a
live request, the live blockers, and admission (grants enabled and the barrier
clean). A blocker write that fails in the middle and a lock-free barrier change
must map to a step of the abstract resource too, which is what could go wrong.

### StateMachine

`Decide` has one definition per handler and the row names of the code. Left
out: `Emit` actions (event-bus notifications), identity strings, the estimation
marks of a session, and the secondary fault, which no guard reads. The startup
rows T48–T53 are driven by `Recovery`.

### ZoneControllers

A zone's `asyncio.Lock` is handed on in FIFO order; the tasks that want it are
the zone's `inbox`, and `Deliver` is all that the first of them does while it
holds the lock: the decision, its adoption and every action of it in order,
with the Store write of any one of them allowed to fail
(`HandlePersistFailure`). The steps without the lock are actions of their own:
`RunSession` (session-owner task), `OnReturns`, `OffReturns`, `OffWakes`,
`SlotOffered`, `TimerFires`, `WatchdogFires`. An ON goes through
`FinalGate` (lock), the call (no lock), `AfterOnCall` (no lock), `CommandCommit`
(lock), with the recheck of the code after each.

The world is `water` (what the valve does and by whose order), `view` (what
Home Assistant shows), `latent` (an ON that was sent and may still land) and
`flowed`, the time water really flowed, which the code cannot see and the
accounting properties compare with.

Assumptions and abstractions:

* The awaits inside the critical section are not separate steps; what can
  happen there to the same zone is only that events queue up, and they do.
* State callbacks run inside the state write, so the cached assessment is the
  live one.
* One local day; times are naturals in one unit.
* `FallbackScan` reads what the sensor reported last (`Stored`), which may be on
  its way in the lock queue, judges it by the clock and queues it as a report
  with its old time, changed or not: an IDLE zone may start from an aged reading,
  and a WATERING one arms a watchdog with a new generation for the same deadline.
  The scan's period of 15 minutes is left out: it may come at any moment,
  `Budget` times. An evaluation (button, service, midnight) is a command,
  `AutoEvaluate`; the runs send it in `termination` only, elsewhere the scan asks
  the same question.
* A device executes commands in order: an older ON does not land after a later
  OFF call returned, nor after the device reported itself off.
* Service calls are prompt unless the run lists them in `SlowCalls`; then they
  return at any time. **A call that never returns is not excluded by the code**:
  the ON call has no time limit of its own (`zone_controller.py:449`), and an
  OFF waits for it. No property claims otherwise.
* Maximal progress: the clock moves only when no zone has anything ready to
  run. `SlotOffered` goes before everything else because the future's waiter is
  already in the loop's ready queue.
* The coordinator appears as its barrier opening and closing; `Reconciliation`
  is about the rest. Configuration fingerprints and generations of the ON token
  are therefore one flag here.
* Attach, detach and the abort of an OFF operation by the shutdown budget are
  in `Recovery`, a renamed actuator is in `SafetyRecords`. Not modelled: a
  renamed sensor, the plausibility and response detectors.

### Reconciliation

The state is that of the coordinator: `observed`, `applied`, `flags`, the
worker's iteration, the reload decision with its `call_soon` handle and its
task, plus Core's `mapping`, the slot manager's copy of the flags (`barrier`)
and the stage of setup. Abstractions:

* A fingerprint is the configuration it hashes (the hash is injective).
* `runtime._apply_configuration_snapshot` is one awaited call that returns
  (`ApplierReturns`) or raises (`ApplierRaises`).
* Listener coroutines that have not run are counted in `calls`; joining a
  worker is finishing, because nothing but the Repairs mirror follows.
* The mapping may change without a notification, which is looser than Home
  Assistant's synchronous listener.
* The eager start of the reload task is part of `BeginReload`. Core answers a
  reload with true only after it unloaded this runtime, so `ReloadSucceeds`
  needs `stopping`.
* `ReloadFails` mirrors Repairs in its own step; the code does so one turn of
  the loop later (`call_soon`, `runtime.py:701`). The worker rests in between, so
  no state of the flags or of the ON gate is lost.
* A reload always suspends before it answers; one that raised at once would
  leave its finished task in the handle. No property depends on that case.

### SafetyStore and Recovery

`SafetyStore` holds the contents of the file (run ids, and per zone a record
with its history) and one operator per transaction of `storage.py`. A file that
fails any check of the loader (schema, revision, foreign ids) is "damaged".
What lives only in memory is not stored: a session's committed reason, its
freshness deadline, the watchdog's generation.

`Recovery` has `disk` beside the memory of the `live` runtime and of an
`orphan`, a runtime whose setup failed after it had attached controllers. Every
verified write is a step (`Save`), with a failed write that may or may not have
reached the file. A controller that holds its lock has the rest of its decision
in `todo`, and a crash (`Crash`) can fall between any two entries. Actions by
phase: `Start`, `FirstInit`, `Rebuild`, `BeginRun`, `Records`, `AttachZone`,
`RereadZone` for setup (recovery of WATERING and SOAKING is in `AttachZone`);
`Perform`, `Deliver`, `Offered`, `TimerFires`, `PerformOn`, `PerformOff` for a
controller; `StopBegins`, `SignalZone`, `AwaitZone`, `PersistZone`, `Mark`,
`ProcessEnds` for Stage 1; `UnloadBegins`, `UnloadZone`, `Unloaded`,
`DetachZone` for a reload. Stage 2, the detach, is the end of the process.

Abstractions: the sensor always has a fresh reading, only automatic sessions
run, an OFF operation is running, being reported, proven or failed, and the
configuration does not change. The flag that tells a first install from a lost
file is saved by Core some time after it was set (`FlushFlag`), so a crash can
lose it. What a coroutine does up to its next await is not interleaved with
anything (`Calm`).

### SafetyRecords

The state is the entry's subentries, the entity registry, the valves, the Store
(records and histories with what `StoreData` refuses), and the runtime: bound
and retained controllers, what each of them remembers, the live blockers and
the stage of an application. An application is four steps, between which
configuration, registry and valves change and the process may crash: `Begin`
(identities, displaced sessions), `Plan` (the new Store and its blockers, after
the OFF of the zones that change), `Synchronize` (controllers kept, retained,
replaced, attached), `Finish` (tombstones, final re-read). The operations around
it: `StartWater`, `EndWater`, `OffFails`, actuator callbacks (`Turned`,
`Flicker`), the actuator a form accepts (`Configure`), `Delete`, registry rows
that go, come back and are renamed, and the two acknowledgements (`Certify`,
`AcknowledgeFault`).

Abstractions and assumptions:

* A session is one pulse, an ON opens the valve, and a controller is what its
  decisions write to record and history.
* Every actuator is registered. The name of a row that is gone is not given to
  another row while an applied snapshot or a listener still goes by it
  (`Untaken`).
* The operator who certifies a removed valve is right.
* The form may save at any time: the OFF that it asks for before a
  reconfiguration is an input of `ZoneControllers`.
* `Begin` may run whenever the entry is not settled, which is looser than the
  coordinator's worker.
* `ghost` holds the pulses charged, for `BudgetFollows`, and whether a retained
  controller has written over another zone's runtime (see Observations).

## 3. Runs

| run | instance | states | what it shows |
|---|---|---|---|
| `slot_manager` | 3 zones, 2 blocker keys, symmetry | 20,596 | `OneLiveRequest`, `NoMissedGrant`, `FailClosed`, `GrantsOnlyUnfenced`, `NoOvertaking` under every order of calls, and `SharesWater`: every step is one of `WaterShare` |
| `auto_zone` | 1 zone, 2 sensor reports of any class, 1 fallback scan, 1 disturbance, 4 time units | 1.3 million | `FreshWhileWatering` (I30), `AccountingHonest`, `BudgetCoversFlow` (I9, I10) |
| `manual_zone` | 1 zone, 2 user commands of 5 kinds, 2 disturbances, slow ON call, 3 units | 1.9 million | `WaterAttended`, `ClosedMeansOff` (I17), `FirstReasonWins` (I22) |
| `two_zones` | 2 zones, 2 manual starts, 1 disturbance, 1 Store failure, barrier, slow ON call, symmetry, 2 units | 1.0 million | `FlowFenced`, `NoOnIntoKnownFlow` (I19, I21) |
| `termination` | 1 zone, 1 of 8 commands, 1 report, 1 disturbance, 4 units, `FairSpec` | 0.60 million | `TerminationCompletes`, `WaterStops` |
| `reconciliation` | 2 subentries, 2 settings, 5 generations, `FairSpec` | 0.79 million | `AdmissionIsSettled`, `NoOnDuringReload`, `PublishesLiveMapping`, `FailedReloadNotRepeated`, `RepairMirrorsFailure`, `DirtyResolves` |
| `runs_of_a_zone` | 1 zone, 1 report, 1 disturbance, `FairSpec`: 3 starts, 2 crashes, 3 units, or 2 starts, 1 stop or reload, 2 units, or 2 starts, 1 crash, 1 failed write | 0.87 million | `HazardOnDisk`, `AccountingDurable`, `SoakSurvivesOnlyCleanStop`; `CleanMeansOff`, `ShutdownEnds` |
| `store_failures` | 2 zones, 2 starts, 1 crash, 1 failed write, 1 lost file, 2 reports, 1 command, symmetry | 0.24 million | `FencedBeforeGrants`, `NoWaterAfterLoss` |
| `safety_records` | 2 zones, 2 valves, 3 names, 4 records, 8 input profiles, symmetry | 0.17 million | `OneRecordPerValve`, `WaterRecorded`, `OneFlow`, `BudgetFollows`, `SessionsWatched`, `KeysStay` |

Three runs end with a counterexample; each is about one sentence of a document
that the code does not keep (`findings` quotes it):

| run | what happens |
|---|---|
| `unfenced_soak` | `SerializedFlow` (I19) fails. Somebody opens the valve of a zone in SOAKING; the decision persists the session, then adds the blocker. The first write fails, the blocker is never raised, and a zone that has the slot is commanded ON into a flow that is seen. `NoOnIntoKnownFlow` is what does hold: it leaves out exactly this state (`UnsavedFence`). |
| `undercount` | `NeverUndercounted` fails. A run dies between the ON command and the persisted anchor; the next run cannot prove OFF, ends in FAULT and dies as well; the one after that gives the session a made-up reason, and the OFF it sees closes the pulse with nothing charged. `AccountingDurable` is what does hold: it leaves out exactly the sessions without a persisted command time. |
| `replaced_valve` | `HazardsKeepTheirValve` fails. The row of a zone's valve is gone and the zone is given another one: its record becomes the new valve's, and the new valve's OFF clears the old one's hazard. `KeysStay` is what does hold: as long as the record is that valve's. |

### Bounds

Durations are 1 unit and limits small multiples, so that each limit is reached:
`MaxDailyRuntime` 2 with pulses of 1 exhausts the day in two pulses,
`MaxSessionRuntime` and `MaxCycles` 3, `MinSessionInterval` 2, `SensorMaxAge` 2
(a report expires in the pulse after the one it started, and in the grace
period after the soak), `OffTotalAttempts` 2 (the code has 3: one first and one
last attempt are the cases that differ). `MaxTime` stops the clock,
`InboxBound` keeps the outside world from overfilling a zone's lock queue (a
zone's own tasks are not bounded), and `Budget` counts the inputs of each kind:
user commands, sensor reports, fallback scans, disturbances, Store failures.
The scan of `auto_zone` takes the place of a third report: in one behaviour it
starts a session from a reading that is a unit old (the actuator was away when
the reading came), in another it repeats the reading of a pulse at the instant it
expires; both were seen to be reached. Three reports with one scan (6.9 million
states) and two scans with a second place in the queue (6.6 million) take too long
for a routine run and hold as well. `Budgets` of
`Recovery` has the alternatives of a run, and counts the time and the starts,
stops and crashes as well. `Disturbances`
selects which of these can happen: others turn the valve, the actuator vanishes
or moves, it is deaf to OFF, the ON call raises, a write fails, the barrier
closes. `TimeIsUp` is the end of a bounded run, so any other state without a
successor is a reported deadlock. In the `Recovery` runs one crash already
meets every pair of adjacent writes; the second one is there for a crash during
recovery itself. The third start lets a session that has survived two crashes
be closed. `ShutdownBudget` is 1, shorter than what is left of the clock.
`SafetyRecords` crosses each kind of input with each other one in eight small
profiles; larger ones (up to three subentry changes with a registry change, two
turned valves and a crash, 0.1 to 1.9 million states) were explored while the
module was written, without a violation. `MaxRecords` is never reached in
them: a plan that needs an id when none is left (`full`) is not carried out. `MaxGeneration`
ends the changes Core makes; `Reconciliation` is checked without deadlock
detection because a stopped runtime and a quiet one really have nothing to do.

### Fairness

* Zones: time passes (`WF_vars(Tick)`) and the loop runs what is ready. The
  latter is weak fairness of `ZoneStep(z)` with its enabling condition written
  out: `AtRest(z)` infinitely often, or a step infinitely often. Nothing is
  assumed of the device, of sensors or of users. In `termination` calls are
  prompt or raise; a call that hangs is the limit named above.
  Both properties start from a time early enough for the OFF attempts to fit
  before the clock stops.
* Recovery: what the loop has ready runs (`SomethingReady`, `Proceeds`) and
  time passes. It is weak fairness with its enabling condition written out,
  which TLC evaluates far faster than ENABLED. Nothing makes the ON call
  return, an OFF be confirmed or given up, or a valve obey: `ShutdownEnds` has
  to hold without.
* Reconciliation: setup goes on, a scheduled coroutine runs, and an applier
  ends, because the OFF and Store calls in it have time limits. No fairness on
  Core: changes, notifications and reload answers may never come.

## 4. Proofs

Every theorem is for arbitrary sets of zones, keys, subentries and settings.

`SlotManager_proof` (assumes only `NoZone \notin Zones`). The invariants are
inductive together: `IInv == TypeOK /\ OneLiveRequest /\ NoMissedGrant /\
FailClosed`. The argument goes through one lemma per `SlotOps` operator; the
central one is that `TryGrant` returns a settled state from any state in which
requests are unique. `NoMissedGrant` needs `OneLiveRequest`, because removing
or granting a request changes the future of its zone and must not disturb
another position of the queue. Theorems: `TypeCorrect`, `RequestsUnique`,
`NoLostWakeUp`, `BlockersFailClosed`, and the action property
`GrantsAreUnfenced`, which follows from `FailClosed` (a key whose write is in
flight is live, so the lock-free setter cannot grant).

`FirstComeFirstServed == Spec => NoOvertaking` is the queue's order for any
number of zones. Per operator: `TryGrant` serves the first live request and
keeps the order of the rest, `Enqueue` and requeueing append, and the removal of
a request keeps the order of the others. `OneLiveRequest` is needed again, so
that "the request of y" names one position of the queue.

`SlotManagerSharesWater == Spec => SharesWater` (same module) is the refinement. The
abstract variables are functions of `slots`, and in every state that satisfies
`IInv` each action maps to a step or a stutter (`StepShares`). `TryGrantSettles`
is the heart: `TryGrant` on a state with unique requests is exactly `Settle`,
the abstract hand-over. `EnqueueWaits`, `CancelWaits`, `SameQueueWaits` and
`FenceSettles` say what each operator does to the set of waiting zones. `IInv`
is needed because with two live requests of a zone, removing one of them would
not take the zone out of the waiting set, and because the hand-over of the
abstract resource cannot be late (`NoMissedGrant`).

`Reconciliation_proof` (assumes `ReconciliationAssumption`: `None` and
`Unreadable` are different and no configurations). `AdmissionIsSettled` is not
inductive; the strengthening is `IInv == TypeOK /\ WorkerBehind /\
ClearIsSettled /\ ReloadCovered`: a worker is never ahead of the observation
and, if it is level with it, carries its snapshot; a clear barrier means that no
worker runs, publication is allowed and the last observation was published; a
reload that is queued or running keeps its decision pending, which is what the
ON gate reads, and a queued one is not the one that failed. Theorems: `TypeCorrect`, `AdmissionSettled`,
`GateExcludesReload`, `LatestWins`, `NoRetryOfFailedReload`.
`RepairsMirrorFailure == Spec => []RepairMirrorsFailure` strengthens it once
more (`Mirrored`): the Repair may differ from the flag only while a listener
call or a worker that will set it again is still under way, whatever the reload
task does.

`FoldLemmas`: the loops of `runtime.py` over zones and records, and the actions
of a decision one after the other, are `FoldLeft` over a sequence. `FoldExists`
gives the sequence of intermediate values of a fold, from the recursive function
it is defined with; `FoldPasses` says that the result is in the last of a
sequence of sets if each step leads from one of them to the next, and
`FoldStays` is the case of one set that every step keeps. Each loop of the model
is an operator with a lemma of its own that rests on these.

`StateMachine_proof` (assumes `ConfigAssumption`, what validation guarantees of
a configuration): `DecisionsJustified`. For any configuration, any input in
which WATERING and SOAKING own a session, and any event of a running zone (all
but the rows of startup), a decision has its types and is `Justified`. A session
ends only on OFF evidence or in SOAKING; the off-unconfirmed fence is lifted only
on OFF evidence; the slot is released only on that, in IDLE or SOAKING, or by a
Disable in FAULT; an ON is asked for, and WATERING entered, only with the slot
granted and no blocker known; WATERING is left only with OFF evidence or with
the OFF operation's answer, and if that is a failure the zone goes to FAULT and
raises the fence; a FAULT with an open session is left only on OFF evidence, by
a Disable or by `clear_fault`. There is a lemma per handler, and the theorem
splits on state and event as `decide()` does. `ReasonsCommitted`, with the same
split, is about the reason of a session: where one is committed, a decision keeps
it, ends the session with it, or replaces it by an actuator fault (`Follow`); and a
session that a decision leaves open without water gets its fence, or was open
like that before (`Fence`). The two need each other: an IDLE zone with an open
session and no blocker could start over it, and lose its reason (`Upright`).
`DecisionsAttend` is about its end: a decision that leaves a zone WATERING asks
for OFF, or arms the timer of the phase it leaves the zone in (waiting for the
acknowledgement, a pulse, a manual run), or changes neither reason nor phase, and
then the event was not the one that ends this phase (`Attends`).

`ZoneControllers_proof` (assumes `ControllerAssumption`, `InputAssumption`: the
commands are requests of a running zone and readings have their types;
`ConfigAssumption` and `NoZoneAssumption`). Zones, durations, clock, budget and
disturbances are arbitrary. `FlowFenced` and `ClosedMeansOff` are about valve,
slot and session; what keeps them true is what the tasks of a zone still have in
their hands. The invariant is `Good`: the types, and every zone `Safe`:

* `Fenced`: while our water flows, or an ON that was sent may still land, the
  zone has its session, owns the slot or has its fence, and is WATERING or
  was given up (a failed OFF, which is fenced, or a failed write);
* `Offered`: a slot task that still waits while its zone owns the slot has been
  granted it, so it will be offered;
* `MessagesAwaited`: at most one message of the zone's own tasks is in its lock
  queue, and the task that sent it still waits for it. Without this a second
  OFF report, or a commit of an ON that was compensated, would be read twice;
* `TaskKnown`: where the ON task and the OFF attempts are agrees with the rest:
  between an ON call and its commit there is a session, a marker and no OFF
  operation, and no ON is on its way once an OFF call has returned;
* `Evident`: while water flows, the lock queue holds no OFF evidence, except
  changes seen before the ON that is now under way. Those come before the
  command's own message, and the command is still known when they are read, so
  the marker or the OFF operation keeps them from closing the session.

Each part was checked by TLC on instances of the runs before it was proved. The
argument: one lemma per slot operator (what it gives to the zone and leaves to
the others), one per action of a decision, then all actions of a decision, the
failed write included, by `FoldPasses`; `DecisionsJustified` says which actions
there can be; one lemma per step without a decision; one per message that the
lock holder reads; one per action of `Next`. Theorems: `TypeCorrect`,
`WaterIsFenced`, `ClosedIsOff`, `OneAtATime`, `FirstReason`, `Attendance`.

`OneAtATime` is that two zones never water together (`OneZoneWaters`, the state
form of what `NoOnIntoKnownFlow` says of our own water). By `Fenced` a zone whose water flows holds the slot or a
blocker; the lemmas from the ON authority up to `Deliver` say that an ON starts
only while its own zone has the slot and there is no blocker at all
(`StepStarts`); so no zone's flow starts while another one's lasts.

`FirstReason` proves `FirstReasonWins` (I22). Beside `Good` the invariant has
`HeldAll`: a session that a zone left open has its off-unconfirmed blocker (or,
where a write failed, the zone stands in FAULT), and a zone in SOAKING has no
reason but interference. `ReasonsCommitted` speaks of one decision; a step has
more: an ON that came too late and is withdrawn, the compensation of a failed
write, a blocker that OFF evidence clears before the decision. `Right` says what each of these parts does to
the reason, `Stays` and `Abides` what the parts between them leave alone, and the
lemmas compose them for each message and each step (`Lawful`); the other zones
keep what they have because a step takes no blocker from them (`Moved`).

`Attendance` proves `WaterAttended`, on top of `DecisionsAttend`. "The timer is
armed" is not inductive: a timer that fires leaves its message, a commit that
meets OFF withdraws the ON, and a task that waits for the lock acts only when its
own message is read. The invariant has, beside `Good`, `Cared`: in WATERING, OFF
is asked for or under way, or there is no reason yet and the phase's timer or its
event in the lock queue is still to come (`Attended`); and a session task that
waits for its turn has its message in the queue (`Due`). `Minds` is what a step
may do to a zone without taking this away, `Heeded` the same while a message is
being decided upon. At rest the queue is empty and only the timer is left.

The theorems have one hypothesis, `FaultsStand`: where a Store write may fail,
nobody disables a zone or clears its fault. With Disable the property is false:
after a failed write the valve can be open in FAULT, and Disable releases the
slot (section 5). `clear_fault` (T43) then leads to IDLE with the session open and an ON
that may still land, a state the invariant does not describe; TLC found no
violation from it in one zone (three commands, one disturbance, one failed write,
0.8 million states), and none is claimed either way. Where no write fails, all
commands are covered.

`SafetyRecords_proof` (assumes `RecordsAssumption`: at least one record id,
`ZoneOrder` a sequence, `None` no id, no name, no number and no mapping of a zone). The invariant is `Inv`: typed
configuration, registry and valves, and a world (Store and runtime together)
that is `Sound`: typed parts, the history of every record in the Store, no two
records for one valve, and controllers only for records that exist.
`OneRecordPerValve` alone is not inductive, because a plan takes over the record
that a history, a retained controller or a snapshot points to. The argument has
one lemma per operator (the plan's `Conflict`, `TakeRecord`, `Activate`,
`Minted`, `Tombstoned`; the runtime's `Attach`, `Rebind`, `BindZone`, `Watch`,
`Reread`, `Noticed`, `CloseSession`), one per loop over them and one per
action. The step that carries it is `PlanZoneSound`: a zone gets the record that
has its valve, and only if there is none a record changes its valve or is
minted. Theorems: `TypeCorrect`, `CanonicalRecords`.

`SafetyWater_proof`, first part: `KeysNeedEvidence == Spec => KeysStay`. The applier looks at
valves by the entity ids of its snapshot, and drops the keys of the record that
a zone's controller has; nothing in one step says that these are about the same
valve. `NamesHold`, inductive together with `Inv`, says so for the whole
application: no two rows have one name; while an application runs no other row
has a name of its snapshot; once the plan is saved, a record in use has its
zone's valve; and at the last look a zone's controller has that zone's record.
It was checked on the `safety_records` instance before the proof. It rests on
`Untaken`, what is assumed of the registry. The argument follows the relation
`Follows` (no record gets another valve, only the records in a set J lose keys)
through every operator and loop; J is empty for a pulse that starts, the
listeners of a valve that is seen OFF, and the records with evidence
(`ClearedIn`) for the steps of an application. Only the plan gives a record
another valve, and then to a zone in use (`PlanFollows`).

`SafetyWater_proof`, second part: `WaterIsRecorded`, `OneFlowAtOnce`, `SessionsAreWatched`. None
of the three is inductive. A pulse starts when the entry is clean, no blocker is
known and every watched session is over or under a fault; that no water flows
then depends on what earlier applications told the slot manager and whom they
made watch. The invariant is `Water`: `Inv`, and the world is `Told` of the
water, that is of the set of valves that the integration lets flow:

* each of them has a record with an open session; an open session is not
  certified, not retired, has its mapping and its valve, and under a fault it has
  the OFF-unconfirmed key; an ACTIVE record is confirmed and not certified; a
  history's session belongs to a record with that history (`Stored`). Without
  the last, ending one record's session could end another's;
* the slot manager never holds an OFF-unconfirmed key that the Store has not,
  and, once the blockers of a plan are published (`Published`: until the entry
  is dirty again), it holds each of the Store's;
* then also, an open session whose actuator is gone while its valve gives water
  is still watched, or blocks as not proven OFF. This is the clause that the
  applications are about: a row that is removed or comes back, a refresh that
  judges the record again and a controller that is let go each touch one half;
* once every record was looked at (`Settling`), each open session whose actuator
  is known has a controller.

All parts were checked on the `safety_records` instance before the proof. Each
operator and loop of a plan and of the runtime is shown to keep `Watered(E, O)`,
the sound worlds told of the water in O. O is fixed while an operator runs, and
the operators that end a session need a valve that is not in it: a valve that is
seen OFF is not (`Dry`). `PlanTold` says that a plan keeps the sessions and fences
those whose actuator is gone (`Fenced`), so that publishing its keys makes the
world told (`PublishTold`); `AllWatched` follows the loop that watches the records
one after the other (`WatchedUpTo`); `NothingFlows` draws the conclusion at a start.

`Recovery_proof` (assumes `RecoveryAssumption`: readings are integers and there
is one, the commands are the four of a user, the budget of a run counts;
`ConfigAssumption`, `NoZoneAssumption`): `TypeCorrect` and `HazardIsOnDisk`, for
any number of zones and any number of starts, stops, reloads, crashes, failed
writes and disturbances. `HazardOnDisk` is far from inductive: it says what must
be in the file, and what keeps it there is what the Store in memory, the
controllers and their unfinished coroutines will write next. The invariant is
`IInv`: the types of both runtimes, `Fit`, and, while history is `Whole` (no
setup failed with controllers attached, no file was lost), `Guarded` for each
zone:

* `Course` (in `Fit`): where the runtime is in setup, operation, shutdown or
  unload says whether it has a Store, which controllers are attached, whether
  grants are closed, and that none is eligible once a stop began;
* while water of ours may flow, the session in the file has an open pulse, so
  has the one in memory, and so has the zone's controller if it is attached,
  and nothing that this controller still has to read or to do is OFF evidence
  (`Wet`). OFF evidence that is queued while an ON may still land would let the
  next decision close the pulse in the file;
* a controller whose pulse is open in memory but not in the Store still has the
  write before it, or its last write failed (`Unsaved`);
* where the runtime believes its Store, that is no write of the zone failed
  (`Believes`), an open pulse in the Store is one in the file. After a failed
  write the file may have either, which is why the ON that would follow is
  dropped with the rest of the decision (`Onward`);
* no ON may land from a run before, once setup began.

The parts were checked on instances of the runs before the proof. It goes from
decisions (`Careful`: an open pulse stays open unless OFF was seen, a new one is
persisted first, `Sound` states have their sessions; one lemma per handler of
`decide()`, on top of `StateMachine_proof`) to one controller (`Follows`: what it
keeps through everything that it does on its own), to one runtime (`Goes`,
`Saved`: a step of one zone, a write for one zone) and to the actions of `Next`,
with a lemma each.

Only model-checked:

* all liveness: fairness and ENABLED are out of the prover's reach;
* what a RECURSIVE operator or another induction over data computes. There is
  none in the modules above: a fold is reasoned about by the values it keeps,
  not by what it computes;
* `BudgetFollows` of `SafetyRecords`, which counts charged pulses over merged
  histories;
* the other properties of `ZoneControllers`: `FreshWhileWatering`,
  `AccountingHonest` and `BudgetCoversFlow` relate clock, deadlines and charged
  time, and `NoOnIntoKnownFlow` also speaks of water that somebody else turned
  on (`OneAtATime` proves the part of it that is about our own);
* of `Recovery`, `AccountingDurable`, which needs what a charge was before each
  crash, `CleanMeansOff`, and the action properties.

## 5. Observations

What the models reached and no property claims, because no run in this
directory is about it. Each is a state the code gets into as well.

Controllers and slot:

* `clear_fault` (T43, `state_machine.py:1396`) goes to IDLE with a session still
  open when the OFF report is queued behind it, and for a disabled zone
  (`SPECIFICATION.md:446`).
* A queued manual start that is refused when the slot is offered keeps the slot
  (`state_machine.py:425`; `slot_manager.py:13`).
* Disable and Enable while waiting: the old slot task waits for ever on its
  cancelled request, and later starts are never queued (`slot_manager.py:258`,
  `zone_controller.py:1736`).
* The OFF operation of a finished session can complete the next manual run,
  which had no water (`zone_controller.py:1399`, `:1403`).
* Disable after a failed Store write releases the slot with the valve open
  (`state_machine.py:1346`, `zone_controller.py:1554`). The commands of
  `two_zones` are therefore manual starts, and `WaterIsFenced` assumes
  `FaultsStand`.

Coordinator:

* The applier of a superseded snapshot that raises ends the worker: the newer
  configuration waits for the next notification (`reconciliation.py:372`,
  `:331`; `SPECIFICATION.md:1472`).
* A reload queued while another one runs gets no handle (`reconciliation.py:438`);
  if the running one fails with another fingerprint (`:500`), the decision stays
  pending, the barrier stays dirty and no failure is shown until the next
  notification.

Recovery and shutdown:

* A restored fault whose OFF came before anybody listened keeps its
  off-unconfirmed blocker until the valve moves again (`runtime.py:2430`,
  `:2454`; `SPECIFICATION.md:416`).
* A setup that fails after it attached controllers leaves them listening; they
  and the next setup overwrite each other's file (`runtime.py:151-161`;
  `SPECIFICATION.md:1324`). Water can then flow with nothing about it in the
  file, and a crash makes that permanent. `HazardOnDisk` and `AccountingDurable`
  therefore exempt what follows such a setup for good (`NoOrphan`, with the
  history in `ghost.orphaned`).
* Startup calls water external when the zone's own open session is restored
  with it (`runtime.py:1748`, against the comment at `:955-963`). With a crash
  between the persisted fault and its blocker, and the valve ON at the clean
  marker, a run is marked clean with such a flow: `CleanMeansOff` therefore
  allows a recorded flow with the wrong owner.
* A disabled or faulted zone with an open session fails an assertion when the
  session is closed after a restart (`_close_open_accounting`).

Records:

* The certificate for a removed valve is never cleared: it counts again when the
  valve comes back and its row vanishes a second time (`runtime.py:1545`;
  `SPECIFICATION.md:38`).
* A configured valve whose retired record was certified raises `ValueError`
  (`models.py:1907-1911`), and every application fails from then on.
* So do, each for a way in which two records come to share a history and then
  part: a second zone that takes over a valve whose first zone has got another
  one (`SPECIFICATION.md:1632`); the merge of a history that is still shared; a
  record that returns to a history it had before; and a second history minted
  by the plan after a conflict.
* A valve replaced with its session still open can leave a history whose session
  belongs to no record, and attaching a record that shares its history with
  another one's open session raises.
* A retained record whose row was missing keeps the status MISSING when the row
  returns; its session is then never watched and its fault cannot be
  acknowledged. `SessionsWatched` is about the identified ones.
* After a restart a retained controller does not know of external flow, so the
  OFF it sees leaves the external key in place.
* A fault that is acknowledged through a retained controller writes that
  controller's runtime over the history its zone goes on with
  (against the comment at `runtime.py:2904-2907`). `BudgetFollows` exempts
  what follows.
* `_refresh_tombstone_lifecycles` may add the key of an unproven OFF to the
  Store without telling the slot manager until the next application.

## 6. Not modelled

Store schema, JSON forms and migrations, the validation of forms, services,
entities and diagnostics: formatting, serialisation and dispatch to operations
that are modelled. Which Repair issues are shown, except the reconciliation
failure. The response and plausibility detectors and day splitting (there is
one local day): pure functions over sample windows, still to do. A renamed
sensor. The development scripts are not part of the running program.

## 7. Plan

1. Proofs: the rest of `NoOnIntoKnownFlow` (water somebody else turned on) on
   top of `ZoneControllers_proof`, for which `Good` already has the types and the
   messages; bounds that `Decide` keeps (runtime only grows, a session's
   deadlines lie ahead) and from them `AccountingHonest`; `FencedBeforeGrants` on
   top of `Recovery_proof`, which needs the blockers beside the pulses.
2. An AUTO run of two zones with a longer clock, for waiting in SOAKING with a
   report that expires (`state_machine.py:1099`).
3. The pure algorithms of `models.py` (day splitting, detectors) against
   reference definitions.
