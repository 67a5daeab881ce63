------------------------------ MODULE Recovery ------------------------------
(***************************************************************************)
(* The life of an EntryRuntime (runtime.py) over one SafetyStore file:     *)
(* setup with its classification of the file, run ids and reconciliation,  *)
(* operation, the Stage-1 shutdown, the unload for a reload, failed setups *)
(* and crashes at any point.                                               *)
(*                                                                         *)
(* Every verified Store write is a step of its own, so that a crash can    *)
(* fall between any two writes of one decision: a controller that holds    *)
(* its lock has the rest of its decision in "todo".  What ZoneControllers  *)
(* has in detail is coarse here: the sensor always has a fresh reading,    *)
(* only automatic sessions run, and an OFF operation is running, proven or *)
(* failed.                                                                 *)
(***************************************************************************)
EXTENDS SlotOps, SafetyStore, SequencesExt

CONSTANTS
    ShutdownBudget,     \* SHUTDOWN_OFF_BUDGET_S
    Readings,           \* what the sensor may read
    Commands,           \* the events a user may send
    Disturbances,       \* what may happen to the actuators
    Budgets             \* bound: how often each kind of input may happen, and
                        \* how far the clock goes: one of these

ASSUME RecoveryAssumption ==
    /\ ShutdownBudget \in Nat
    /\ Readings \subseteq Int /\ Readings # {}
    /\ Commands \subseteq [kind : {"EnableRequested", "DisableRequested", "StopRequested",
                                  "ClearFaultRequested"}]
    /\ \A budget \in Budgets : \A kind \in DOMAIN budget : budget[kind] \in Nat

VARIABLES
    now,        \* the clock
    disk,       \* the Store's file
    flag,       \* runtime_store_initialized: in memory, and as saved by Core
    proc,       \* the live EntryRuntime, and one whose setup failed
    runs,       \* how many run ids were handed out
    water,      \* what each valve does: closed, or open by whose order
    seen,       \* whether Home Assistant sees the valve
    latent,     \* an ON command that was sent and may still take effect
    flowed,     \* history: how long water flowed by our order
    ghost,      \* history: how the last run ended, what was lost
    left        \* what is left of the budget

vars == <<now, disk, flag, proc, runs, water, seen, latent, flowed, ghost, left>>
world == <<water, seen, latent, flowed>>

-----------------------------------------------------------------------------
(* The actuator, a controller and a runtime. *)

Assess(w, s) ==
    [available |-> s, provenOff |-> s /\ w = "closed", observedOn |-> s /\ w # "closed"]
Assessment(z) == Assess(water[z], seen[z])

Detached ==
    [attached |-> FALSE, state |-> "DISABLED", enabled |-> FALSE, session |-> NoSession,
     run |-> NoRun, fault |-> NoFault, externalOn |-> FALSE, daily |-> 0,
     lastEnd |-> NoTime,
     eligible |-> TRUE, persistFailed |-> FALSE,
     timers |-> {},                 \* <<kind, deadline>>
     waiting |-> FALSE,             \* the slot task awaits its grant
     onRequested |-> FALSE, offRequested |-> FALSE,
     on |-> "none",                 \* the ON command: none, call, commit
     dispatchedAt |-> NoTime, ackAt |-> NoTime,
     off |-> "none",                \* the OFF operation
     todo |-> << >>,                \* the rest of the decision being applied
     inbox |-> << >>]               \* tasks that wait for the lock

Down ==
    [phase |-> "down", run |-> NoRun, mem |-> Absent,
     previous |-> NoRun, previousClean |-> FALSE,
     zone |-> [z \in Zones |-> Detached], slots |-> InitialSlots,
     todo |-> {},                   \* zones the current loop has not reached
     stopping |-> FALSE, deadline |-> NoTime,
     watering |-> {}, preserved |-> {}, failures |-> FALSE]

Instances == {"live", "orphan"}
Live == proc["live"]

OffActive(c) == c.off \in {"running", "reporting"}
LockFree(c) == c.attached /\ c.todo = << >>
Idle(c) == c.todo = << >> /\ c.inbox = << >>

(* The lock is fair: who asks now gets it only when no one waits. *)
Free(c) == c.attached /\ Idle(c)

SetZone(i, z, c) == proc' = [proc EXCEPT ![i].zone[z] = c]
SetLive(p) == proc' = [proc EXCEPT !["live"] = p]

Spend(kind) == left[kind] > 0 /\ left' = [left EXCEPT ![kind] = @ - 1]

(* _save_and_verify_locked: the write is read back, or it counts as failed *)
(* although the file may have changed.                                     *)
Save(i, new, adopted, failed) ==
    \/ /\ disk' = Stored(new)
       /\ proc' = [proc EXCEPT ![i] = [adopted EXCEPT !.mem = new]]
       /\ UNCHANGED left
    \/ /\ Spend("failure")
       /\ disk' \in {disk, Stored(new)}
       /\ proc' = failed

-----------------------------------------------------------------------------
(* Decisions. *)

Event(kind) == [kind |-> kind]
At(kind, at) == [kind |-> kind, at |-> at]
Startup(finding) == [kind |-> "StartupPersistedWatering", finding |-> finding]
StartupSoaking(trusted) ==
    [kind |-> "StartupPersistedSoaking", trusted |-> trusted, unsafeFault |-> NoFault]

(* What follows an action list within the same coroutine. *)
Dispatch(e)   == [act |-> "Dispatch", event |-> e]
EndOff(r)     == [act |-> "EndOff", result |-> r]
EndOn         == [act |-> "EndOn"]
EndOffer      == [act |-> "EndOffer"]
BeginOff      == [act |-> "BeginOff"]
ShutdownOff   == [act |-> "ShutdownOff"]
Return        == [act |-> "Return"]
ClearKey      == [act |-> "ClearKey"]
Continuations ==
    {"Dispatch", "EndOff", "EndOn", "EndOffer", "BeginOff", "ShutdownOff", "Return"}

(* A coroutine that waits for the lock to dispatch e, then goes on. *)
Call(e, rest) == [kind |-> "Call", event |-> e, rest |-> rest]
Send(c, m) == [c EXCEPT !.inbox = Append(@, m)]

(* The runtime awaits one of its own dispatches. *)
Awaits(c) ==
    \/ \E n \in DOMAIN c.todo : c.todo[n] = Return
    \/ \E n \in DOMAIN c.inbox : c.inbox[n].kind = "Call" /\ Return \in Range(c.inbox[n].rest)
NoAwait(p) == \A z \in Zones : ~Awaits(p.zone[z])

Reading(v) == [class |-> "VALID", value |-> v, at |-> now]

Input(p, z, c, v) ==
    [now |-> now, state |-> c.state, enabled |-> c.enabled, session |-> c.session,
     fault |-> c.fault, obs |-> Reading(v), daily |-> c.daily, lastEnd |-> c.lastEnd,
     actuator |-> Assessment(z), slotGranted |-> p.slots.owner = z,
     blockersEmpty |-> p.slots.blockers = {},
     armedWatchdog |-> Token(0, NoTime), externalOn |-> c.externalOn]

Cancel(timers, kinds) == {t \in timers : t[1] \notin kinds}

KeptTimers(c, d) ==
    {t \in c.timers :
       /\ t[1] \in {"PULSE_END", "ON_CONFIRM_TIMEOUT"} =>
            ~(c.state = "WATERING" /\ d.state # "WATERING")
       /\ t[1] \in {"SOAK_END", "GRACE"} => ~(c.state = "SOAKING" /\ d.state # "SOAKING")
       /\ t[1] = "ON_CONFIRM_TIMEOUT" =>
            ~(d.session # NoSession /\ d.session.confirmed # NoTime)}

RuntimeOf(s) == IF s = NoSession THEN 0 ELSE s.runtime

OwnerRun(p, c, d) ==
    CASE d.session = NoSession -> NoRun
      [] d.session # NoSession /\ (c.session = NoSession \/ d.row = "T50") -> p.run
      [] OTHER -> c.run

Adopt(p, c, d, rest) ==
    LET grown == IF d.session # NoSession THEN d.session ELSE d.closed
        delta == RuntimeOf(grown) - RuntimeOf(c.session)
        ended == d.closed # NoSession
    IN  [c EXCEPT
           !.state = d.state, !.session = d.session, !.fault = d.fault,
           !.run = OwnerRun(p, c, d),
           !.daily = IF delta > 0 THEN @ + delta ELSE @,
           !.lastEnd = IF ~ended THEN @
                       ELSE IF d.closed.offAt # NoTime THEN d.closed.offAt ELSE now,
           !.timers = KeptTimers(c, d),
           !.todo = d.actions \o rest]

DecideAndApply(p, z, c, v, e, rest) == Adopt(p, c, Decide(Input(p, z, c, v), e), rest)

(* Where the coroutine goes on when the rest of its action list is         *)
(* dropped; in its todo the list comes first.                              *)
GoesOn(todo, n) ==
    todo[n].act \in Continuations /\ \A m \in 1 .. n - 1 : todo[m].act \notin Continuations
Onward(todo) ==
    IF \E n \in DOMAIN todo : GoesOn(todo, n)
    THEN SubSeq(todo, CHOOSE n \in DOMAIN todo : GoesOn(todo, n), Len(todo)) ELSE << >>

HandlePersistFailure(z, c) ==
    [c EXCEPT
       !.persistFailed = TRUE, !.onRequested = FALSE,
       !.state = "FAULT", !.fault = "RESTORED_FROM_UNSAFE_STATE",
       !.session = IF @ # NoSession /\ @.pending = NoReason
                   THEN [@ EXCEPT !.pending = "ACTUATOR_FAULT"] ELSE @,
       !.offRequested = @ \/ ~Assessment(z).provenOff,
       !.todo = Onward(@)]

-----------------------------------------------------------------------------
(* The ON and OFF commands. *)

StartOff(z, c) ==
    IF \/ OffActive(c) \/ c.off = "failed"
       \/ c.off = "proven" /\ Assessment(z).provenOff
    THEN c ELSE [c EXCEPT !.off = "running"]

ConfigurationAuthority(p, c) ==
    /\ AdmissionOpen(p.slots)
    /\ c.eligible /\ ~c.persistFailed
    /\ c.session # NoSession /\ c.session.intent # NoTime

OnAuthority(p, z, c) ==
    /\ ConfigurationAuthority(p, c)
    /\ p.slots.owner = z /\ p.slots.blockers = {}
    /\ c.state = "WATERING" /\ c.enabled /\ c.run = p.run
    /\ c.session.pending = NoReason /\ ~c.offRequested /\ ~OffActive(c)
    /\ c.fault = NoFault
    /\ c.session.cycle \in 1 .. MaxCycles /\ SessionFits(c.session)
    /\ c.daily + PulseDuration <= MaxDailyRuntime

RefusalEvent(p, z, c) ==
    IF ConfigurationAuthority(p, c) /\ ~Assessment(z).provenOff
    THEN Event(IF Assessment(z).available THEN "OnConfirmTimeout"
               ELSE "ActuatorBecameUnavailable")
    ELSE Event("ConfigChangedPrepare")

Quiesce(c) == [c EXCEPT !.eligible = FALSE, !.timers = {}]

RecordPossibleCommand(c) ==
    IF c.session # NoSession /\ c.session.commanded = NoTime
    THEN [c EXCEPT !.session.commanded = c.dispatchedAt] ELSE c

(* Commit the terminal reason without persisting, then begin OFF. *)
CommitTerminal(z, c, d) ==
    StartOff(z, [c EXCEPT !.state = d.state, !.fault = d.fault, !.on = "none",
                          !.session = IF d.session # NoSession THEN d.session ELSE @,
                          !.offRequested = FALSE])

Compensate(p, z, c, v) ==
    IF c.session = NoSession
    THEN StartOff(z, [c EXCEPT !.on = "none", !.offRequested = FALSE])
    ELSE CommitTerminal(z, c,
           Decide(Input(p, z, c, v),
                  Event(IF ConfigurationAuthority(p, c) THEN "OnConfirmTimeout"
                        ELSE "ConfigChangedPrepare")))

AnyReading == CHOOSE v \in Readings : TRUE

(* One OFF for possible flow of ours; an ON under way converges first. *)
BeginShutdownOff(p, z, c) ==
    LET rec == p.mem.zones[z] IN
    IF c.on = "none" /\ (rec.flowOwner = "INTEGRATION" \/ OffUnconfirmed \in rec.blockers)
    THEN StartOff(z, c) ELSE c

(* The session-owner task: the final gate and the ON call, or OFF. *)
PerformOn(i, z) ==
    LET p == proc[i]
        c == [p.zone[z] EXCEPT !.onRequested = FALSE]
        authorized == OnAuthority(p, z, c) /\ Assessment(z).provenOff
    IN
    /\ Free(c) /\ p.zone[z].onRequested /\ c.on = "none"
    /\ SetZone(i, z,
         IF c.session = NoSession \/ c.state # "WATERING" \/ c.session.pending # NoReason
         THEN c
         ELSE IF authorized
         THEN [c EXCEPT !.on = "call", !.dispatchedAt = now, !.ackAt = NoTime]
         ELSE DecideAndApply(p, z, IF c.eligible /\ ~c.persistFailed THEN c ELSE Quiesce(c),
                             AnyReading, RefusalEvent(p, z, c), << >>))
    /\ latent' = [latent EXCEPT ![z] = @ \/ proc'[i].zone[z].on = "call"]
    /\ UNCHANGED <<now, disk, flag, runs, water, seen, flowed, ghost, left>>

PerformOff(i, z) ==
    LET c == proc[i].zone[z] IN
    /\ c.attached /\ c.offRequested /\ ~c.onRequested /\ c.on = "none"
    /\ SetZone(i, z, StartOff(z, [c EXCEPT !.offRequested = FALSE]))
    /\ UNCHANGED <<now, disk, flag, runs, ghost, left>> /\ UNCHANGED world

(* The ON call returned: the command is anchored in memory, rechecked and  *)
(* saved; EndOn takes the acknowledgement that arrived meanwhile.          *)
OnReturns(i, z) ==
    LET p == proc[i]
        c == RecordPossibleCommand(p.zone[z])
        saved == [c EXCEPT !.on = "commit", !.todo = <<EndOn>>]
    IN
    /\ Free(c) /\ c.on = "call"
    /\ IF OnAuthority(p, z, c)
       THEN Save(i, UpdateControllerRuntime(p.mem, z, c),
                 [p EXCEPT !.zone[z] = saved],
                 [proc EXCEPT ![i].zone[z] =
                    Compensate(p, z, HandlePersistFailure(z, c), AnyReading)])
       ELSE /\ SetZone(i, z, Compensate(p, z, c, AnyReading))
            /\ UNCHANGED <<disk, left>>
    /\ UNCHANGED <<now, flag, runs, ghost>> /\ UNCHANGED world

OffFailed == Call(Event("OffNotConfirmed"), <<EndOff("failed")>>)

(* The OFF operation finds its proof, or has made all its attempts.  OFF   *)
(* reaches the valve after the ON that went before it.                     *)
OffEnds(i, z) ==
    LET c == proc[i].zone[z]
        mayFail == ~seen[z] \/ "deaf" \in Disturbances
    IN
    /\ c.off = "running"
    /\ IF Assessment(z).provenOff THEN ~latent[z] ELSE mayFail
    /\ SetZone(i, z, [c EXCEPT
         !.off = "reporting",
         !.inbox = Append(@, IF Assessment(z).provenOff
                             THEN Call(At("OffConfirmed", now), <<EndOff("proven")>>)
                             ELSE OffFailed)])
    /\ UNCHANGED <<now, disk, flag, runs, ghost, left>> /\ UNCHANGED world

-----------------------------------------------------------------------------
(* The lock holder goes on. *)

Rest(c) == [c EXCEPT !.todo = Tail(@)]

EnsureSlotRequest(p, z, c) ==
    IF ~c.eligible \/ c.waiting THEN [p EXCEPT !.zone[z] = c]
    ELSE [p EXCEPT !.zone[z] = [c EXCEPT !.waiting = TRUE], !.slots = Request(@, z)]

(* What an action does to the runtime p when it awaits nothing. *)
ApplyAction(p, z, c, a) ==
    CASE a.act = "TurnOn" ->
           [p EXCEPT !.zone[z] = [c EXCEPT !.onRequested = TRUE, !.off = "none"]]
      [] a.act = "ExecuteOff" -> [p EXCEPT !.zone[z] = [c EXCEPT !.offRequested = TRUE]]
      [] a.act = "ArmTimer" ->
           [p EXCEPT !.zone[z] =
              [c EXCEPT !.timers = Cancel(@, {a.timer}) \cup {<<a.timer, a.at>>}]]
      [] a.act = "RequestSlot" -> EnsureSlotRequest(p, z, c)
      [] a.act = "ReleaseSlot" ->
           [p EXCEPT !.zone[z] = c, !.slots = CancelRequest(Release(@, z), z)]
      [] a.act = "SetExternalOn" -> [p EXCEPT !.zone[z] = [c EXCEPT !.externalOn = a.on]]
      [] a.act \in {"ArmWatchdog", "ScheduleEvaluation", "Return"} -> [p EXCEPT !.zone[z] = c]
      [] a.act = "EndOff" ->
           [p EXCEPT !.zone[z] = [c EXCEPT !.off = IF OffActive(c) THEN a.result ELSE @]]
      [] a.act = "EndOffer" -> [p EXCEPT !.zone[z] = [c EXCEPT !.waiting = FALSE]]
      [] a.act = "BeginOff" ->
           [p EXCEPT !.zone[z] = IF c.on = "none" THEN StartOff(z, c) ELSE c]
      [] a.act = "ShutdownOff" -> [p EXCEPT !.zone[z] = BeginShutdownOff(p, z, c)]
      [] a.act = "EndOn" ->
           [p EXCEPT !.zone[z] =
              IF ~OnAuthority(p, z, c) THEN Compensate(p, z, c, AnyReading)
              ELSE IF c.ackAt # NoTime
              THEN DecideAndApply(p, z, [c EXCEPT !.ackAt = NoTime], AnyReading,
                                  At("OnConfirmed", c.ackAt), <<EndOn>> \o c.todo)
              ELSE [c EXCEPT !.on = "none"]]
      [] OTHER -> [p EXCEPT !.zone[z] = DecideAndApply(p, z, c, AnyReading, a.event, c.todo)]

Writes(p, z, a) ==
    \/ a.act = "PersistState"
    \/ a.act = "AddBlocker" /\ <<z, a.reason>> \notin p.slots.blockers \ p.slots.unpersisted
    \/ a.act = "RemoveBlocker" /\ <<z, a.reason>> \in p.slots.blockers
    \/ a.act = "ClearKey" /\ <<z, NotProvenOff>> \in p.slots.blockers

(* A blocker closes the live set before its write, and leaves it after. *)
PerformWrite(i, z, c, a) ==
    LET p == proc[i]
        key == <<z, IF a.act = "ClearKey" THEN NotProvenOff ELSE a.reason>>
        failed == HandlePersistFailure(z, c)
    IN
    CASE a.act = "PersistState" ->
           Save(i, UpdateControllerRuntime(p.mem, z, c), [p EXCEPT !.zone[z] = c],
                [proc EXCEPT ![i].zone[z] = failed])
      [] a.act = "AddBlocker" ->
           Save(i, SetRecordBlocker(p.mem, z, a.reason, TRUE),
                [p EXCEPT !.zone[z] = c, !.slots = BlockerSaved(BlockerLive(@, key), key)],
                [proc EXCEPT ![i].zone[z] = failed, ![i].slots = BlockerLive(@, key)])
      [] OTHER ->
           Save(i, SetRecordBlocker(p.mem, z, key[2], FALSE),
                [p EXCEPT !.zone[z] = c, !.slots = BlockerGone(@, key)],
                [proc EXCEPT ![i].zone[z] =
                    IF a.act = "ClearKey" THEN [c EXCEPT !.todo = << >>] ELSE failed])

Immediate(p, z) ==
    p.zone[z].todo # << >> /\ ~Writes(p, z, Head(p.zone[z].todo))

(* The lock holder runs on until it has to await a write. *)
Skipped == {"PersistState", "AddBlocker", "RemoveBlocker", "ClearKey"}
RunOne(p, z) ==
    IF ~Immediate(p, z) THEN p
    ELSE IF Head(p.zone[z].todo).act \in Skipped THEN [p EXCEPT !.zone[z] = Rest(@)]
    ELSE ApplyAction(p, z, Rest(p.zone[z]), Head(p.zone[z].todo))
RunTwo(p, z) == RunOne(RunOne(p, z), z)
RunFour(p, z) == RunTwo(RunTwo(p, z), z)

(* Bound: eight actions, which is more than there are between two writes. *)
RunOn(p, z) == RunFour(RunFour(p, z), z)

Perform(i, z) ==
    /\ proc[i].zone[z].todo # << >> /\ ~Immediate(proc[i], z)
    /\ PerformWrite(i, z, Rest(proc[i].zone[z]), Head(proc[i].zone[z].todo))
    /\ UNCHANGED <<now, flag, runs, ghost>> /\ UNCHANGED world

RunsOn(i, z) ==
    /\ Immediate(proc[i], z)
    /\ proc' = [proc EXCEPT ![i] = RunOn(@, z)]
    /\ UNCHANGED <<now, disk, flag, runs, ghost, left>> /\ UNCHANGED world

-----------------------------------------------------------------------------
(* The actuators' state callbacks: our own ON is noted at once, the rest   *)
(* is left to a task that needs the lock.                                  *)

OnActuatorEvent(c, z, w, s, own) ==
    LET cur == Assess(w, s) IN
    IF ~c.attached \/ cur = Assessment(z) THEN c
    ELSE [Send(c, [kind |-> "ActuatorChange", prev |-> Assessment(z), cur |-> cur, at |-> now])
            EXCEPT !.ackAt = IF own /\ cur.observedOn /\ c.on # "none" THEN now ELSE @]

Notified(procs, w, s, own) ==
    [i \in Instances |-> [procs[i] EXCEPT !.zone =
        [z \in Zones |-> OnActuatorEvent(procs[i].zone[z], z, w[z], s[z], own)]]]

-----------------------------------------------------------------------------
(* Tasks that take the lock. *)

(* _async_actuator_change: what follows from one observed change. *)
ActuatorChange(c, m) ==
    LET own == c.state = "WATERING" /\ c.session # NoSession
        acknowledges == /\ c.session.commanded # NoTime /\ c.session.confirmed = NoTime
                        /\ c.session.pending = NoReason /\ ~OffActive(c)
    IN
    CASE ~m.cur.available ->
           IF c.state \in {"WATERING", "SOAKING"}
           THEN <<Dispatch(Event("ActuatorBecameUnavailable"))>> ELSE << >>
      [] m.cur.observedOn ->
           IF c.on # "none" THEN << >>
           ELSE IF ~own THEN <<Dispatch(Event("ExternalActuatorOn"))>>
           ELSE IF acknowledges THEN <<Dispatch(At("OnConfirmed", m.at))>> ELSE << >>
      [] OTHER ->
           IF m.prev.provenOff \/ OffActive(c) \/ c.on # "none" THEN <<ClearKey>>
           ELSE <<ClearKey, Dispatch(At("ExternalActuatorOff", m.at))>>

Deliver(i, z) ==
    LET p == proc[i]
        c == [p.zone[z] EXCEPT !.inbox = Tail(@)]
        m == Head(p.zone[z].inbox)
    IN
    /\ LockFree(p.zone[z]) /\ p.zone[z].inbox # << >>
    /\ IF m.kind = "ActuatorChange"
       THEN SetZone(i, z, [c EXCEPT !.todo = ActuatorChange(c, m)])
       ELSE \E v \in Readings : SetZone(i, z, DecideAndApply(p, z, c, v, m.event, m.rest))
    /\ UNCHANGED <<now, disk, flag, runs, ghost, left>> /\ UNCHANGED world

(* The slot task gets its offer. *)
Offered(i, z) ==
    LET p == proc[i]
        c == p.zone[z]
    IN
    /\ Free(c) /\ c.waiting /\ p.slots.future[z] = "granted"
    /\ IF c.eligible
       THEN \E v \in Readings :
              SetZone(i, z, DecideAndApply(p, z, c, v, Event("SlotGranted"), <<EndOffer>>))
       ELSE proc' = [proc EXCEPT ![i].zone[z].waiting = FALSE, ![i].slots = Release(@, z)]
    /\ UNCHANGED <<now, disk, flag, runs, ghost, left>> /\ UNCHANGED world

(* A moisture report, where it can change something. *)
Report(i, z) ==
    LET p == proc[i]
        c == p.zone[z]
    IN
    /\ Free(c) /\ c.eligible /\ c.state \in {"IDLE", "SOAKING", "FAULT"}
    /\ Spend("report")
    /\ \E v \in Readings :
         SetZone(i, z, DecideAndApply(p, z, c, v, [kind |-> "MoistureReport", obs |-> Reading(v)],
                                      << >>))
    /\ UNCHANGED <<now, disk, flag, runs, ghost>> /\ UNCHANGED world

TimerEvents ==
    [PULSE_END |-> "PulseDeadlineReached", MANUAL_END |-> "ManualDeadlineReached",
     SOAK_END |-> "SoakDeadlineReached", GRACE |-> "GraceDeadlineReached",
     ON_CONFIRM_TIMEOUT |-> "OnConfirmTimeout"]

TimerFires(i, z) ==
    LET p == proc[i]
        c == p.zone[z]
    IN
    /\ Free(c)
    /\ \E t \in c.timers, v \in Readings :
         /\ t[2] <= now
         /\ SetZone(i, z, DecideAndApply(p, z, [c EXCEPT !.timers = @ \ {t}], v,
                                         Event(TimerEvents[t[1]]), << >>))
    /\ UNCHANGED <<now, disk, flag, runs, ghost, left>> /\ UNCHANGED world

UserCommands(z) ==
    LET c == Live.zone[z] IN
    /\ Live.phase = "up" /\ Free(c)
    /\ Spend("command")
    /\ \E e \in Commands :
         SetZone("live", z,
           DecideAndApply(Live, z, [c EXCEPT !.enabled = @ \/ e.kind = "EnableRequested"],
                          AnyReading, e, << >>))
    /\ UNCHANGED <<now, disk, flag, runs, ghost>> /\ UNCHANGED world

-----------------------------------------------------------------------------
(* Setup. *)

(* A setup that raises: nothing is detached, so controllers that were      *)
(* attached keep their listeners and their Store.                          *)
FailSetup(p) ==
    [proc EXCEPT !["live"] = Down,
                 !["orphan"] = IF \E z \in Zones : p.zone[z].attached
                               THEN [p EXCEPT !.phase = "orphaned"] ELSE @]

Adopted(p) == [p EXCEPT !.phase = "begin"]

Start ==
    LET class == ClassifySetup(disk, flag.live)
        phase == CASE class = "FIRST_INSTALL" -> "first"
                   [] class = "INTEGRITY_LOSS" -> "rebuild"
                   [] OTHER -> "begin"
    IN
    /\ Live.phase = "down" /\ \A z \in Zones : ~latent[z]
    /\ Spend("start")
    /\ runs' = runs + 1
    /\ SetLive([Down EXCEPT !.phase = phase, !.run = runs', !.mem = disk])
    /\ flag' = [flag EXCEPT !.live = @ \/ class = "INTERRUPTED_INITIALIZATION"]
    /\ UNCHANGED <<now, disk, ghost>> /\ UNCHANGED world

FirstInit ==
    /\ Live.phase = "first"
    /\ Save("live", FirstInitialize(Zones), Adopted(Live), FailSetup(Live))
    /\ flag' = [flag EXCEPT !.live = Live'.phase = "begin"]
    /\ UNCHANGED <<now, runs, ghost>> /\ UNCHANGED world

Rebuild ==
    /\ Live.phase = "rebuild"
    /\ Save("live", ReconstructAfterIntegrityLoss(Zones), Adopted(Live), FailSetup(Live))
    /\ UNCHANGED <<now, flag, runs, ghost>> /\ UNCHANGED world

(* Without a run id of its own a process may not water: it sends one OFF   *)
(* to every valve that was left WATERING, and gives up.                    *)
BeginRun ==
    LET begun == [Live EXCEPT !.phase = "records", !.previous = Live.mem.active,
                              !.previousClean = PreviousRunWasClean(Live.mem)]
        hazardous == {z \in Zones : Live.mem.zones[z].state = "WATERING"
                                     /\ ~Assessment(z).provenOff}
    IN
    /\ Live.phase = "begin"
    /\ \E obeying \in SUBSET hazardous :
         LET after == [z \in Zones |-> IF z \in obeying THEN "closed" ELSE water[z]] IN
         /\ Save("live", BeginNewRun(Live.mem, Live.run), begun,
                 Notified(FailSetup(Live), after, seen, FALSE))
         /\ water' = IF Live'.phase = "down" THEN after ELSE water
    /\ UNCHANGED <<now, flag, runs, seen, latent, flowed, ghost>>

(* Slip: the persisted blockers do not become live. *)
RecordBlockersForgotten(data) == {}

RecordBlockers(data) == {k \in Zones \X BlockerReasons : k[2] \in data.zones[k[1]].blockers}

(* The reconciliation of the records, whose blockers become live. *)
Records ==
    LET plan == PlanReconciledStore(Live.mem, [z \in Zones |-> Assessment(z)])
    IN
    /\ Live.phase = "records"
    /\ Save("live", plan,
            [Live EXCEPT !.phase = "attach", !.todo = Zones,
                         !.slots.blockers = RecordBlockers(plan)],
            FailSetup(Live))
    /\ ghost' = [ghost EXCEPT !.unanchored = @ \cup
         {z \in Zones : /\ plan.zones[z].session # Live.mem.zones[z].session
                        /\ plan.zones[z].session.commanded = NoTime
                        /\ Live'.phase = "attach"}]
    /\ UNCHANGED <<now, flag, runs>> /\ UNCHANGED world

(* Slip: the daily runtime is not restored. *)
AttachedUncharged(rec) ==
    [Detached EXCEPT !.attached = TRUE, !.state = rec.state, !.enabled = rec.enabled,
                     !.session = rec.session, !.run = rec.run, !.fault = rec.fault,
                     !.lastEnd = rec.lastEnd]

Attached(rec) ==
    [Detached EXCEPT !.attached = TRUE, !.state = rec.state, !.enabled = rec.enabled,
                     !.session = rec.session, !.run = rec.run, !.fault = rec.fault,
                     !.daily = rec.daily, !.lastEnd = rec.lastEnd]

(* Slip: what is not seen ON counts as OFF. *)
FindingTrusting(z) == IF Assessment(z).observedOn THEN "ON" ELSE "OFF"

Finding(z) == IF Assessment(z).observedOn THEN "ON"
              ELSE IF Assessment(z).provenOff THEN "OFF" ELSE "UNPROVEN"

StructureValid(s) == s.soakEnds # NoTime /\ s.offAt # NoTime /\ s.offAt <= s.soakEnds

(* Slip: the marker alone is trusted. *)
TrustedSoakAnyRun(p, z, rec) ==
    StructureValid(rec.session) /\ Assessment(z).provenOff

TrustedSoak(p, z, rec) ==
    /\ p.previousClean /\ rec.run = p.previous
    /\ StructureValid(rec.session)
    /\ Assessment(z).provenOff

NoticeOn(z) ==
    IF Assessment(z).observedOn THEN <<Dispatch(Event("ExternalActuatorOn")), Return>>
    ELSE <<Return>>

(* _reconcile_zone: persisted WATERING is recovered, SOAKING kept or ended, *)
(* anything else only attached.                                            *)
AttachZone(z) ==
    LET rec == Live.mem.zones[z]
        c == Attached(rec)
        open == rec.session # NoSession
        p == [Live EXCEPT !.todo = @ \ {z}]
        expired == IF Grace(rec.session) <= now
                   THEN <<Dispatch(Event("GraceDeadlineReached")), Return>> ELSE <<Return>>
        Put(d) == SetLive([p EXCEPT !.zone[z] = d]) /\ UNCHANGED <<disk, left>>
    IN
    /\ Live.phase = "attach" /\ z \in Live.todo /\ NoAwait(Live)
    /\ \/ /\ rec.state = "WATERING" /\ open
          /\ Put(DecideAndApply(p, z, c, AnyReading, Startup(Finding(z)), <<Return>>))
       \/ /\ rec.state = "SOAKING" /\ open /\ TrustedSoak(Live, z, rec)
          /\ Save("live", RebaseSoakingOwner(Live.mem, z, Live.run),
                  [p EXCEPT !.zone[z] = DecideAndApply(p, z, [c EXCEPT !.run = Live.run],
                                          AnyReading, StartupSoaking(TRUE), expired)],
                  FailSetup(Live))
       \/ /\ rec.state = "SOAKING" /\ open /\ ~TrustedSoak(Live, z, rec)
          /\ Put(DecideAndApply(p, z, c, AnyReading, StartupSoaking(FALSE), NoticeOn(z)))
       \/ /\ ~(rec.state \in {"WATERING", "SOAKING"} /\ open)
          /\ Put([c EXCEPT !.todo = NoticeOn(z)])
    /\ UNCHANGED <<now, flag, runs, ghost>> /\ UNCHANGED world

(* The last look at each actuator before grants. *)
RereadKeys(p, z) ==
    LET a == Assessment(z)
        live == {r \in BlockerReasons : <<z, r>> \in p.slots.blockers}
    IN  IF a.provenOff THEN live \cap {NotProvenOff, ExternalKey}
        ELSE IF ~a.observedOn THEN {NotProvenOff} \ live
        ELSE IF p.mem.zones[z].session = NoSession THEN {ExternalKey} \ live ELSE {}

RereadZone(z) ==
    LET adds == ~Assessment(z).provenOff
    IN
    /\ Live.phase = "reread" /\ z \in Live.todo
    /\ IF RereadKeys(Live, z) = {}
       THEN SetLive([Live EXCEPT !.todo = @ \ {z}]) /\ UNCHANGED <<disk, left>>
       ELSE \E r \in RereadKeys(Live, z) :
              /\ r = ExternalKey => NotProvenOff \notin RereadKeys(Live, z)
              /\ Save("live", SetRecordBlocker(Live.mem, z, r, adds),
                      [Live EXCEPT !.slots =
                         IF adds THEN BlockerSaved(BlockerLive(@, <<z, r>>), <<z, r>>)
                         ELSE BlockerGone(@, <<z, r>>)],
                      FailSetup(Live))
    /\ UNCHANGED <<now, flag, runs, ghost>> /\ UNCHANGED world

(* The loops over the zones follow each other; then grants are enabled. *)
SetupProceeds ==
    /\ Live.todo = {} /\ NoAwait(Live)
    /\ \/ Live.phase = "attach" /\ SetLive([Live EXCEPT !.phase = "reread", !.todo = Zones])
       \/ Live.phase = "reread"
          /\ SetLive([Live EXCEPT !.phase = "up", !.slots = SetGrants(@, TRUE)])
    /\ UNCHANGED <<now, disk, flag, runs, ghost, left>> /\ UNCHANGED world

-----------------------------------------------------------------------------
(* Stage-1 shutdown. *)

(* Everything before the first await: admission closes, every controller   *)
(* is quiesced, and resting zones begin their OFF.                         *)
StopBegins ==
    LET closed == [Live EXCEPT !.slots = CloseAdmission(@)]
        Quiesced(c, z) ==
            [Quiesce(c) EXCEPT !.waiting = @ /\ closed.slots.future[z] # "cancelled"]
        Resting(c) == c.state \notin {"WATERING", "SOAKING"}
    IN
    /\ Live.phase = "up"
    /\ Spend("stop")
    /\ SetLive([closed EXCEPT
         !.phase = "signal", !.stopping = TRUE, !.deadline = now + ShutdownBudget,
         !.todo = Zones,
         !.zone = [z \in Zones |->
            IF Resting(Live.zone[z])
            THEN BeginShutdownOff(Live, z, Quiesced(Live.zone[z], z))
            ELSE Quiesced(Live.zone[z], z)]])
    /\ UNCHANGED <<now, disk, flag, runs, ghost>> /\ UNCHANGED world

(* A soak is preserved only while its valve is proven closed. *)
SoakingShutdown(z) ==
    IF Assessment(z).provenOff THEN Call(Event("HomeAssistantShutdown"), <<Return>>)
    ELSE IF Assessment(z).available
    THEN Call(Event("ExternalActuatorOn"), <<ShutdownOff, Return>>)
    ELSE Call(Event("ActuatorBecameUnavailable"), <<Return>>)

SignalZone(z) ==
    LET c == Live.zone[z]
        p == [Live EXCEPT !.todo = @ \ {z}]
    IN
    /\ Live.phase = "signal" /\ z \in Live.todo /\ NoAwait(Live)
    /\ SetLive(
         CASE c.state = "WATERING" ->
                [p EXCEPT !.watering = @ \cup {z},
                          !.zone[z] = Send(c, Call(Event("HomeAssistantShutdown"),
                                                   <<BeginOff, Return>>))]
           [] c.state = "SOAKING" ->
                [p EXCEPT !.preserved = IF Assessment(z).provenOff THEN @ \cup {z} ELSE @,
                          !.zone[z] = Send(c, SoakingShutdown(z))]
           [] OTHER -> p)
    /\ UNCHANGED <<now, disk, flag, runs, ghost, left>> /\ UNCHANGED world

OffNeeded(p, z) == z \in p.watering \/ p.zone[z].on # "none" \/ OffActive(p.zone[z])
OffDone(c) == c.on = "none" /\ c.off \in {"proven", "failed"}

(* Slip: the OFF that was cut short counts as done. *)
AbortDone(p, z, c) ==
    [Send(c, Call(At("OffConfirmed", now), <<EndOff("proven")>>)) EXCEPT
       !.off = "reporting", !.on = "none", !.offRequested = FALSE]

(* Slip: the budget runs out and the wait goes on. *)
AbortNothing(p, z, c) == c

(* The session owner is cancelled: an ON under way is compensated, a       *)
(* running OFF ends as unconfirmed.                                        *)
Abort(p, z, c) ==
    LET d == IF c.on = "call" THEN Compensate(p, z, RecordPossibleCommand(c), AnyReading) ELSE c
    IN  IF d.off \in {"running", "none"}
        THEN [Send(d, OffFailed) EXCEPT !.off = "reporting", !.offRequested = FALSE]
        ELSE d

(* _await_off_within_budget *)
AwaitZone(z) ==
    LET c == Live.zone[z]
        budgetSpent == now >= Live.deadline
        next == [Live EXCEPT !.todo = @ \ {z},
                             !.watering = IF Live.stopping THEN @ ELSE @ \ {z}]
    IN
    /\ \/ Live.phase = "await" /\ z \in Live.todo
       \/ Live.phase = "unload" /\ z \in Live.watering
    /\ NoAwait(Live)
    /\ \/ (~OffNeeded(Live, z) \/ OffDone(c)) /\ SetLive(next)
       \/ /\ OffNeeded(Live, z) /\ ~OffDone(c) /\ budgetSpent
          /\ LockFree(c) /\ c.off # "reporting"
          /\ SetLive([Live EXCEPT !.zone[z] = Abort(Live, z, c)])
    /\ UNCHANGED <<now, disk, flag, runs, ghost, left>> /\ UNCHANGED world

PersistZone(z) ==
    LET c == Live.zone[z]
        p == [Live EXCEPT !.todo = @ \ {z}]
        failed == [p EXCEPT !.failures = TRUE]
    IN
    /\ Live.phase = "persist" /\ z \in Live.todo
    /\ IF c.persistFailed THEN SetLive(failed) /\ UNCHANGED <<disk, left>>
       ELSE /\ Free(c)
            /\ Save("live", UpdateControllerRuntime(Live.mem, z, c), p,
                    [proc EXCEPT !["live"] = failed])
    /\ UNCHANGED <<now, flag, runs, ghost>> /\ UNCHANGED world

(* What the clean marker may be written for. *)
RunIsClean(p) ==
    /\ ~p.failures
    /\ \A z \in Zones : /\ p.mem.zones[z].flowOwner # "INTEGRATION"
                        /\ OffUnconfirmed \notin p.mem.zones[z].blockers
    /\ \A z \in p.watering \cup p.preserved : Assessment(z).provenOff

Mark ==
    LET stopped == [Live EXCEPT !.phase = "stopped"] IN
    /\ Live.phase = "persist" /\ Live.todo = {}
    /\ IF RunIsClean(Live)
       THEN Save("live", MarkCleanShutdown(Live.mem), stopped, [proc EXCEPT !["live"] = stopped])
       ELSE SetLive(stopped) /\ UNCHANGED <<disk, left>>
    /\ UNCHANGED <<now, flag, runs, ghost>> /\ UNCHANGED world

StopProceeds ==
    /\ Live.stopping /\ Live.todo = {} /\ NoAwait(Live)
    /\ \/ Live.phase = "signal" /\ SetLive([Live EXCEPT !.phase = "await", !.todo = Zones])
       \/ Live.phase = "await" /\ SetLive([Live EXCEPT !.phase = "persist", !.todo = Zones])
    /\ UNCHANGED <<now, disk, flag, runs, ghost, left>> /\ UNCHANGED world

-----------------------------------------------------------------------------
(* Unload for a reload: one zone after the other ends its session, then    *)
(* all are detached.  The process goes on.                                 *)

UnloadBegins ==
    /\ Live.phase = "up"
    /\ Spend("stop")
    /\ SetLive([Live EXCEPT !.phase = "unload", !.todo = Zones, !.slots = SetGrants(@, FALSE)])
    /\ UNCHANGED <<now, disk, flag, runs, ghost>> /\ UNCHANGED world

UnloadZone(z) ==
    LET c == Live.zone[z]
        p == [Live EXCEPT !.todo = @ \ {z}, !.deadline = now + ShutdownBudget]
        told == [p EXCEPT !.zone[z] = Send(c, Call(Event("ConfigEntryReload"), <<Return>>))]
    IN
    /\ Live.phase = "unload" /\ z \in Live.todo /\ Live.watering = {} /\ NoAwait(Live)
    /\ SetLive(CASE c.state = "WATERING" -> [told EXCEPT !.watering = {z}]
                 [] c.state = "SOAKING" -> told
                 [] OTHER -> p)
    /\ UNCHANGED <<now, disk, flag, runs, ghost, left>> /\ UNCHANGED world

(* Listeners go only when the cancelled commands have settled. *)
DetachZone(z) ==
    LET c == Live.zone[z]
        cut == [Quiesce(c) EXCEPT !.waiting = FALSE, !.onRequested = FALSE]
        settled == c.on = "none" /\ c.off # "running"
    IN
    /\ Live.phase = "unload" /\ Live.todo = {} /\ Live.watering = {} /\ NoAwait(Live)
    /\ c.attached /\ LockFree(c) /\ c.off # "reporting"
    /\ IF ~settled THEN SetZone("live", z, Abort(Live, z, cut))
       ELSE Idle(c) /\ SetZone("live", z, Detached)
    /\ UNCHANGED <<now, disk, flag, runs, ghost, left>> /\ UNCHANGED world

Unloaded ==
    /\ Live.phase = "unload" /\ Live.todo = {}
    /\ \A z \in Zones : ~Live.zone[z].attached
    /\ SetLive(Down)
    /\ UNCHANGED <<now, disk, flag, runs, ghost, left>> /\ UNCHANGED world

-----------------------------------------------------------------------------
(* The process, its file and the valves. *)

Gone == [i \in Instances |-> Down]

(* A runtime whose setup failed still runs, or did before the process died. *)
NoOrphan == proc["orphan"].phase = "down" /\ ~ghost.orphaned

(* Home Assistant ends and saves its own configuration. *)
ProcessEnds ==
    /\ Live.phase = "stopped"
    /\ proc' = Gone
    /\ flag' = [flag EXCEPT !.saved = flag.live]
    /\ ghost' = [ghost EXCEPT !.orphaned = @ \/ ~NoOrphan]
    /\ UNCHANGED <<now, disk, runs, left>> /\ UNCHANGED world

Crash ==
    /\ proc # Gone
    /\ Spend("crash")
    /\ proc' = Gone
    /\ flag' = [flag EXCEPT !.live = flag.saved]
    /\ ghost' = [ghost EXCEPT !.dead = @ \cup IF Live.phase = "stopped" THEN {} ELSE {Live.run},
                             !.orphaned = @ \/ ~NoOrphan]
    /\ UNCHANGED <<now, disk, runs>> /\ UNCHANGED world

(* Core saves the entry's flag some time after it changed. *)
FlushFlag ==
    /\ flag.live # flag.saved
    /\ flag' = [flag EXCEPT !.saved = flag.live]
    /\ UNCHANGED <<now, disk, proc, runs, ghost, left>> /\ UNCHANGED world

Damage ==
    /\ proc = Gone /\ disk.status = "valid"
    /\ Spend("damage")
    /\ disk' \in {Absent, Damaged}
    /\ ghost' = [ghost EXCEPT !.lost = TRUE, !.told = flag.saved \/ disk' = Damaged]
    /\ UNCHANGED <<now, flag, proc, runs>> /\ UNCHANGED world

(* A valve that reports it is closed has no ON command before it. *)
Device(z, w, s, own) ==
    /\ water' = [water EXCEPT ![z] = w]
    /\ seen' = [seen EXCEPT ![z] = s]
    /\ latent' = [latent EXCEPT ![z] = @ /\ ~own /\ ~(s /\ w = "closed")]
    /\ proc' = Notified(proc, water', seen', own)
    /\ UNCHANGED <<now, disk, flag, runs, flowed, ghost>>

(* The valve obeys; a command of a runtime that is gone may also be lost. *)
OnLands(z) ==
    /\ latent[z]
    /\ \/ Device(z, "ours", seen[z], TRUE)
       \/ ~Live.zone[z].attached /\ Device(z, water[z], seen[z], TRUE)
    /\ UNCHANGED left

OffLands(z) ==
    /\ \E i \in Instances : proc[i].zone[z].off = "running"
    /\ latent[z] \/ water[z] # "closed"
    /\ Device(z, "closed", seen[z], FALSE)
    /\ UNCHANGED left

Disturb(z) ==
    /\ \/ "turnOn" \in Disturbances /\ water[z] = "closed" /\ Device(z, "theirs", seen[z], FALSE)
       \/ "turnOff" \in Disturbances /\ water[z] # "closed" /\ Device(z, "closed", seen[z], FALSE)
       \/ "vanish" \in Disturbances /\ seen[z] /\ Device(z, water[z], FALSE, FALSE)
    /\ Spend("disturb")

Returns(z) == ~seen[z] /\ Device(z, water[z], TRUE, FALSE) /\ UNCHANGED left

(* Nothing of this controller is ready to run or overdue. *)
AtRest(c) ==
    /\ Idle(c)
    /\ c.attached => /\ ~c.onRequested /\ (c.offRequested => c.on # "none")
                     /\ c.off # "reporting"
                     /\ \A t \in c.timers : t[2] > now

OfferDue(p) == \E z \in Zones : p.zone[z].waiting /\ p.slots.future[z] = "granted"

(* Setup and shutdown take no time but for the budgeted wait. *)
Waiting(p) ==
    \/ p.phase \in {"down", "orphaned", "up"}
    \/ p.phase \in {"await", "unload"} /\ now < p.deadline
       /\ \E z \in p.todo \cup p.watering : OffNeeded(p, z) /\ ~OffDone(p.zone[z])

Quiescent ==
    \A i \in Instances :
      /\ Waiting(proc[i]) /\ ~OfferDue(proc[i])
      /\ \A z \in Zones : AtRest(proc[i].zone[z])

Tick ==
    /\ Quiescent
    /\ now' = now + 1 /\ Spend("time")
    /\ flowed' = [z \in Zones |-> flowed[z] + IF water[z] = "ours" THEN 1 ELSE 0]
    /\ UNCHANGED <<disk, flag, proc, runs, water, seen, latent, ghost>>

(* The end of the bounded run; anything else that cannot move is stuck. *)
TimeIsUp == left.time = 0 /\ Quiescent /\ UNCHANGED vars

-----------------------------------------------------------------------------

(* A zone that was enabled before a clean stop. *)
Ready == [NewRecord EXCEPT !.state = "IDLE", !.enabled = TRUE]

(* Not installed yet, or stopped cleanly. *)
Init ==
    /\ now = 0 /\ runs = 1
    /\ \/ disk = Absent /\ flag = [live |-> FALSE, saved |-> FALSE]
       \/ disk = Snapshot(1, 1, [z \in Zones |-> Ready]) /\ flag = [live |-> TRUE, saved |-> TRUE]
    /\ proc = Gone
    /\ water = [z \in Zones |-> "closed"]
    /\ seen = [z \in Zones |-> TRUE]
    /\ latent = [z \in Zones |-> FALSE]
    /\ flowed = [z \in Zones |-> 0]
    /\ ghost = [unanchored |-> {}, dead |-> {}, lost |-> FALSE, told |-> FALSE, orphaned |-> FALSE]
    /\ left \in Budgets

Runs(i, z) ==
    \/ Perform(i, z) \/ Deliver(i, z) \/ Offered(i, z) \/ TimerFires(i, z)
    \/ PerformOn(i, z) \/ PerformOff(i, z)

ZoneStep(i, z) == Runs(i, z) \/ Report(i, z) \/ OnReturns(i, z) \/ OffEnds(i, z)

StopStep ==
    \/ Mark \/ ProcessEnds
    \/ \E z \in Zones : SignalZone(z) \/ AwaitZone(z) \/ PersistZone(z)

RuntimeStep ==
    \/ Start \/ FirstInit \/ Rebuild \/ BeginRun \/ Records
    \/ StopBegins \/ StopStep \/ UnloadBegins \/ Unloaded
    \/ \E z \in Zones : \/ AttachZone(z) \/ RereadZone(z) \/ UnloadZone(z) \/ DetachZone(z)
                        \/ UserCommands(z)

WorldStep(z) == OnLands(z) \/ OffLands(z) \/ Disturb(z) \/ Returns(z)

(* What a coroutine does up to its next await is not interleaved with      *)
(* anything.                                                               *)
MayProceed ==
    /\ Live.todo = {} /\ NoAwait(Live)
    /\ Live.phase \in {"attach", "reread", "signal", "await"}

Continues ==
    \/ SetupProceeds \/ StopProceeds
    \/ \E i \in Instances, z \in Zones : RunsOn(i, z)

Calm == ~MayProceed /\ \A i \in Instances, z \in Zones : ~Immediate(proc[i], z)

Next ==
    \/ Continues
    \/ \E i \in Instances, z \in Zones : Calm /\ ZoneStep(i, z)
    \/ Calm /\ RuntimeStep
    \/ \E z \in Zones : Calm /\ WorldStep(z)
    \/ Calm /\ (Crash \/ FlushFlag \/ Damage \/ Tick \/ TimeIsUp)

Spec == Init /\ [][Next]_vars

(* When a Runs, StopStep or Tick can change something, from their guards. *)
CanRun(i, z) ==
    LET c == proc[i].zone[z]
        resting == c.on = "none"
    IN  \/ c.todo # << >>
        \/ LockFree(c) /\ c.inbox # << >>
        \/ /\ Free(c)
           /\ \/ c.onRequested /\ resting
              \/ c.waiting /\ proc[i].slots.future[z] = "granted"
              \/ \E t \in c.timers : t[2] <= now
        \/ c.attached /\ c.offRequested /\ ~c.onRequested /\ resting

CanStop ==
    \/ Live.phase = "signal" /\ Live.todo # {} /\ NoAwait(Live)
    \/ Live.phase = "await" /\ NoAwait(Live)
       /\ \E z \in Live.todo :
            LET c == Live.zone[z] IN
            \/ ~OffNeeded(Live, z) \/ OffDone(c)
            \/ /\ now >= Live.deadline /\ LockFree(c) /\ c.off # "reporting"
               /\ Abort(Live, z, c) # c
    \/ Live.phase = "persist"
       /\ \A z \in Live.todo : Live.zone[z].persistFailed \/ Free(Live.zone[z])

SomethingReady ==
    \/ ~Calm \/ CanStop \/ \E i \in Instances, z \in Zones : CanRun(i, z)
    \/ left.time > 0 /\ Quiescent

Proceeds ==
    \/ Continues
    \/ Calm /\ (StopStep \/ Tick \/ \E i \in Instances, z \in Zones : Runs(i, z))

(* Weak fairness of what the event loop runs, and of time.  Nothing makes  *)
(* the ON call return, an OFF be confirmed or given up, or a valve obey.   *)
FairSpec == Spec /\ (([]<>~SomethingReady) \/ []<><<Proceeds>>_vars)

-----------------------------------------------------------------------------
(* Properties. *)

MayFlow(z) == water[z] = "ours" \/ latent[z]

(* Types, and what every state a controller is attached in or moves to     *)
(* must keep: WATERING and SOAKING own a session                           *)
(* (ZoneController._apply_locked).                                         *)
TypeOK ==
    /\ now \in Nat
    /\ disk.status \in {"absent", "damaged", "valid"}
    /\ water \in [Zones -> {"closed", "ours", "theirs"}]
    /\ {seen, latent} \subseteq [Zones -> BOOLEAN]
    /\ \A i \in Instances, z \in Zones :
         LET c == proc[i].zone[z] IN
         /\ c.state \in States /\ c.fault \in Faults \cup {NoFault}
         /\ c.on \in {"none", "call", "commit"}
         /\ c.off \in {"none", "running", "reporting", "proven", "failed"}
         /\ c.session # NoSession =>
              /\ c.session.pending \in Reasons \cup {NoReason}
              /\ c.session.cycle \in 1 .. MaxCycles
         /\ c.state \in {"WATERING", "SOAKING"} => c.session # NoSession

(* While water may flow by our order, the file says so, at every point     *)
(* where the process can die: it is there, and the session in it has an    *)
(* open pulse, persisted before ON and kept until OFF is seen, also when   *)
(* OFF was given up.  Startup has nothing else to account the flow by      *)
(* (_reconcile_zone, _await_off_within_budget).                            *)
HazardOnDisk ==
    \A z \in Zones :
      MayFlow(z) /\ NoOrphan /\ ~ghost.lost
        => disk.status = "valid" /\ OpenPulse(disk.zones[z].session)

(* A file whose last run is marked clean (_run_stage1_shutdown) hides no   *)
(* water of ours: a valve that may still be open by our order is at least  *)
(* recorded as flowing, if under the wrong owner.                          *)
CleanMeansOff ==
    proc = Gone /\ disk.status = "valid" /\ PreviousRunWasClean(disk) /\ ~ghost.lost
      => \A z \in Zones : MayFlow(z) => disk.zones[z].flowOwner = "EXTERNAL"

(* No ON command is sent while water of ours may flow in any zone, also    *)
(* when that flow was ordered by a run that crashed: what startup puts     *)
(* into the live blocker set before it enables grants is enough            *)
(* (_republish_record_blockers, final re-read).                            *)
FencedBeforeGrants ==
    [][\A z \in Zones :
         Live.zone[z].on = "none" /\ Live'.zone[z].on = "call"
           => \A y \in Zones : ~MayFlow(y)]_vars

(* Once a zone has no open session on disk, its persisted daily runtime    *)
(* covers all the time its valve was open by our order, through crashes    *)
(* and restarts.  Left out: a session that startup gave a made-up reason   *)
(* while its command time was never persisted (see NeverUndercounted),     *)
(* and a lost file.                                                        *)
AccountingDurable ==
    \A z \in Zones :
      /\ disk.status = "valid" /\ ~ghost.lost /\ z \notin ghost.unanchored /\ NoOrphan
      /\ disk.zones[z].session = NoSession
      => disk.zones[z] = NoRecord \/ disk.zones[z].daily >= flowed[z]

(* A session that a crashed run left behind never passes to a later run:   *)
(* only a run with the clean marker hands over its soak                    *)
(* (_reconcile_soaking, async_rebase_soaking_owner).                       *)
SoakSurvivesOnlyCleanStop ==
    [][\A z \in Zones :
         /\ disk.status = "valid" /\ disk'.status = "valid"
         /\ NoSession \notin {disk.zones[z].session, disk'.zones[z].session}
         /\ disk'.zones[z].run # disk.zones[z].run
         => disk.zones[z].run \notin ghost.dead]_vars

(* The Stage-1 shutdown ends within its budget, with a verdict on the run, *)
(* even when the ON call of a pulse never returns and no OFF is confirmed  *)
(* or given up: _await_off_within_budget cancels what it waits for.        *)
ShutdownEnds ==
    Live.stopping /\ Live.deadline <= now + left.time ~> Live.phase \in {"stopped", "down"}

(* Once the file was found damaged, or missing after the flag was saved,   *)
(* no ON command is ever sent without an acknowledgement                   *)
(* (async_reconstruct_after_integrity_loss).                               *)
NoWaterAfterLoss ==
    [][ghost.told => \A z \in Zones : latent'[z] => latent[z]]_vars

(* SPECIFICATION.md:403: a crash never undercounts a command that may     *)
(* have reached hardware.  Refuted: see AccountingDurable.                 *)
NeverUndercounted ==
    \A z \in Zones :
      disk.status = "valid" /\ disk.zones[z].state # "none" /\ disk.zones[z].session = NoSession
        => disk.zones[z].daily >= flowed[z]
=============================================================================
