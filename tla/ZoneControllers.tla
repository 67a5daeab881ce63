-------------------------- MODULE ZoneControllers --------------------------
(***************************************************************************)
(* Several ZoneController objects (zone_controller.py) around one          *)
(* SlotManager, each with its actuator, its moisture sensor and the tasks  *)
(* it runs on the event loop.                                              *)
(*                                                                         *)
(* A zone's lock is an asyncio.Lock, which is handed on in FIFO order: the *)
(* tasks that want it are the zone's inbox, and Deliver is what the first  *)
(* of them does while it holds the lock.  The awaits inside that critical  *)
(* section (Store writes, slot calls) are not separate steps; that events  *)
(* pile up behind them is.  The other steps run without the lock: the      *)
(* session-owner task around the ON and OFF service calls, the OFF         *)
(* operation, the slot task, timers, and the callbacks of entity states.   *)
(***************************************************************************)
EXTENDS SlotOps, StateMachine, SequencesExt

CONSTANTS
    OffTotalAttempts,   \* how often one OFF operation calls the service
    MaxTime,            \* bound: the clock stops here
    InboxBound,         \* bound: the outside world waits for shorter inboxes
    Budget,             \* bound: how many inputs of each kind may happen
    Commands,           \* the events users and Home Assistant may send
    Observations,       \* what a sensor may report: records [class, value]
    Disturbances,       \* what else may happen to actuator, Store and entry
    SlowCalls           \* the service calls, "on" or "off", that may take time

ASSUME ControllerAssumption ==
    /\ OffTotalAttempts \in Nat \ {0}
    /\ {MaxTime, InboxBound} \subseteq Nat

(* What may come from outside: the requests of a running zone, and sensor  *)
(* readings.                                                               *)
ASSUME InputAssumption ==
    /\ Commands \subseteq
         [kind : {"StopRequested", "DisableRequested", "EnableRequested",
                  "ClearFaultRequested", "HomeAssistantShutdown", "ConfigEntryReload",
                  "ConfigChangedPrepare", "AutoEvaluate"}]
           \cup [kind : {"ManualStartRequested"}, seconds : Int]
           \cup [kind : {"ConfigurationInvalid"}, atSetup : {FALSE}]
    /\ Observations \subseteq [class : Classes, value : Int]

VARIABLES
    now,        \* the clock
    zone,       \* the fields of each ZoneController
    slots,      \* the SlotManager
    water,      \* what each valve really does: closed, or open by whose order
    view,       \* how far Home Assistant sees the valve
    latent,     \* an ON command that was sent and may still take effect
    flowed,     \* how long water really flowed by the controller's order
    left        \* what is left of Budget

vars == <<now, zone, slots, water, view, latent, flowed, left>>

-----------------------------------------------------------------------------
(* The actuator as Home Assistant shows it.  A position above zero in a    *)
(* transitional state is "partial": observed on, but not terminally.       *)

Views == {"settled", "moving", "partial", "gone"}

Assess(w, v) ==
    [available  |-> v # "gone",
     provenOff  |-> v = "settled" /\ w = "closed",
     observedOn |-> v = "partial" \/ (v = "settled" /\ w # "closed")]

IsTerminalOn(w, v) == v = "settled" /\ w # "closed"

(* State callbacks run inside the state write, so the cached assessment is *)
(* always the live one.                                                    *)
Assessment(z) == Assess(water[z], view[z])

ClassifyMoisture(o, at) ==
    IF o.class = "UNAVAILABLE" THEN [class |-> "UNAVAILABLE", value |-> 0, at |-> NoTime]
    ELSE [class |-> IF o.class \in {"VALID", "STALE"}
                    THEN IF at >= now - SensorMaxAge THEN "VALID" ELSE "STALE"
                    ELSE o.class,
          value |-> o.value, at |-> at]

-----------------------------------------------------------------------------
(* The fields of a controller. *)

NoToken == Token(0, NoTime)
NoMarker == [at |-> NoTime, seen |-> NoTime, mine |-> FALSE]
NoOffRun == [phase |-> "idle", attempt |-> 0, deadline |-> NoTime]

Fresh ==
    [state |-> "IDLE", enabled |-> TRUE, session |-> NoSession, fault |-> NoFault,
     externalOn |-> FALSE, daily |-> 0, lastEnd |-> NoTime, summary |-> NoReason,
     obs |-> [class |-> "UNAVAILABLE", value |-> 0, at |-> NoTime],
     armedWatchdog |-> NoToken,     \* the token the core accepts
     watchdog |-> NoToken,          \* the timer handle
     timers |-> {},                 \* the timer handles, <<kind, deadline>>
     onRequested |-> FALSE, offRequested |-> FALSE,
     offOperation |-> "none",       \* the shared future: running, proven, failed
     offProvenAt |-> NoTime,
     offRun |-> NoOffRun,           \* the task that completes an operation
     sessionTask |-> "resting",     \* or where it awaits: gate, call, commit, off
     inflightOn |-> NoMarker,       \* mine: its session is still the current one
     slotTask |-> "none",           \* or waiting for a grant, or offering it
     pendingManual |-> 0, persistFailed |-> FALSE, eligible |-> TRUE,
     inbox |-> << >>]

(* One step of a zone changes its own fields, c, and the slot state, s. *)
Frame(z) == [c |-> zone[z], s |-> slots]
Commit(z, f) == zone' = [zone EXCEPT ![z] = f.c] /\ slots' = f.s
Send(c, m) == [c EXCEPT !.inbox = Append(c.inbox, m)]
Post(f, m) == [f EXCEPT !.c = Send(f.c, m)]

Event(kind) == [kind |-> kind]
At(kind, at) == [kind |-> kind, at |-> at]
Manual(seconds) == [kind |-> "ManualStartRequested", seconds |-> seconds]
Report(obs) == [kind |-> "MoistureReport", obs |-> obs]
Watchdog(token) == [kind |-> "WatchdogFired", token |-> token]

Input(z, f) ==
    [now |-> now, state |-> f.c.state, enabled |-> f.c.enabled,
     session |-> f.c.session, fault |-> f.c.fault, obs |-> f.c.obs,
     daily |-> f.c.daily, lastEnd |-> f.c.lastEnd, actuator |-> Assessment(z),
     slotGranted |-> f.s.owner = z, blockersEmpty |-> f.s.blockers = {},
     armedWatchdog |-> f.c.armedWatchdog, externalOn |-> f.c.externalOn]

-----------------------------------------------------------------------------
(* Applying a decision. *)

Cancel(timers, kinds) == {t \in timers : t[1] \notin kinds}

KeptTimers(c, state, session) ==
    LET left1 == IF c.state = "WATERING" /\ state # "WATERING"
                 THEN Cancel(c.timers, {"PULSE_END", "MANUAL_END", "ON_CONFIRM_TIMEOUT"})
                 ELSE c.timers
        left2 == IF c.state = "SOAKING" /\ state # "SOAKING"
                 THEN Cancel(left1, {"SOAK_END", "GRACE"}) ELSE left1
    IN  IF session # NoSession /\ session.confirmed # NoTime
        THEN Cancel(left2, {"ON_CONFIRM_TIMEOUT"}) ELSE left2

RuntimeOf(s) == IF s = NoSession THEN 0 ELSE s.runtime

(* Slip: runtime is charged only when the session ends. *)
AdoptChargingLate(c, d, e) ==
    LET ended == d.closed # NoSession
    IN  [c EXCEPT
           !.state = d.state, !.session = d.session, !.fault = d.fault,
           !.daily = IF ended THEN c.daily + d.closed.runtime ELSE c.daily,
           !.lastEnd = IF ended THEN now ELSE c.lastEnd,
           !.summary = IF ended THEN d.reason ELSE c.summary,
           !.inflightOn.mine = c.inflightOn.mine /\ ~ended,
           !.timers = KeptTimers(c, d.state, d.session)]

(* The end that the minimum interval counts from. *)
EndOf(closed) == IF closed.offAt # NoTime THEN closed.offAt ELSE now

(* Runtime growth is charged to the day, a closed session sets the minimum *)
(* interval and the summary, and state exits drop their timers.            *)
Adopt(c, d, e) ==
    LET grown == IF d.session # NoSession THEN d.session ELSE d.closed
        delta == RuntimeOf(grown) - RuntimeOf(c.session)
        ended == d.closed # NoSession
        leaves == c.state = "WATERING" /\ d.state # "WATERING"
        waits == e.kind = "ManualStartRequested"
                 /\ \E n \in DOMAIN d.actions : d.actions[n] = RequestSlot
    IN  [c EXCEPT
           !.state = d.state, !.session = d.session, !.fault = d.fault,
           !.daily = IF delta > 0 THEN c.daily + delta ELSE c.daily,
           !.lastEnd = IF ended THEN EndOf(d.closed) ELSE c.lastEnd,
           !.summary = IF ended THEN d.reason ELSE c.summary,
           !.inflightOn.mine = c.inflightOn.mine /\ ~ended,
           !.timers = KeptTimers(c, d.state, d.session),
           !.watchdog = IF leaves THEN NoToken ELSE c.watchdog,
           !.pendingManual = IF waits THEN e.seconds ELSE c.pendingManual]

(* The slot task asks at once and then awaits its grant; while one such    *)
(* task lives no other is started.                                         *)
EnsureSlotRequest(z, f) ==
    IF ~f.c.eligible \/ f.c.slotTask # "none" THEN f
    ELSE [f EXCEPT !.c.slotTask = "waiting", !.s = Request(f.s, z)]

ApplyAction(z, f, a) ==
    CASE a.act = "PersistState" -> f
      [] a.act = "TurnOn" ->
           [f EXCEPT !.c.onRequested = TRUE, !.c.offOperation = "none",
                     !.c.offProvenAt = NoTime]
      [] a.act = "ExecuteOff" -> [f EXCEPT !.c.offRequested = TRUE]
      [] a.act = "ArmTimer" ->
           [f EXCEPT !.c.timers = Cancel(f.c.timers, {a.timer}) \cup {<<a.timer, a.at>>}]
      [] a.act = "ArmWatchdog" ->
           [f EXCEPT !.c.armedWatchdog = a.token, !.c.watchdog = a.token]
      [] a.act = "RequestSlot" -> EnsureSlotRequest(z, f)
      [] a.act = "ReleaseSlot" -> [f EXCEPT !.s = CancelRequest(Release(f.s, z), z)]
      [] a.act = "AddBlocker" ->
           [f EXCEPT !.s = BlockerSaved(BlockerLive(f.s, <<z, a.reason>>), <<z, a.reason>>)]
      [] a.act = "RemoveBlocker" -> [f EXCEPT !.s = BlockerGone(f.s, <<z, a.reason>>)]
      [] a.act = "SetExternalOn" -> [f EXCEPT !.c.externalOn = a.on]
      [] a.act = "ScheduleEvaluation" ->
           IF f.c.eligible THEN Post(f, Event("AutoEvaluate")) ELSE f

ApplyActions(z, f, actions) == FoldLeft(LAMBDA g, a : ApplyAction(z, g, a), f, actions)

(* Whether this action writes to the Store, and so may fail. *)
Writes(z, f, a) ==
    \/ a.act = "PersistState"
    \/ a.act = "AddBlocker" /\ (\/ <<z, a.reason>> \notin f.s.blockers
                                \/ <<z, a.reason>> \in f.s.unpersisted)
    \/ a.act = "RemoveBlocker" /\ <<z, a.reason>> \in f.s.blockers

(* Slip: a zone whose state cannot be saved gives the slot back. *)
HandlePersistFailureReleasing(z, f) ==
    [f EXCEPT
       !.c.persistFailed = TRUE, !.c.onRequested = FALSE,
       !.c.state = "FAULT", !.c.fault = "RESTORED_FROM_UNSAFE_STATE",
       !.c.offRequested = @ \/ ~Assessment(z).provenOff,
       !.s = Release(f.s, z)]

HandlePersistFailure(z, f) ==
    [f EXCEPT
       !.c.persistFailed = TRUE, !.c.onRequested = FALSE,
       !.c.state = "FAULT", !.c.fault = "RESTORED_FROM_UNSAFE_STATE",
       !.c.session = IF @ # NoSession /\ @.pending = NoReason
                     THEN [@ EXCEPT !.pending = "ACTUATOR_FAULT"] ELSE @,
       !.c.offRequested = @ \/ ~Assessment(z).provenOff]

(* The n-th action's write fails: the rest of the decision is lost.  A     *)
(* blocker that could not be saved stays live.                             *)
FailAction(z, f, actions, n) ==
    LET g == ApplyActions(z, f, SubSeq(actions, 1, n - 1))
        a == actions[n]
    IN  HandlePersistFailure(z, IF a.act = "AddBlocker"
                                THEN [g EXCEPT !.s = BlockerLive(g.s, <<z, a.reason>>)]
                                ELSE g)

(* What applying the actions may lead to: pairs of a frame and the         *)
(* failures used.                                                          *)
Outcomes(z, f, actions) ==
    LET fallible == {n \in DOMAIN actions :
                        /\ "storeFails" \in Disturbances /\ left.failure > 0
                        /\ Writes(z, f, actions[n])}
    IN  {<<ApplyActions(z, f, actions), 0>>}
          \cup {<<FailAction(z, f, actions, n), 1>> : n \in fallible}

AdoptAndApply(z, f, e, d) == Outcomes(z, [f EXCEPT !.c = Adopt(f.c, d, e)], d.actions)

DecideAndApply(z, f, e) == AdoptAndApply(z, f, e, Decide(Input(z, f), e))

Quiet(f) == {<<f, 0>>}

-----------------------------------------------------------------------------
(* The shared OFF operation. *)

(* A failed operation is never repeated, a proven one only when the        *)
(* actuator is no longer seen closed.                                      *)
BeginOffOperation(z, f) ==
    IF \/ f.c.offOperation = "failed"
       \/ f.c.offOperation = "proven" /\ Assessment(z).provenOff
    THEN [f EXCEPT !.c.sessionTask = "resting", !.c.inflightOn = NoMarker]
    ELSE [f EXCEPT !.c.sessionTask = "off", !.c.offOperation = "running",
                   !.c.offRun = [phase |-> "call", attempt |-> 1, deadline |-> NoTime]]

OffOperationActive(c) == c.offOperation = "running"

(* The future gets its result even when a new pulse no longer refers to    *)
(* it; its waiter, the session task, goes on either way.                   *)
EndOffOperation(f, result) ==
    [f EXCEPT !.c.offOperation = IF @ = "running" THEN result ELSE @,
              !.c.offRun = NoOffRun, !.c.sessionTask = "resting",
              !.c.inflightOn = NoMarker]

-----------------------------------------------------------------------------
(* The ON command envelope. *)

ConfigurationAuthority(c, s) ==
    /\ AdmissionOpen(s)
    /\ c.eligible /\ ~c.persistFailed
    /\ c.session # NoSession /\ c.session.intent # NoTime

AutoOnGuards(c) ==
    /\ c.obs.class = "VALID" /\ IsFresh(c.obs, now)
    /\ c.session.freshUntil # NoTime /\ c.session.freshUntil > now
    /\ c.session.cycle \in 1 .. MaxCycles
    /\ SessionFits(c.session)
    /\ c.daily + PulseDuration <= MaxDailyRuntime
    /\ \/ ~(c.session.cycle = 1 /\ c.session.runtime = 0) \/ c.lastEnd = NoTime
       \/ now - c.lastEnd >= MinSessionInterval

ManualOnGuards(c) ==
    /\ c.session.effective > 0
    /\ c.session.effective <= ManualMaxDuration
    /\ c.session.effective <= MaxSessionRuntime
    /\ c.daily + c.session.effective <= MaxDailyRuntime

FinalOnGuards(c) ==
    /\ c.state = "WATERING" /\ c.session # NoSession
    /\ c.enabled
    /\ c.session.intent # NoTime /\ c.session.pending = NoReason
    /\ ~c.offRequested /\ ~OffOperationActive(c)
    /\ c.fault = NoFault \/ (c.session.mode = "MANUAL" /\ c.fault \in SensorFaults)
    /\ IF c.session.mode = "AUTO" THEN AutoOnGuards(c) ELSE ManualOnGuards(c)

OnAuthority(z, f) ==
    /\ ConfigurationAuthority(f.c, f.s)
    /\ f.s.owner = z /\ f.s.blockers = {}
    /\ FinalOnGuards(f.c)

AuthorizeOn(z, f) ==
    /\ OnAuthority(z, f)
    /\ f.c.inflightOn = NoMarker
    /\ Assessment(z).available /\ Assessment(z).provenOff

RecheckOn(z, f) == f.c.inflightOn.mine /\ OnAuthority(z, f)
RecheckConfiguration(f) == f.c.inflightOn.mine /\ ConfigurationAuthority(f.c, f.s)

(* A controller that may no longer command gives up its timers for good. *)
Quiesce(f) ==
    IF f.c.eligible /\ ~f.c.persistFailed THEN f
    ELSE [f EXCEPT !.c.eligible = FALSE, !.c.pendingManual = 0,
                   !.c.timers = {}, !.c.watchdog = NoToken]

RefusalEvent(z, f) ==
    LET c == f.c IN
    CASE ~ConfigurationAuthority(c, f.s) -> Event("ConfigChangedPrepare")
      [] ConfigurationAuthority(c, f.s) /\ ~Assessment(z).provenOff ->
           IF Assessment(z).available THEN Event("OnConfirmTimeout")
           ELSE Event("ActuatorBecameUnavailable")
      [] OTHER ->
           IF FinalOnGuards(c) \/ c.session.mode # "AUTO" THEN Event("ConfigChangedPrepare")
           ELSE IF c.obs.class # "VALID" THEN Report(c.obs)
           ELSE IF c.armedWatchdog # NoToken /\ c.session.freshUntil <= now
           THEN Watchdog(c.armedWatchdog)
           ELSE Event("ConfigChangedPrepare")

(* The final gate, with the lock held; the ON call starts in the same step *)
(* or not at all.                                                          *)
FinalGate(z, f) ==
    LET c == f.c
        back == [f EXCEPT !.c.sessionTask = "resting"]
    IN
    IF c.session = NoSession \/ c.state # "WATERING" \/ c.session.pending # NoReason
    THEN Quiet(back)
    ELSE IF c.session.mode = "AUTO" /\ c.session.freshUntil <= now
    THEN DecideAndApply(z, back, Watchdog(c.armedWatchdog))
    ELSE IF ~AuthorizeOn(z, f)
    THEN DecideAndApply(z, Quiesce(back), RefusalEvent(z, f))
    ELSE Quiet([f EXCEPT !.c.sessionTask = "call",
                         !.c.inflightOn = [at |-> now, seen |-> NoTime, mine |-> TRUE]])

CompensationEvent(f, configurationChanged, serviceFailed) ==
    LET c == f.c IN
    IF configurationChanged THEN Event("ConfigChangedPrepare")
    ELSE IF serviceFailed \/ c.session.mode # "AUTO" \/ c.armedWatchdog = NoToken
    THEN Event("OnConfirmTimeout")
    ELSE IF c.session.freshUntil <= now THEN Watchdog(c.armedWatchdog)
    ELSE IF c.obs.class # "VALID" THEN Report(c.obs)
    ELSE Event("OnConfirmTimeout")

(* Commit the terminal reason without persisting, then start OFF.  Only    *)
(* session, state and fault of the decision count; a decision that asks    *)
(* for more than Persist and OFF raises, which ends the session task.  None *)
(* of these decisions leaves WATERING, so timers and watchdog stay.        *)
AdoptTermination(z, f, d) ==
    LET g == [f EXCEPT !.c.state = d.state, !.c.fault = d.fault,
                       !.c.session = IF d.session # NoSession THEN d.session ELSE @]
    IN  IF \E n \in DOMAIN d.actions : d.actions[n] \notin {Persist, ExecuteOff}
        THEN [g EXCEPT !.c.sessionTask = "resting", !.c.inflightOn = NoMarker]
        ELSE BeginOffOperation(z, [g EXCEPT !.c.offRequested = FALSE])

Compensate(z, f, configurationChanged, serviceFailed) ==
    IF f.c.session = NoSession
    THEN BeginOffOperation(z, [f EXCEPT !.c.offRequested = FALSE])
    ELSE AdoptTermination(z, f,
           Decide(Input(z, f), CompensationEvent(f, configurationChanged, serviceFailed)))

(* The possible command is anchored before anything is awaited. *)
RecordPossibleCommand(c) ==
    IF c.inflightOn.mine /\ c.session.commanded = NoTime
    THEN [c EXCEPT !.session.commanded = c.inflightOn.at] ELSE c

(* The service call is over, without the lock. *)
AfterOnCall(z, f, serviceFailed) ==
    LET g == [f EXCEPT !.c = RecordPossibleCommand(f.c)]
    IN  IF serviceFailed \/ ~RecheckOn(z, g)
        THEN Compensate(z, Quiesce(g), ~RecheckConfiguration(g), serviceFailed)
        ELSE [Post(g, Event("CommandCommit")) EXCEPT !.c.sessionTask = "commit"]

(* What follows if the authority still stands, or the compensation. *)
Recheck(z, f, outcomes) ==
    IF RecheckOn(z, f) THEN outcomes
    ELSE Quiet(Compensate(z, Quiesce(f), ~RecheckConfiguration(f), FALSE))

Finish(f) == [f EXCEPT !.c.sessionTask = "resting", !.c.inflightOn = NoMarker]

(* The acknowledgement that came in during the call is decided upon. *)
Acknowledge(z, f) ==
    IF f.c.inflightOn.seen = NoTime THEN Quiet(Finish(f))
    ELSE UNION {{<<r[1], r[2] + o[2]>> : r \in Recheck(z, o[1], Quiet(Finish(o[1])))} :
                  o \in DecideAndApply(z, f, At("OnConfirmed", f.c.inflightOn.seen))}

(* With the lock again: persist the commanded anchor, then take the        *)
(* acknowledgement.                                                        *)
CommandCommit(z, f) ==
    LET failed == Compensate(z, HandlePersistFailure(z, f), FALSE, TRUE)
        mayFail == "storeFails" \in Disturbances /\ left.failure > 0
    IN  Recheck(z, f, Acknowledge(z, f) \cup (IF mayFail THEN {<<failed, 1>>} ELSE {}))

-----------------------------------------------------------------------------
(* What a task does once it has the zone's lock. *)

Changed(prev, cur, terminal) ==
    [kind |-> "ActuatorChange", prev |-> prev, cur |-> cur, terminal |-> terminal,
     at |-> now]

(* Slip: OFF evidence counts even while an ON command is in flight. *)
ActuatorChangeAtOnce(z, f, m) ==
    CASE ~m.cur.available ->
           IF f.c.state \in {"WATERING", "SOAKING"}
           THEN DecideAndApply(z, f, Event("ActuatorBecameUnavailable")) ELSE Quiet(f)
      [] m.cur.available /\ m.cur.observedOn ->
           IF f.c.inflightOn # NoMarker \/ f.c.state = "WATERING" THEN Quiet(f)
           ELSE DecideAndApply(z, f, Event("ExternalActuatorOn"))
      [] m.cur.provenOff -> DecideAndApply(z, f, At("ExternalActuatorOff", m.at))
      [] OTHER -> Quiet(f)

(* ON evidence during a command of our own waits for that command.  OFF    *)
(* evidence clears the zone's not-proven-off key first, and a failure of   *)
(* that write drops the rest.                                              *)
ActuatorChange(z, f, m) ==
    LET c == f.c
        ourConfirmation ==
            /\ m.terminal
            /\ c.session.commanded # NoTime /\ c.session.confirmed = NoTime
            /\ c.session.pending = NoReason /\ ~OffOperationActive(c)
        key == <<z, "actuator_not_proven_off">>
        cleared == [f EXCEPT !.s = BlockerGone(f.s, key)]
        writeFails == key \in f.s.blockers /\ "storeFails" \in Disturbances /\ left.failure > 0
    IN
    CASE ~m.cur.available ->
           IF c.state \in {"WATERING", "SOAKING"}
           THEN DecideAndApply(z, f, Event("ActuatorBecameUnavailable")) ELSE Quiet(f)
      [] m.cur.observedOn ->
           IF c.inflightOn # NoMarker THEN Quiet(f)
           ELSE IF c.state = "WATERING" /\ c.session # NoSession
           THEN IF ourConfirmation THEN DecideAndApply(z, f, At("OnConfirmed", m.at))
                ELSE Quiet(f)
           ELSE DecideAndApply(z, f, Event("ExternalActuatorOn"))
      [] m.cur.provenOff ->
           (IF writeFails THEN {<<f, 1>>} ELSE {})
             \cup (IF m.prev.provenOff \/ OffOperationActive(c) \/ c.inflightOn # NoMarker
                   THEN Quiet(cleared)
                   ELSE DecideAndApply(z, cleared, At("ExternalActuatorOff", m.at)))
      [] OTHER -> Quiet(f)

Then(outcomes, next(_)) == {<<next(o[1]), o[2]>> : o \in outcomes}

(* The observation is adopted even when nothing may be decided from it. *)
Moisture(z, f, m) ==
    LET g == [f EXCEPT !.c.obs = m.obs]
    IN  IF g.c.eligible THEN DecideAndApply(z, g, m) ELSE Quiet(g)

Handle(z, f, m) ==
    CASE m.kind = "MoistureReport" -> Moisture(z, f, m)
      [] m.kind = "ActuatorChange" -> ActuatorChange(z, f, m)
      [] m.kind = "FinalGate" -> FinalGate(z, f)
      [] m.kind = "CommandCommit" -> CommandCommit(z, f)
      [] m.kind \in {"EnableRequested", "DisableRequested"} ->
           DecideAndApply(z, [f EXCEPT !.c.enabled = m.kind = "EnableRequested"], m)
      [] m.kind = "OffConfirmed" ->
           Then(DecideAndApply(z, f, m), LAMBDA g : EndOffOperation(g, "proven"))
      [] m.kind = "OffNotConfirmed" ->
           Then(DecideAndApply(z, f, m), LAMBDA g : EndOffOperation(g, "failed"))
      [] m.kind = "SlotOffer" ->
           Then(DecideAndApply(z, f, m.event), LAMBDA g : [g EXCEPT !.c.slotTask = "none"])
      [] OTHER -> DecideAndApply(z, f, m)

Granted(z) == zone[z].slotTask = "waiting" /\ slots.future[z] = "granted"

(* A slot task whose grant has come is already in the loop's ready queue   *)
(* and joins the lock's queue before anything that is still to happen.     *)
NoGrantDue == \A z \in Zones : ~Granted(z)

Spend(kind, n) == left' = [left EXCEPT ![kind] = @ - n]

Deliver(z) ==
    /\ NoGrantDue
    /\ zone[z].inbox # << >>
    /\ LET m == Head(zone[z].inbox)
           f == [Frame(z) EXCEPT !.c.inbox = Tail(zone[z].inbox)]
       IN  \E o \in Handle(z, f, m) :
             /\ Commit(z, o[1])
             /\ Spend("failure", o[2])
             /\ latent' = [latent EXCEPT
                             ![z] = @ \/ (m.kind = "FinalGate" /\ o[1].c.sessionTask = "call")]
    /\ UNCHANGED <<now, water, view, flowed>>

-----------------------------------------------------------------------------
(* The zone's tasks between two acquisitions of the lock. *)

OnlyZone == UNCHANGED <<now, water, view, latent, flowed, left>>

(* The session-owner task looks for work: ON before OFF. *)
RunSession(z) ==
    LET f == Frame(z) IN
    /\ NoGrantDue
    /\ f.c.sessionTask = "resting"
    /\ \/ /\ f.c.onRequested
          /\ Commit(z, [Post(f, Event("FinalGate")) EXCEPT !.c.onRequested = FALSE,
                                                           !.c.sessionTask = "gate"])
       \/ /\ ~f.c.onRequested /\ f.c.offRequested
          /\ Commit(z, BeginOffOperation(z, [f EXCEPT !.c.offRequested = FALSE]))
    /\ OnlyZone

OnReturns(z) ==
    /\ NoGrantDue
    /\ zone[z].sessionTask = "call"
    /\ \E serviceFailed \in BOOLEAN :
         /\ serviceFailed => "onRaises" \in Disturbances /\ left.disturb > 0
         /\ Commit(z, AfterOnCall(z, Frame(z), serviceFailed))
         /\ Spend("disturb", IF serviceFailed THEN 1 ELSE 0)
    /\ UNCHANGED <<now, water, view, latent, flowed>>

(* Slip: the attempts are not counted. *)
OffAttemptEndsNever(z, c) ==
    IF Assessment(z).provenOff
    THEN [Send(c, At("OffConfirmed", now)) EXCEPT !.offRun.phase = "reporting"]
    ELSE [c EXCEPT !.offRun = [phase |-> "call", attempt |-> @.attempt + 1,
                               deadline |-> NoTime]]

(* An OFF attempt ends with proof, with another attempt, or with none. *)
OffAttemptEnds(z, c) ==
    CASE Assessment(z).provenOff ->
           [Send(c, At("OffConfirmed", IF c.offProvenAt # NoTime THEN c.offProvenAt ELSE now))
              EXCEPT !.offRun.phase = "reporting"]
      [] ~Assessment(z).provenOff /\ c.offRun.attempt < OffTotalAttempts ->
           [c EXCEPT !.offRun = [phase |-> "call", attempt |-> @.attempt + 1,
                                 deadline |-> NoTime]]
      [] OTHER ->
           [Send(c, Event("OffNotConfirmed")) EXCEPT !.offRun.phase = "reporting"]

(* The OFF service call returns or raises; either way the state is read    *)
(* again.  A device executes its commands in order: from here on an older  *)
(* ON command cannot take effect any more.                                 *)
OffReturns(z) ==
    LET c == zone[z] IN
    /\ NoGrantDue
    /\ c.offRun.phase = "call"
    /\ Commit(z, [Frame(z) EXCEPT !.c =
                    IF Assessment(z).provenOff THEN OffAttemptEnds(z, c)
                    ELSE [c EXCEPT !.offRun.phase = "wait",
                                   !.offRun.deadline = now + ActuatorConfirmTimeout]])
    /\ latent' = [latent EXCEPT ![z] = FALSE]
    /\ UNCHANGED <<now, water, view, flowed, left>>

OffWakes(z) ==
    LET c == zone[z] IN
    /\ NoGrantDue
    /\ \/ c.offRun.phase = "woken"
       \/ c.offRun.phase = "wait" /\ c.offRun.deadline <= now
    /\ Commit(z, [Frame(z) EXCEPT !.c = OffAttemptEnds(z, c)])
    /\ OnlyZone

(* The slot task finds its request granted. *)
SlotOffered(z) ==
    LET f == Frame(z)
        c == f.c
        event == IF c.pendingManual = 0 THEN Event("SlotGranted") ELSE Manual(c.pendingManual)
    IN
    /\ Granted(z)
    /\ Commit(z, IF c.eligible
                 THEN [Post(f, [kind |-> "SlotOffer", event |-> event])
                         EXCEPT !.c.slotTask = "offering", !.c.pendingManual = 0]
                 ELSE [f EXCEPT !.c.slotTask = "none", !.s = Release(f.s, z)])
    /\ OnlyZone

TimerEvents ==
    [PULSE_END |-> "PulseDeadlineReached", MANUAL_END |-> "ManualDeadlineReached",
     SOAK_END |-> "SoakDeadlineReached", GRACE |-> "GraceDeadlineReached",
     ON_CONFIRM_TIMEOUT |-> "OnConfirmTimeout"]

TimerFires(z) ==
    \E t \in zone[z].timers :
      /\ NoGrantDue
      /\ t[2] <= now
      /\ Commit(z, [Post(Frame(z), Event(TimerEvents[t[1]])) EXCEPT !.c.timers = @ \ {t}])
      /\ OnlyZone

WatchdogFires(z) ==
    LET token == zone[z].watchdog IN
    /\ NoGrantDue
    /\ token # NoToken /\ token.deadline <= now
    /\ Commit(z, [Post(Frame(z), Watchdog(token)) EXCEPT !.c.watchdog = NoToken])
    /\ OnlyZone

-----------------------------------------------------------------------------
(* The outside world. *)

Reported(w, v) == IF v # "settled" THEN v ELSE IF w = "closed" THEN "off" ELSE "on"

(* The state callback of the actuator: it notes OFF evidence and our own   *)
(* ON at once, and leaves the rest to a task that needs the lock.          *)
OnActuatorEvent(c, z, w, v, own) ==
    LET cur == Assess(w, v) IN
    IF Reported(w, v) = Reported(water[z], view[z]) THEN c
    ELSE [Send(c, Changed(Assessment(z), cur, IsTerminalOn(w, v))) EXCEPT
            !.offProvenAt = IF cur.provenOff THEN now ELSE @,
            !.offRun.phase = IF @ = "wait" /\ cur.provenOff THEN "woken" ELSE @,
            !.inflightOn.seen =
                IF own /\ IsTerminalOn(w, v) /\ c.inflightOn # NoMarker THEN now ELSE @]

(* The device changes; a report that it is off means that no ON command    *)
(* is still under way.                                                     *)
Device(z, w, v, own) ==
    /\ water' = [water EXCEPT ![z] = w]
    /\ view' = [view EXCEPT ![z] = v]
    /\ zone' = [zone EXCEPT ![z] = OnActuatorEvent(zone[z], z, w, v, own)]
    /\ latent' = [latent EXCEPT ![z] = @ /\ ~own /\ Reported(w, v) # "off"]
    /\ NoGrantDue
    /\ UNCHANGED <<now, slots, flowed>>

Visibly(z) == IF view[z] = "gone" THEN "gone" ELSE "settled"

Accepting(z) == NoGrantDue /\ Len(zone[z].inbox) < InboxBound

OnLands(z) == latent[z] /\ Device(z, "ours", Visibly(z), TRUE) /\ UNCHANGED left

OffLands(z) ==
    /\ zone[z].offRun.phase \in {"call", "wait", "woken"}
    /\ water[z] # "closed"
    /\ Device(z, "closed", Visibly(z), FALSE)
    /\ UNCHANGED left

Settles(z) ==
    /\ view[z] # "settled" /\ Accepting(z)
    /\ Device(z, water[z], "settled", FALSE)
    /\ UNCHANGED left

May(z, what) == what \in Disturbances /\ left.disturb > 0 /\ Accepting(z)

Disturb(z) ==
    /\ \/ May(z, "turnOn") /\ water[z] = "closed" /\ Device(z, "theirs", Visibly(z), FALSE)
       \/ May(z, "turnOff") /\ water[z] # "closed" /\ Device(z, "closed", Visibly(z), FALSE)
       \/ May(z, "vanish") /\ view[z] # "gone" /\ Device(z, water[z], "gone", FALSE)
       \/ /\ May(z, "move") /\ view[z] = "settled"
          /\ latent[z] \/ zone[z].offRun.phase # "idle"
          /\ \E v \in {"moving", "partial"} : Device(z, water[z], v, FALSE)
    /\ Spend("disturb", 1)

(* The reconciliation coordinator closes and reopens the barrier. *)
Reconcile ==
    /\ "barrier" \in Disturbances /\ NoGrantDue
    /\ \/ slots.barrier = {} /\ slots' = SetBarrier(slots, {"dirty"}) /\ Spend("disturb", 1)
       \/ slots.barrier # {} /\ slots' = SetBarrier(slots, {}) /\ UNCHANGED left
    /\ left.disturb > 0 \/ slots.barrier # {}
    /\ UNCHANGED <<now, zone, water, view, latent, flowed>>

SensorReports(z) ==
    /\ left.report > 0 /\ Accepting(z)
    /\ \E o \in Observations :
         Commit(z, Post(Frame(z), Report(ClassifyMoisture(o, now))))
    /\ Spend("report", 1)
    /\ UNCHANGED <<now, water, view, latent, flowed>>

(* The sensor's stored state: what it reported last, which may still be on *)
(* its way to the controller.                                              *)
Stored(z) ==
    LET c == zone[z]
        reports == {n \in DOMAIN c.inbox : c.inbox[n].kind = "MoistureReport"}
        last == {n \in reports : \A k \in reports : k <= n}
    IN  IF reports = {} THEN {c.obs} ELSE {c.inbox[n].obs : n \in last}

(* The fallback scan judges the sensor's stored state anew and has it      *)
(* decided upon, changed or not; the report keeps its own time.            *)
FallbackScan(z) ==
    /\ left.scan > 0 /\ Accepting(z)
    /\ \E o \in Stored(z) :
         Commit(z, Post(Frame(z), Report(ClassifyMoisture(o, o.at))))
    /\ Spend("scan", 1)
    /\ UNCHANGED <<now, water, view, latent, flowed>>

(* A user's or Home Assistant's request.  A manual start and an evaluation *)
(* (by a button, a service or at midnight) are refused at the door when    *)
(* the controller is quiescing.                                            *)
UserRequests(z) ==
    /\ left.command > 0 /\ Accepting(z)
    /\ \E e \in Commands :
         /\ e.kind \in {"ManualStartRequested", "AutoEvaluate"} => zone[z].eligible
         /\ Commit(z, Post(Frame(z), e))
    /\ Spend("command", 1)
    /\ UNCHANGED <<now, water, view, latent, flowed>>

(* Nothing of this zone is ready to run or overdue. *)
AtRest(z) ==
    LET c == zone[z] IN
    /\ c.inbox = << >>
    /\ c.sessionTask = "resting" => ~c.onRequested /\ ~c.offRequested
    /\ c.sessionTask = "call" => "on" \in SlowCalls
    /\ c.offRun.phase = "call" => "off" \in SlowCalls
    /\ c.offRun.phase # "woken"
    /\ c.offRun.phase = "wait" => c.offRun.deadline > now
    /\ \A t \in c.timers : t[2] > now
    /\ c.watchdog # NoToken => c.watchdog.deadline > now

(* A device that is not deaf closes before the OFF operation loses         *)
(* patience.                                                               *)
Obeyed(z) ==
    "deaf" \in Disturbances \/ zone[z].offRun.phase # "wait" \/ water[z] = "closed"

(* The event loop is fast: the clock moves only when it has nothing to do. *)
Tick ==
    /\ now < MaxTime
    /\ NoGrantDue
    /\ \A z \in Zones : AtRest(z) /\ Obeyed(z)
    /\ now' = now + 1
    /\ flowed' = [z \in Zones |-> flowed[z] + IF water[z] = "ours" THEN 1 ELSE 0]
    /\ UNCHANGED <<zone, slots, water, view, latent, left>>

(* The end of the bounded run; anything else that cannot move on is a      *)
(* deadlock.                                                               *)
TimeIsUp == now = MaxTime /\ NoGrantDue /\ (\A z \in Zones : AtRest(z)) /\ UNCHANGED vars

-----------------------------------------------------------------------------
(* After setup: grants are on, and an actuator that setup could not see    *)
(* has its blocker.                                                        *)
Init ==
    \E unseen \in SUBSET (IF "vanish" \in Disturbances THEN Zones ELSE {}) :
      /\ now = 0
      /\ zone = [z \in Zones |-> Fresh]
      /\ slots = [InitialSlots EXCEPT
                    !.grantsEnabled = TRUE,
                    !.blockers = {<<z, "actuator_not_proven_off">> : z \in unseen}]
      /\ water = [z \in Zones |-> "closed"]
      /\ view = [z \in Zones |-> IF z \in unseen THEN "gone" ELSE "settled"]
      /\ latent = [z \in Zones |-> FALSE]
      /\ flowed = [z \in Zones |-> 0]
      /\ left = Budget

ZoneStep(z) ==
    \/ Deliver(z) \/ RunSession(z) \/ OnReturns(z) \/ OffReturns(z) \/ OffWakes(z)
    \/ SlotOffered(z) \/ TimerFires(z) \/ WatchdogFires(z)

WorldStep(z) ==
    \/ OnLands(z) \/ OffLands(z) \/ Settles(z) \/ Disturb(z)
    \/ SensorReports(z) \/ FallbackScan(z) \/ UserRequests(z)

Next ==
    \/ \E z \in Zones : ZoneStep(z) \/ WorldStep(z)
    \/ Reconcile
    \/ Tick
    \/ TimeIsUp

Spec == Init /\ [][Next]_vars

-----------------------------------------------------------------------------
(* Properties. *)

Keys == Zones \X {"external_flow", "integration_off_unconfirmed", "actuator_not_proven_off"}

(* The clock, the device, the slot and every controller keep their types. *)
TypeOK ==
    /\ now \in 0 .. MaxTime
    /\ water \in [Zones -> {"closed", "ours", "theirs"}]
    /\ view \in [Zones -> Views]
    /\ latent \in [Zones -> BOOLEAN]
    /\ slots.owner \in Zones \cup {NoZone} /\ slots.blockers \subseteq Keys
    /\ \A z \in Zones :
         LET c == zone[z] IN
         /\ c.state \in States /\ c.fault \in Faults \cup {NoFault}
         /\ c.summary \in Reasons \cup {NoReason}
         /\ c.session = NoSession \/ c.session.pending \in Reasons \cup {NoReason}
         /\ c.offOperation \in {"none", "running", "proven", "failed"}
         /\ c.offRun.phase \in {"idle", "call", "wait", "woken", "reporting"}
         /\ c.sessionTask \in {"resting", "gate", "call", "commit", "off"}
         /\ c.slotTask \in {"none", "waiting", "offering"}

(* Water that this integration turned on is always fenced: its zone holds  *)
(* the slot, or its OFF-unconfirmed blocker keeps everybody else away.     *)
FlowFenced ==
    \A z \in Zones : water[z] = "ours" =>
        slots.owner = z \/ <<z, "integration_off_unconfirmed">> \in slots.blockers

(* I17: accounting is closed only once the water is off for good. *)
ClosedMeansOff ==
    \A z \in Zones : zone[z].session = NoSession => water[z] # "ours" /\ ~latent[z]

(* I10: a closed session was charged at least the time water flowed. *)
AccountingHonest ==
    \A z \in Zones : zone[z].session = NoSession => zone[z].daily >= flowed[z]

(* While the zone has nothing to do, running water is attended: the ON or  *)
(* OFF call is under way, or the timer is armed that ends this phase.      *)
WaterAttended ==
    \A z \in Zones :
      LET c == zone[z]
          endOf == IF c.session.confirmed = NoTime THEN {"ON_CONFIRM_TIMEOUT"}
                   ELSE {"PULSE_END", "MANUAL_END"}
      IN  AtRest(z) /\ c.state = "WATERING" =>
            \/ c.sessionTask \in {"call", "off"}
            \/ c.session.pending = NoReason /\ \E t \in c.timers : t[1] \in endOf

(* I30: an AUTO pulse that nobody ends is covered by the newest VALID      *)
(* report the zone processed, and by a watchdog for that report's expiry.  *)
FreshWhileWatering ==
    \A z \in Zones :
      LET c == zone[z] IN
      c.state = "WATERING" /\ c.session.mode = "AUTO" /\ c.session.pending = NoReason =>
        /\ AtRest(z) => c.session.freshUntil > now
        /\ c.obs.class = "VALID" => c.session.freshUntil = c.obs.at + SensorMaxAge
        /\ c.watchdog = Token(c.session.generation, c.session.freshUntil)
           \/ \E n \in DOMAIN c.inbox : c.inbox[n] = Watchdog(c.armedWatchdog)

(* I22: the first terminal request owns the reason; only an actuator that  *)
(* cannot be proven off supersedes it.                                     *)
FirstReasonWins ==
    [][ \A z \in Zones :
          LET was == zone[z].session
              is == zone'[z].session
          IN  was # NoSession /\ was.pending # NoReason =>
                IF is = NoSession THEN zone'[z].summary = was.pending
                ELSE is.pending \in {was.pending, "ACTUATOR_FAULT"} ]_vars

KnownFlow(z) ==
    /\ Assessment(z).observedOn
    /\ \A n \in DOMAIN zone[z].inbox : zone[z].inbox[n].kind # "ActuatorChange"

Dispatched(z) == zone[z].inflightOn = NoMarker /\ zone'[z].inflightOn # NoMarker

(* I19 as SPECIFICATION.md has it: no zone is commanded ON while the valve *)
(* of another one is observed ON, whoever turned it on.                    *)
SerializedFlow ==
    [][ \A y, z \in Zones : y # z /\ Dispatched(z) => ~KnownFlow(y) ]_vars

(* Somebody turned the valve on during the soak, and the write that        *)
(* precedes the zone's blocker failed.                                     *)
UnsavedFence(z) ==
    /\ zone[z].persistFailed /\ zone[z].session # NoSession
    /\ zone[z].session.pending = "EXTERNAL_ACTUATOR_STATE_CHANGE"

(* I19, I21, but for an unsaved fence: an ON command is dispatched only    *)
(* while no other zone's water is known to flow, whoever turned it on, and *)
(* no ON command of another zone may still reach its valve: two zones      *)
(* never water together.                                                   *)
NoOnIntoKnownFlow ==
    [][ \A y, z \in Zones :
          y # z /\ Dispatched(z) =>
            /\ KnownFlow(y) => UnsavedFence(y)
            /\ water[y] # "ours" /\ ~latent[y] ]_vars

(* I9, I10: an ON command is dispatched only if the day's budget still     *)
(* holds a whole run on top of the time water has really flowed.           *)
BudgetCoversFlow ==
    [][ \A z \in Zones :
          LET s == zone[z].session
              run == IF s.mode = "AUTO" THEN PulseDuration ELSE s.effective
          IN  Dispatched(z) => flowed[z] + run <= MaxDailyRuntime ]_vars

(* Liveness.  Time passes, and the event loop runs what is ready: weak     *)
(* fairness of ZoneStep, whose enabling condition is spelled out (a zone   *)
(* that is not at rest, calls that take no time).                          *)
FairSpec ==
    /\ Spec
    /\ WF_vars(Tick)
    /\ \A z \in Zones : ([]<>AtRest(z)) \/ ([]<><<ZoneStep(z)>>_vars)

(* A committed termination leaves WATERING, whatever the device does, in   *)
(* the time of all OFF attempts (the clock must not stop before).          *)
TerminationCompletes ==
    \A z \in Zones :
      (/\ zone[z].state = "WATERING" /\ zone[z].session.pending # NoReason
       /\ now + OffTotalAttempts * ActuatorConfirmTimeout <= MaxTime)
        ~> zone[z].state # "WATERING"

(* The longest run of water: unconfirmed, then a pulse or a manual run. *)
LongestRun ==
    ActuatorConfirmTimeout
      + IF PulseDuration > ManualMaxDuration THEN PulseDuration ELSE ManualMaxDuration

(* Water that this integration turned on stops, or every OFF attempt was   *)
(* made in vain and the failure stands as a blocker of all further water.  *)
WaterStops ==
    \A z \in Zones :
      (/\ water[z] = "ours"
       /\ now + LongestRun + OffTotalAttempts * ActuatorConfirmTimeout <= MaxTime)
        ~> \/ water[z] # "ours"
           \/ <<z, "integration_off_unconfirmed">> \in slots.blockers
=============================================================================
