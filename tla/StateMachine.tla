---------------------------- MODULE StateMachine ----------------------------
(***************************************************************************)
(* The pure controller core, decide(TransitionInput) -> Decision, of       *)
(* state_machine.py.  Nothing here has state: Decide(i, e) maps a zone's   *)
(* current fields i and one event e to the decision, with the row of the   *)
(* transition table that was taken.                                        *)
(*                                                                         *)
(* Times and durations are naturals in one unit; NoTime stands for a       *)
(* timestamp that is None.  A decision carries the resulting state,        *)
(* session and fault, the closed session when the decision ends one, and   *)
(* the controller actions in the order the code lists them.  The Emit      *)
(* actions (event-bus notifications), the identity strings of a session    *)
(* and its estimation marks have no influence on control and are left out. *)
(***************************************************************************)
EXTENDS Integers, Sequences

CONSTANTS
    PulseDuration, SoakDuration, MaxCycles, MaxSessionRuntime,
    MaxDailyRuntime, MinSessionInterval, SensorMaxAge,
    ActuatorConfirmTimeout, ManualMaxDuration,
    StartThreshold, TargetThreshold

(* What the configuration validation guarantees. *)
ConfigValid ==
    /\ {PulseDuration, SoakDuration, MaxCycles, MinSessionInterval, SensorMaxAge,
        ActuatorConfirmTimeout, ManualMaxDuration} \subseteq Nat \ {0}
    /\ {MaxSessionRuntime, MaxDailyRuntime} \subseteq Nat
    /\ PulseDuration <= MaxSessionRuntime
    /\ PulseDuration <= MaxDailyRuntime
    /\ StartThreshold \in Int /\ TargetThreshold \in Int
    /\ StartThreshold < TargetThreshold

ASSUME ConfigAssumption == ConfigValid

NoTime == -1

States == {"DISABLED", "IDLE", "WATERING", "SOAKING", "FAULT"}
Classes == {"VALID", "STALE", "INVALID", "UNAVAILABLE"}

SensorFaults == {"SENSOR_UNAVAILABLE", "SENSOR_STALE", "SENSOR_INVALID"}
AutoClearingFaults ==
    SensorFaults \cup {"ACTUATOR_UNAVAILABLE", "ACTUATOR_ON_TIMEOUT"}
Faults == AutoClearingFaults \cup
    {"ACTUATOR_OFF_TIMEOUT", "CONFIGURATION_INVALID", "RESTORED_FROM_UNSAFE_STATE"}
NoFault == "none"

CancelReasons ==
    {"USER_STOP", "ZONE_DISABLED", "HOME_ASSISTANT_SHUTDOWN", "CONFIG_RELOAD",
     "CONFIG_CHANGED", "EXTERNAL_ACTUATOR_STATE_CHANGE"}
Reasons == CancelReasons \cup
    {"TARGET_REACHED", "MANUAL_COMPLETE", "MAX_CYCLES", "MAX_SESSION_RUNTIME",
     "DAILY_RUNTIME_LIMIT", "SENSOR_FAULT", "ACTUATOR_FAULT", "RESTART_RECOVERY"}
NoReason == "none"

(* SessionContext.  "recheck_not_before" always equals soakEnds and the    *)
(* grace deadline is soakEnds + SensorMaxAge, so neither is a field.       *)
NoSession == [mode |-> "none"]

NewSession(mode, at) ==
    [mode |-> mode, cycle |-> 0, intent |-> at, commanded |-> NoTime,
     confirmed |-> NoTime, offAt |-> NoTime, soakEnds |-> NoTime,
     freshUntil |-> NoTime, generation |-> 0, runtime |-> 0,
     effective |-> 0, retained |-> NoFault, pending |-> NoReason]

Grace(s) == s.soakEnds + SensorMaxAge

-----------------------------------------------------------------------------
(* Actions of a decision. *)

Persist            == [act |-> "PersistState"]
TurnOn             == [act |-> "TurnOn"]
ExecuteOff         == [act |-> "ExecuteOff"]
RequestSlot        == [act |-> "RequestSlot"]
ReleaseSlot        == [act |-> "ReleaseSlot"]
ScheduleEvaluation == [act |-> "ScheduleEvaluation"]
ArmTimer(k, at)    == [act |-> "ArmTimer", timer |-> k, at |-> at]
ArmWatchdog(t)     == [act |-> "ArmWatchdog", token |-> t]
AddBlocker(r)      == [act |-> "AddBlocker", reason |-> r]
RemoveBlocker(r)   == [act |-> "RemoveBlocker", reason |-> r]
SetExternalOn(b)   == [act |-> "SetExternalOn", on |-> b]

Token(g, at) == [generation |-> g, deadline |-> at]

(* Decisions: NoOp leaves everything, Go moves to a state with actions,    *)
(* With adopts a session, Latch sets a fault, Close ends the session.      *)
NoOp(i) == [row |-> "none", state |-> i.state, session |-> i.session,
            fault |-> i.fault, closed |-> NoSession, reason |-> NoReason,
            actions |-> << >>]

Go(i, row, state, actions) ==
    [NoOp(i) EXCEPT !.row = row, !.state = state, !.actions = actions]
Do(i, actions)   == Go(i, "none", i.state, actions)
With(d, session) == [d EXCEPT !.session = session]
Latch(d, fault)  == [d EXCEPT !.fault = fault]
Close(d, closed, reason) ==
    [d EXCEPT !.session = NoSession, !.closed = closed, !.reason = reason]

-----------------------------------------------------------------------------
(* Guards. *)

IsFresh(obs, now) == obs.at # NoTime /\ obs.at >= now - SensorMaxAge
FreshValid(i) == i.obs.class = "VALID" /\ IsFresh(i.obs, i.now)

IntervalElapsed(i) ==
    i.lastEnd = NoTime \/ i.now - i.lastEnd >= MinSessionInterval

ActuatorReady(i) == i.actuator.available /\ i.actuator.provenOff
DailyFits(i) == i.daily + PulseDuration <= MaxDailyRuntime
SessionFits(s) == s.runtime + PulseDuration <= MaxSessionRuntime
DailyRemaining(i) == MaxDailyRuntime - i.daily

PostQualifies(i) ==
    /\ i.session # NoSession
    /\ i.session.soakEnds # NoTime
    /\ FreshValid(i)
    /\ i.obs.at >= i.session.soakEnds

(* When the fault's cause is gone: the sensor reports, or OFF is observed. *)
Resolved(i) == IF i.fault \in SensorFaults THEN FreshValid(i) ELSE ActuatorReady(i)

-----------------------------------------------------------------------------
(* Rows any state may take. *)

IntegrityLost(i) ==
    Latch(Go(i, "T52", "FAULT", <<Persist>>), "RESTORED_FROM_UNSAFE_STATE")

DecideConfigurationInvalid(i, row) ==
    Latch(Go(i, row, "FAULT", <<Persist>>), "CONFIGURATION_INVALID")

(* Slip: external flow is noted but fences nobody. *)
ExternalFlowUnfenced(i, row, on) == Go(i, row, i.state, <<SetExternalOn(on)>>)

ExternalFlow(i, row, on) ==
    Go(i, row, i.state,
       <<SetExternalOn(on),
         IF on THEN AddBlocker("external_flow") ELSE RemoveBlocker("external_flow")>>)

(* Slip: runtime counts from the confirmation. *)
CloseRuntimeConfirmed(s, offAt, reason) ==
    LET anchor == IF reason = "RESTART_RECOVERY" THEN s.intent ELSE s.confirmed
        delta == IF anchor = NoTime \/ offAt < anchor THEN 0 ELSE offAt - anchor
    IN  [s EXCEPT !.offAt = offAt, !.runtime = s.runtime + delta]

(* The interval from the ON command (from the intent after a restart) to   *)
(* the OFF evidence joins the session's runtime.                           *)
CloseRuntime(s, offAt, reason) ==
    LET anchor == IF reason = "RESTART_RECOVERY" THEN s.intent ELSE s.commanded
        delta == IF anchor = NoTime \/ offAt < anchor THEN 0 ELSE offAt - anchor
    IN  [s EXCEPT !.offAt = offAt, !.runtime = s.runtime + delta]

(* OFF proof that arrives after the session was given up as unconfirmed. *)
CloseOpenAccounting(i, offAt) ==
    LET reason == i.session.pending
    IN  Close(Do(i, <<Persist, RemoveBlocker("integration_off_unconfirmed"), ReleaseSlot>>),
              CloseRuntime(i.session, offAt, reason), reason)

-----------------------------------------------------------------------------
(* Starting water. *)

StartPulse(i, row, session) ==
    LET fresh == i.obs.at + SensorMaxAge
        next == [session EXCEPT
                    !.cycle = session.cycle + 1, !.intent = i.now,
                    !.commanded = NoTime, !.confirmed = NoTime, !.offAt = NoTime,
                    !.soakEnds = NoTime, !.freshUntil = fresh,
                    !.generation = session.generation + 1]
    IN  With(Go(i, row, "WATERING",
                <<Persist, ArmWatchdog(Token(next.generation, fresh)), TurnOn,
                  ArmTimer("ON_CONFIRM_TIMEOUT", i.now + ActuatorConfirmTimeout)>>),
             next)

AutoGuards(i) ==
    /\ i.enabled
    /\ FreshValid(i) /\ i.obs.value < StartThreshold
    /\ IntervalElapsed(i)
    /\ ActuatorReady(i)
    /\ DailyFits(i)

(* A declined offer gives the slot back, but only if this very event is    *)
(* the offer.                                                              *)
EvaluateAutoStart(i, e) ==
    IF ~AutoGuards(i)
    THEN Go(i, "T2", "IDLE", IF e.kind = "SlotGranted" THEN <<ReleaseSlot>> ELSE << >>)
    ELSE IF ~(i.slotGranted /\ i.blockersEmpty) THEN Do(i, <<RequestSlot>>)
    ELSE StartPulse(i, "T1", NewSession("AUTO", i.now))

ManualGuards(i, requested) ==
    /\ requested > 0
    /\ i.enabled
    /\ i.session = NoSession
    /\ i.fault \in SensorFaults \cup {NoFault}
    /\ ActuatorReady(i)
    /\ DailyRemaining(i) > 0
    /\ i.blockersEmpty

ClampManual(i, requested) ==
    LET caps == {requested, ManualMaxDuration, MaxSessionRuntime, DailyRemaining(i)}
    IN  CHOOSE m \in caps : \A c \in caps : m <= c

(* A refusal leaves an offered slot where it is. *)
ManualStart(i, e, row) ==
    IF ~ManualGuards(i, e.seconds)
    THEN Go(i, IF row = "T40" THEN "T41" ELSE "none", i.state, << >>)
    ELSE IF ~i.slotGranted THEN Do(i, <<RequestSlot>>)
    ELSE With(Go(i, row, "WATERING",
                 <<Persist, TurnOn,
                   ArmTimer("ON_CONFIRM_TIMEOUT", i.now + ActuatorConfirmTimeout)>>),
              [NewSession("MANUAL", i.now) EXCEPT
                 !.effective = ClampManual(i, e.seconds),
                 !.retained = IF row = "T40" THEN i.fault ELSE NoFault])

-----------------------------------------------------------------------------
(* IDLE and DISABLED. *)

DecideIdle(i, e) ==
    CASE e.kind \in {"AutoEvaluate", "MoistureReport", "SlotGranted"} ->
           EvaluateAutoStart(i, e)
      [] e.kind = "ManualStartRequested" -> ManualStart(i, e, "T3")
      [] e.kind = "DisableRequested" -> Go(i, "T4", "DISABLED", <<Persist, ReleaseSlot>>)
      [] e.kind = "ConfigurationInvalid" -> DecideConfigurationInvalid(i, "T5")
      [] e.kind = "ExternalActuatorOn" /\ ~i.externalOn -> ExternalFlow(i, "T54", TRUE)
      [] e.kind = "ExternalActuatorOff" /\ i.externalOn -> ExternalFlow(i, "T58", FALSE)
      [] OTHER -> NoOp(i)

DecideDisabled(i, e) ==
    CASE e.kind = "EnableRequested" ->
           IF i.fault # NoFault THEN Go(i, "T46", "FAULT", <<Persist>>)
           ELSE Go(i, "T47", "IDLE", <<Persist, ScheduleEvaluation>>)
      [] e.kind = "ExternalActuatorOn" /\ ~i.externalOn -> ExternalFlow(i, "T55", TRUE)
      [] e.kind = "ExternalActuatorOff" /\ i.externalOn -> ExternalFlow(i, "T59", FALSE)
      [] /\ i.session # NoSession
         /\ \/ e.kind = "OffConfirmed"
            \/ e.kind = "ExternalActuatorOff" /\ ~i.externalOn ->
           CloseOpenAccounting(i, e.at)
      [] OTHER -> NoOp(i)

-----------------------------------------------------------------------------
(* WATERING. *)

(* Slips: the OFF request is left out; reason and fault are swapped.       *)
CommitTerminationOnly(i, reason, fault) ==
    With(Latch(Do(i, <<Persist>>), IF fault = NoFault THEN i.fault ELSE fault),
         [i.session EXCEPT !.pending = reason])

CommitTerminationSwapped(i, reason, fault) ==
    With(Latch(Do(i, <<Persist, ExecuteOff>>), reason), [i.session EXCEPT !.pending = fault])

(* The first terminal request owns the reason; OFF is requested and the    *)
(* zone stays WATERING until OFF evidence arrives.                         *)
CommitTermination(i, reason, fault) ==
    With(Latch(Do(i, <<Persist, ExecuteOff>>), IF fault = NoFault THEN i.fault ELSE fault),
         [i.session EXCEPT !.pending = reason])

(* Slip: only an AUTO pulse gets its timer. *)
DecideOnConfirmedUntimed(i, at) ==
    LET s == i.session
        timed == s.mode = "AUTO" /\ s.pending = NoReason
    IN  With(Do(i, IF timed THEN <<Persist, ArmTimer("PULSE_END", at + PulseDuration)>>
                   ELSE <<Persist>>),
             [s EXCEPT !.confirmed = at])

DecideOnConfirmed(i, at) ==
    LET s == i.session
        timer == IF s.mode = "AUTO" THEN ArmTimer("PULSE_END", at + PulseDuration)
                 ELSE ArmTimer("MANUAL_END", at + s.effective)
    IN  With(Do(i, IF s.pending = NoReason THEN <<Persist, timer>> ELSE <<Persist>>),
             [s EXCEPT !.confirmed = at])

(* Slip: a VALID report during a pulse does not renew its freshness. *)
WateringMoistureIgnored(i, obs) ==
    CASE i.session.mode = "MANUAL" \/ i.session.pending # NoReason -> NoOp(i)
      [] obs.class \in {"INVALID", "UNAVAILABLE"} ->
           CommitTermination(i, "SENSOR_FAULT", "SENSOR_INVALID")
      [] OTHER -> NoOp(i)

WateringMoisture(i, obs) ==
    LET s == i.session
        fresh == obs.at + SensorMaxAge
        token == Token(s.generation + 1, fresh)
    IN  CASE s.mode = "MANUAL" -> Go(i, "T12", "WATERING", << >>)
          [] s.mode # "MANUAL" /\ s.pending # NoReason -> NoOp(i)
          [] s.mode # "MANUAL" /\ s.pending = NoReason /\ obs.class = "VALID" ->
               IF fresh < s.freshUntil THEN NoOp(i)
               ELSE With(Go(i, "T56", "WATERING", <<ArmWatchdog(token)>>),
                         [s EXCEPT !.freshUntil = fresh, !.generation = token.generation])
          [] s.mode # "MANUAL" /\ s.pending = NoReason /\ obs.class = "INVALID" ->
               CommitTermination(i, "SENSOR_FAULT", "SENSOR_INVALID")
          [] s.mode # "MANUAL" /\ s.pending = NoReason /\ obs.class = "UNAVAILABLE" ->
               CommitTermination(i, "SENSOR_FAULT", "SENSOR_UNAVAILABLE")
          [] OTHER -> NoOp(i)

DecideWatchdogFired(i, token) ==
    LET s == i.session IN
    IF s.mode # "AUTO" \/ s.pending # NoReason \/ token # i.armedWatchdog THEN NoOp(i)
    ELSE IF s.freshUntil > i.now
    THEN Do(i, <<ArmWatchdog(Token(s.generation, s.freshUntil))>>)
    ELSE CommitTermination(i, "SENSOR_FAULT", "SENSOR_STALE")

PulseOffToSoaking(i, offAt) ==
    LET soakEnds == offAt + SoakDuration
    IN  With(Go(i, "T6", "SOAKING",
                <<Persist, ArmTimer("SOAK_END", soakEnds), ReleaseSlot>>),
             [CloseRuntime(i.session, offAt, "TARGET_REACHED") EXCEPT !.soakEnds = soakEnds])

(* Where a finished session leaves the zone: <<state, fault>>. *)
PostDestination(i, s, reason) ==
    LET newFault == i.fault # NoFault /\ i.fault # s.retained
    IN  CASE reason = "ZONE_DISABLED" -> <<"DISABLED", i.fault>>
          [] reason \in {"SENSOR_FAULT", "ACTUATOR_FAULT"} ->
               <<IF i.enabled THEN "FAULT" ELSE "DISABLED", i.fault>>
          [] reason \notin {"ZONE_DISABLED", "SENSOR_FAULT", "ACTUATOR_FAULT"} ->
               IF ~i.enabled THEN <<"DISABLED", i.fault>>
               ELSE IF newFault THEN <<"FAULT", i.fault>>
               ELSE IF s.retained = NoFault THEN <<"IDLE", i.fault>>
               ELSE IF FreshValid(i) THEN <<"IDLE", NoFault>>
               ELSE <<"FAULT", s.retained>>

(* T7/T8/T9: a manual run that came to its end. *)
ManualDestination(i, s) ==
    LET recovered == s.retained # NoFault /\ FreshValid(i)
        kept == s.retained # NoFault /\ ~recovered
    IN  <<IF ~i.enabled THEN "DISABLED" ELSE IF kept THEN "FAULT" ELSE "IDLE",
          IF recovered THEN NoFault ELSE IF kept THEN s.retained ELSE i.fault>>

FinalRow(i, s, reason) ==
    CASE reason = "RESTART_RECOVERY" -> "T48"
      [] reason = "SENSOR_FAULT" ->
           [SENSOR_UNAVAILABLE |-> "T10", SENSOR_INVALID |-> "T11",
            SENSOR_STALE |-> "T57"][i.fault]
      [] reason = "ACTUATOR_FAULT" ->
           IF i.fault = "ACTUATOR_UNAVAILABLE" THEN "T13" ELSE "T14"
      [] reason = "MANUAL_COMPLETE" ->
           IF s.retained = NoFault THEN "T7" ELSE IF FreshValid(i) THEN "T9" ELSE "T8"
      [] OTHER ->
           [USER_STOP |-> "T17", ZONE_DISABLED |-> "T18",
            HOME_ASSISTANT_SHUTDOWN |-> "T19", CONFIG_RELOAD |-> "T20",
            CONFIG_CHANGED |-> "T21", EXTERNAL_ACTUATOR_STATE_CHANGE |-> "T16"][reason]

FinalizeWatering(i, reason, offAt, extra) ==
    LET closed == CloseRuntime(i.session, offAt, reason)
        dest == IF reason = "MANUAL_COMPLETE" THEN ManualDestination(i, closed)
                ELSE PostDestination(i, closed, reason)
    IN  Close(Latch(Go(i, FinalRow(i, closed, reason), dest[1],
                       extra \o <<Persist, RemoveBlocker("integration_off_unconfirmed"),
                                  ReleaseSlot>>),
                    dest[2]),
              closed, reason)

OffNotConfirmedWhileWatering(i) ==
    LET restart == i.session.pending = "RESTART_RECOVERY"
        reason == IF restart THEN "RESTART_RECOVERY" ELSE "ACTUATOR_FAULT"
    IN  With(Latch(Go(i, IF restart THEN "T49" ELSE "T15", "FAULT",
                      <<Persist, AddBlocker("integration_off_unconfirmed")>>),
                   "ACTUATOR_OFF_TIMEOUT"),
             [i.session EXCEPT !.pending = reason])

StartupPersistedWatering(i, finding) ==
    LET s == [i.session EXCEPT !.pending = "RESTART_RECOVERY"]
    IN  IF finding = "OFF"
        THEN FinalizeWatering([i EXCEPT !.session = s], "RESTART_RECOVERY", i.now, << >>)
        ELSE With(Do(i, <<Persist, AddBlocker("integration_off_unconfirmed"), ExecuteOff>>), s)

(* Requests that end a session, and the reason each commits. *)
TerminalRequests ==
    [StopRequested |-> "USER_STOP", DisableRequested |-> "ZONE_DISABLED",
     HomeAssistantShutdown |-> "HOME_ASSISTANT_SHUTDOWN",
     ConfigEntryReload |-> "CONFIG_RELOAD", ConfigChangedPrepare |-> "CONFIG_CHANGED"]

DecideWatering(i, e) ==
    LET s == i.session
        open == s.pending = NoReason
    IN
    CASE e.kind = "OnConfirmed" -> DecideOnConfirmed(i, e.at)
      [] e.kind = "OnConfirmTimeout" /\ open /\ s.confirmed = NoTime ->
           CommitTermination(i, "ACTUATOR_FAULT", "ACTUATOR_ON_TIMEOUT")
      [] e.kind = "PulseDeadlineReached" /\ open /\ s.mode = "AUTO" -> Do(i, <<ExecuteOff>>)
      [] e.kind = "ManualDeadlineReached" /\ open /\ s.mode = "MANUAL" ->
           CommitTermination(i, "MANUAL_COMPLETE", NoFault)
      [] e.kind = "MoistureReport" -> WateringMoisture(i, e.obs)
      [] e.kind = "WatchdogFired" -> DecideWatchdogFired(i, e.token)
      [] e.kind \in DOMAIN TerminalRequests /\ open ->
           CommitTermination(i, TerminalRequests[e.kind], NoFault)
      [] e.kind = "ActuatorBecameUnavailable" /\ open ->
           CommitTermination(i, "ACTUATOR_FAULT", "ACTUATOR_UNAVAILABLE")
      [] e.kind = "ExternalActuatorOff" ->
           IF open THEN FinalizeWatering(i, "EXTERNAL_ACTUATOR_STATE_CHANGE", e.at, <<ExecuteOff>>)
           ELSE FinalizeWatering(i, s.pending, e.at, << >>)
      [] e.kind = "OffConfirmed" ->
           IF ~open THEN FinalizeWatering(i, s.pending, e.at, << >>)
           ELSE IF s.mode = "AUTO" THEN PulseOffToSoaking(i, e.at)
           ELSE FinalizeWatering(i, "MANUAL_COMPLETE", e.at, << >>)
      [] e.kind = "OffNotConfirmed" -> OffNotConfirmedWhileWatering(i)
      [] e.kind = "StartupPersistedWatering" -> StartupPersistedWatering(i, e.finding)
      [] OTHER -> NoOp(i)

-----------------------------------------------------------------------------
(* SOAKING. *)

FinalizeSoaking(i, row, state, actions, s, reason) ==
    Close(Go(i, row, state, actions), s, reason)

FinalizeSoakingCompletion(i, row, reason) ==
    FinalizeSoaking(i, row, IF i.enabled THEN "IDLE" ELSE "DISABLED",
                    <<Persist, ReleaseSlot>>, i.session, reason)

FinalizeSoakingFault(i, row, reason, fault) ==
    Latch(FinalizeSoaking(i, row, "FAULT", <<Persist, ReleaseSlot>>, i.session, reason), fault)

FinalizeSoakingCancel(i, row, reason, state) ==
    FinalizeSoaking(i, row, state, <<Persist, ExecuteOff, ReleaseSlot>>, i.session, reason)

FinalizeSoakingExternal(i, offAt) ==
    FinalizeSoaking(i, "T33", IF i.enabled THEN "IDLE" ELSE "DISABLED",
                    <<Persist, RemoveBlocker("integration_off_unconfirmed"), ReleaseSlot>>,
                    CloseRuntime(i.session, offAt, "EXTERNAL_ACTUATOR_STATE_CHANGE"),
                    "EXTERNAL_ACTUATOR_STATE_CHANGE")

SoakingOffNotConfirmed(i) ==
    With(Latch(Go(i, "T34", "FAULT", <<Persist>>), "ACTUATOR_OFF_TIMEOUT"),
         [i.session EXCEPT !.pending = "ACTUATOR_FAULT"])

(* A qualifying post-soak report decides: done, out of budget, or another  *)
(* pulse once the slot is there.                                           *)
SoakingRecheck(i) ==
    LET s == i.session IN
    IF i.obs.value >= TargetThreshold
    THEN FinalizeSoakingCompletion(i, "T24", "TARGET_REACHED")
    ELSE IF ~(s.cycle < MaxCycles) THEN FinalizeSoakingCompletion(i, "T26", "MAX_CYCLES")
    ELSE IF ~SessionFits(s) THEN FinalizeSoakingCompletion(i, "T27", "MAX_SESSION_RUNTIME")
    ELSE IF ~DailyFits(i) THEN FinalizeSoakingCompletion(i, "T28", "DAILY_RUNTIME_LIMIT")
    ELSE IF ~i.actuator.available
    THEN FinalizeSoakingFault(i, "T32", "ACTUATOR_FAULT", "ACTUATOR_UNAVAILABLE")
    ELSE IF ~(i.slotGranted /\ i.blockersEmpty /\ i.actuator.provenOff)
    THEN Do(i, <<RequestSlot>>)
    ELSE StartPulse(i, "T25", s)

EffectiveAt(i, obs) == IF obs.at = NoTime THEN i.now ELSE obs.at

SoakingMoisture(i, obs) ==
    CASE EffectiveAt(i, obs) < i.session.soakEnds -> Go(i, "T22", "SOAKING", << >>)
      [] EffectiveAt(i, obs) >= i.session.soakEnds /\ obs.class = "INVALID" ->
           FinalizeSoakingFault(i, "T29", "SENSOR_FAULT", "SENSOR_INVALID")
      [] EffectiveAt(i, obs) >= i.session.soakEnds /\ obs.class = "UNAVAILABLE" ->
           FinalizeSoakingFault(i, "T30", "SENSOR_FAULT", "SENSOR_UNAVAILABLE")
      [] OTHER -> IF PostQualifies(i) THEN SoakingRecheck(i) ELSE NoOp(i)

SoakingDeadlineOrEvaluate(i, e) ==
    IF i.now < i.session.soakEnds THEN NoOp(i)
    ELSE IF PostQualifies(i) THEN SoakingRecheck(i)
    ELSE CASE e.kind = "SlotGranted" -> Do(i, <<ReleaseSlot>>)
           [] e.kind = "SoakDeadlineReached" ->
                Go(i, "T23", "SOAKING", <<ArmTimer("GRACE", Grace(i.session))>>)
           [] OTHER -> NoOp(i)

SoakingGrace(i) ==
    IF PostQualifies(i) THEN SoakingRecheck(i)
    ELSE IF i.obs.class = "INVALID" /\ EffectiveAt(i, i.obs) >= i.session.soakEnds
    THEN FinalizeSoakingFault(i, "T29", "SENSOR_FAULT", "SENSOR_INVALID")
    ELSE IF i.obs.class = "UNAVAILABLE"
    THEN FinalizeSoakingFault(i, "T30", "SENSOR_FAULT", "SENSOR_UNAVAILABLE")
    ELSE FinalizeSoakingFault(i, "T31", "SENSOR_FAULT", "SENSOR_STALE")

(* T50 keeps the soak of a cleanly stopped run, T51 ends it. *)
StartupPersistedSoaking(i, e) ==
    LET s == i.session
        timers == IF s.soakEnds > i.now THEN <<ArmTimer("SOAK_END", s.soakEnds)>>
                  ELSE IF Grace(s) > i.now THEN <<ArmTimer("GRACE", Grace(s))>>
                  ELSE << >>
    IN  IF e.trusted THEN Go(i, "T50", "SOAKING", <<Persist>> \o timers)
        ELSE IF e.unsafeFault # NoFault
        THEN Latch(FinalizeSoaking(i, "T51", "FAULT", <<Persist>>, s, "RESTART_RECOVERY"),
                   e.unsafeFault)
        ELSE FinalizeSoaking(i, "T51", IF i.enabled THEN "IDLE" ELSE "DISABLED",
                             <<Persist>>, s, "RESTART_RECOVERY")

(* Once interference is committed only OFF evidence moves the session. *)
DecideSoakingPending(i, e) ==
    CASE e.kind \in {"OffConfirmed", "ExternalActuatorOff"} -> FinalizeSoakingExternal(i, e.at)
      [] e.kind = "OffNotConfirmed" -> SoakingOffNotConfirmed(i)
      [] OTHER -> NoOp(i)

DecideSoakingOpen(i, e) ==
    CASE e.kind = "MoistureReport" -> SoakingMoisture(i, e.obs)
      [] e.kind \in {"SoakDeadlineReached", "AutoEvaluate", "SlotGranted"} ->
           SoakingDeadlineOrEvaluate(i, e)
      [] e.kind = "GraceDeadlineReached" -> SoakingGrace(i)
      [] e.kind = "ActuatorBecameUnavailable" ->
           FinalizeSoakingFault(i, "T32", "ACTUATOR_FAULT", "ACTUATOR_UNAVAILABLE")
      [] e.kind = "ExternalActuatorOn" ->
           With(Do(i, <<Persist, AddBlocker("integration_off_unconfirmed"), ExecuteOff>>),
                [i.session EXCEPT !.pending = "EXTERNAL_ACTUATOR_STATE_CHANGE"])
      [] e.kind = "StopRequested" -> FinalizeSoakingCancel(i, "T35", "USER_STOP", "IDLE")
      [] e.kind = "DisableRequested" ->
           FinalizeSoakingCancel(i, "T36", "ZONE_DISABLED", "DISABLED")
      [] e.kind = "HomeAssistantShutdown" -> Go(i, "T37", "SOAKING", <<Persist>>)
      [] e.kind = "ConfigEntryReload" -> FinalizeSoakingCancel(i, "T38", "CONFIG_RELOAD", "IDLE")
      [] e.kind = "ConfigChangedPrepare" ->
           FinalizeSoakingCancel(i, "T39", "CONFIG_CHANGED", "IDLE")
      [] e.kind = "StartupPersistedSoaking" -> StartupPersistedSoaking(i, e)
      [] OTHER -> NoOp(i)

DecideSoaking(i, e) ==
    IF i.session.pending # NoReason THEN DecideSoakingPending(i, e) ELSE DecideSoakingOpen(i, e)

-----------------------------------------------------------------------------
(* FAULT. *)

FaultAutoClear(i) ==
    IF i.fault \in AutoClearingFaults /\ i.session = NoSession /\ Resolved(i)
    THEN Latch(Go(i, "T42", "IDLE", <<Persist>>), NoFault)
    ELSE NoOp(i)

ClearFaultRequest(i) ==
    IF i.fault = NoFault THEN NoOp(i)
    ELSE IF i.fault = "CONFIGURATION_INVALID" \/ ~Resolved(i) THEN Go(i, "T44", "FAULT", << >>)
    ELSE Latch(Go(i, "T43", "IDLE", <<Persist>>), NoFault)

DecideFault(i, e) ==
    CASE e.kind = "ManualStartRequested" -> ManualStart(i, e, "T40")
      [] e.kind = "MoistureReport" -> FaultAutoClear(i)
      [] e.kind = "ExternalActuatorOff" ->
           IF i.session # NoSession THEN CloseOpenAccounting(i, e.at)
           ELSE IF i.externalOn THEN ExternalFlow(i, "none", FALSE)
           ELSE FaultAutoClear(i)
      [] e.kind = "OffConfirmed" /\ i.session # NoSession -> CloseOpenAccounting(i, e.at)
      [] e.kind = "ExternalActuatorOn" /\ ~i.externalOn -> ExternalFlow(i, "none", TRUE)
      [] e.kind = "ClearFaultRequested" -> ClearFaultRequest(i)
      [] e.kind = "DisableRequested" -> Go(i, "T45", "DISABLED", <<Persist, ReleaseSlot>>)
      [] e.kind = "ConfigurationInvalid" /\ i.fault # "CONFIGURATION_INVALID" ->
           DecideConfigurationInvalid(i, "T5")
      [] OTHER -> NoOp(i)

-----------------------------------------------------------------------------

(* Slip: a later terminal request replaces the committed reason. *)
DecideLastReason(i, e) ==
    CASE i.state = "WATERING" /\ e.kind \in DOMAIN TerminalRequests ->
           CommitTermination(i, TerminalRequests[e.kind], NoFault)
      [] i.state = "WATERING" /\ e.kind \notin DOMAIN TerminalRequests -> DecideWatering(i, e)
      [] i.state = "IDLE" -> DecideIdle(i, e)
      [] i.state = "DISABLED" -> DecideDisabled(i, e)
      [] i.state = "SOAKING" -> DecideSoaking(i, e)
      [] i.state = "FAULT" -> DecideFault(i, e)

Decide(i, e) ==
    CASE e.kind = "StoreIntegrityLost" -> IntegrityLost(i)
      [] e.kind = "ConfigurationInvalid" /\ e.atSetup -> DecideConfigurationInvalid(i, "T53")
      [] OTHER ->
           CASE i.state = "IDLE" -> DecideIdle(i, e)
             [] i.state = "DISABLED" -> DecideDisabled(i, e)
             [] i.state = "WATERING" -> DecideWatering(i, e)
             [] i.state = "SOAKING" -> DecideSoaking(i, e)
             [] i.state = "FAULT" -> DecideFault(i, e)
=============================================================================
