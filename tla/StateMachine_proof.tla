------------------------- MODULE StateMachine_proof -------------------------
(***************************************************************************)
(* What decide() promises, for any configuration: the types of a decision, *)
(* under which events a decision may end a session, free the slot, lift    *)
(* the off-unconfirmed fence or turn water on, that it keeps a reason that *)
(* was committed, and that it leaves no zone WATERING without an end.      *)
(***************************************************************************)
EXTENDS StateMachine, SequenceTheorems, TLAPS

FaultOrNone == Faults \cup {NoFault}
ReasonOrNone == Reasons \cup {NoReason}
Tokens == [generation : Int, deadline : Int]
Reports == [class : Classes, value : Int, at : Int]

OpenSessions ==
    [mode : {"AUTO", "MANUAL"}, cycle : Int, intent : Int, commanded : Int,
     confirmed : Int, offAt : Int, soakEnds : Int, freshUntil : Int,
     generation : Int, runtime : Int, effective : Int,
     retained : FaultOrNone, pending : ReasonOrNone]
Sessions == {NoSession} \cup OpenSessions

Actuators == [available : BOOLEAN, provenOff : BOOLEAN, observedOn : BOOLEAN]

(* The fields of a zone that decide() reads.  WATERING and SOAKING own a   *)
(* session.                                                                *)
Owning(state, session) == state \in {"WATERING", "SOAKING"} => session # NoSession
Situations ==
    [now : Int, state : States, enabled : BOOLEAN, session : Sessions,
     fault : FaultOrNone, obs : Reports, daily : Int, lastEnd : Int,
     actuator : Actuators, slotGranted : BOOLEAN, blockersEmpty : BOOLEAN,
     armedWatchdog : Tokens, externalOn : BOOLEAN]

(* The events of a running zone; the ones of startup are not among them.   *)
PlainKinds ==
    {"AutoEvaluate", "SlotGranted", "EnableRequested", "DisableRequested",
     "StopRequested", "ClearFaultRequested", "HomeAssistantShutdown",
     "ConfigEntryReload", "ConfigChangedPrepare", "PulseDeadlineReached",
     "ManualDeadlineReached", "SoakDeadlineReached", "GraceDeadlineReached",
     "OnConfirmTimeout", "ActuatorBecameUnavailable", "ExternalActuatorOn",
     "OffNotConfirmed"}
Events ==
    [kind : PlainKinds]
      \cup [kind : {"OnConfirmed", "OffConfirmed", "ExternalActuatorOff"}, at : Int]
      \cup [kind : {"ManualStartRequested"}, seconds : Int]
      \cup [kind : {"MoistureReport"}, obs : Reports]
      \cup [kind : {"WatchdogFired"}, token : Tokens]
      \cup [kind : {"ConfigurationInvalid"}, atSetup : {FALSE}]

TimerKinds == {"PULSE_END", "MANUAL_END", "SOAK_END", "GRACE", "ON_CONFIRM_TIMEOUT"}
Unconfirmed == "integration_off_unconfirmed"
KeyReasons == {"external_flow", Unconfirmed, "actuator_not_proven_off"}
Actions ==
    [act : {"PersistState", "TurnOn", "ExecuteOff", "RequestSlot", "ReleaseSlot",
            "ScheduleEvaluation"}]
      \cup [act : {"ArmTimer"}, timer : TimerKinds, at : Int]
      \cup [act : {"ArmWatchdog"}, token : Tokens]
      \cup [act : {"AddBlocker", "RemoveBlocker"}, reason : KeyReasons]
      \cup [act : {"SetExternalOn"}, on : BOOLEAN]

Has(d, a) == \E n \in DOMAIN d.actions : d.actions[n] = a

(* The types of a decision; its row is only a label. *)
Typed(d) ==
    /\ d.state \in States /\ d.session \in Sessions /\ d.closed \in Sessions
    /\ d.fault \in FaultOrNone /\ d.reason \in ReasonOrNone
    /\ d.actions \in Seq(Actions)
    /\ Owning(d.state, d.session)

(* The zone's OFF was seen. *)
OffSeen(e) == e.kind \in {"OffConfirmed", "ExternalActuatorOff"}

(* The session ends, the slot is free, the fence falls and water starts    *)
(* only so:                                                                *)
EndsOnEvidence(i, e, d) ==
    d.session = NoSession => i.session = NoSession \/ OffSeen(e) \/ i.state = "SOAKING"
LiftsOnEvidence(e, d) == Has(d, RemoveBlocker(Unconfirmed)) => OffSeen(e)
FreesWhenDry(i, e, d) ==
    Has(d, ReleaseSlot) =>
      \/ OffSeen(e) \/ i.state \in {"IDLE", "SOAKING"}
      \/ (i.state = "FAULT" /\ e.kind = "DisableRequested")
StartsOnGrant(i, d) ==
    (Has(d, TurnOn) \/ (i.state # "WATERING" /\ d.state = "WATERING")) =>
      /\ i.slotGranted /\ i.blockersEmpty /\ d.state = "WATERING" /\ Has(d, TurnOn)
      /\ i.state \in {"IDLE", "SOAKING"} \/ i.session = NoSession
AsksBeforeStart(i, d) ==
    Has(d, RequestSlot) => i.state \in {"IDLE", "SOAKING"} \/ i.session = NoSession

(* Where water runs on: WATERING ends with the OFF operation, or with OFF  *)
(* evidence; a fault with an open session stays.                           *)
StaysWatering(i, e, d) ==
    /\ i.state = "WATERING" /\ ~OffSeen(e) /\ e.kind # "OffNotConfirmed" => d.state = "WATERING"
    /\ e.kind \in {"OffConfirmed", "OffNotConfirmed"} => d.state # "WATERING"
    /\ i.state = "WATERING" /\ e.kind = "OffNotConfirmed" =>
         d.state = "FAULT" /\ Has(d, AddBlocker(Unconfirmed))
SoaksAfterOff(i, e, d) == d.state = "SOAKING" => i.state = "SOAKING" \/ e.kind = "OffConfirmed"
StaysFaulty(i, e, d) ==
    /\ i.state = "FAULT" /\ i.session # NoSession /\ ~OffSeen(e)
    /\ e.kind \notin {"DisableRequested", "ClearFaultRequested"}
    => d.state = "FAULT"

Justified(i, e, d) ==
    /\ EndsOnEvidence(i, e, d) /\ LiftsOnEvidence(e, d) /\ FreesWhenDry(i, e, d)
    /\ StartsOnGrant(i, d) /\ AsksBeforeStart(i, d)
    /\ StaysWatering(i, e, d) /\ SoaksAfterOff(i, e, d) /\ StaysFaulty(i, e, d)

-----------------------------------------------------------------------------
(* Sequences of actions. *)

(* What the configuration guarantees of the numbers. *)
LEMMA Constants ==
  /\ PulseDuration \in Nat /\ SoakDuration \in Nat /\ MaxCycles \in Nat
  /\ MinSessionInterval \in Nat /\ SensorMaxAge \in Nat
  /\ ActuatorConfirmTimeout \in Nat /\ ManualMaxDuration \in Nat
  /\ MaxSessionRuntime \in Nat /\ MaxDailyRuntime \in Nat
  /\ StartThreshold \in Int /\ TargetThreshold \in Int /\ NoTime \in Int
BY ConfigAssumption DEF ConfigValid, NoTime

(* Every constructor of an action makes one. *)
LEMMA PlainActions ==
  /\ Persist \in Actions /\ TurnOn \in Actions /\ ExecuteOff \in Actions
  /\ RequestSlot \in Actions /\ ReleaseSlot \in Actions /\ ScheduleEvaluation \in Actions
  /\ \A k \in TimerKinds, at \in Int : ArmTimer(k, at) \in Actions
  /\ \A t \in Tokens : ArmWatchdog(t) \in Actions
  /\ \A r \in KeyReasons : AddBlocker(r) \in Actions /\ RemoveBlocker(r) \in Actions
  /\ \A b \in BOOLEAN : SetExternalOn(b) \in Actions
BY DEF Actions, Persist, TurnOn, ExecuteOff, RequestSlot, ReleaseSlot, ScheduleEvaluation,
       ArmTimer, ArmWatchdog, AddBlocker, RemoveBlocker, SetExternalOn


(* A concatenation has what its parts have. *)
LEMMA HasInConcat ==
  ASSUME NEW s \in Seq(Actions), NEW t \in Seq(Actions), NEW a
  PROVE  /\ s \o t \in Seq(Actions)
         /\ (\E n \in DOMAIN (s \o t) : (s \o t)[n] = a)
              => (\E n \in DOMAIN s : s[n] = a) \/ (\E n \in DOMAIN t : t[n] = a)
<1>1. /\ s \o t \in Seq(Actions) /\ Len(s \o t) = Len(s) + Len(t)
      /\ \A n \in 1 .. Len(s) + Len(t) :
           (s \o t)[n] = IF n <= Len(s) THEN s[n] ELSE t[n - Len(s)]
  BY ConcatProperties
<1>2. DOMAIN s = 1 .. Len(s) /\ DOMAIN t = 1 .. Len(t) /\ Len(s) \in Nat /\ Len(t) \in Nat
  BY LenProperties
<1>3. DOMAIN (s \o t) = 1 .. Len(s) + Len(t)
  BY <1>1, LenProperties
<1>4. ASSUME NEW n \in 1 .. Len(s) + Len(t), (s \o t)[n] = a
      PROVE  (\E k \in DOMAIN s : s[k] = a) \/ (\E k \in DOMAIN t : t[k] = a)
  <2>1. CASE n <= Len(s)
    BY <1>1, <1>2, <1>4, <2>1
  <2>2. CASE ~(n <= Len(s))
    <3>1. n - Len(s) \in DOMAIN t /\ t[n - Len(s)] = a
      BY <1>1, <1>2, <1>4, <2>2
    <3> QED BY <3>1
  <2> QED BY <2>1, <2>2
<1> QED BY <1>1, <1>3, <1>4

-----------------------------------------------------------------------------
(* Decisions that keep the session. *)

(* A decision is what its constructors put together. *)
Made(st, s, f, closed, reason, acts, d) ==
    /\ d.state = st /\ d.session = s /\ d.fault = f
    /\ d.closed = closed /\ d.reason = reason /\ d.actions = acts

(* What the plain constructors put together. *)
LEMMA PlainMade ==
  ASSUME NEW i, NEW row, NEW st, NEW acts
  PROVE  /\ Made(i.state, i.session, i.fault, NoSession, NoReason, << >>, NoOp(i))
         /\ Made(st, i.session, i.fault, NoSession, NoReason, acts, Go(i, row, st, acts))
BY DEF Made, NoOp, Go

(* Nothing happens. *)
LEMMA NoOpSound ==
  ASSUME NEW i \in Situations, NEW e \in Events, Owning(i.state, i.session),
         ~(i.state = "WATERING" /\ e.kind \in {"OffConfirmed", "OffNotConfirmed"})
  PROVE  Typed(NoOp(i)) /\ Justified(i, e, NoOp(i))
BY DEF NoOp, Typed, Justified, Situations, EndsOnEvidence, LiftsOnEvidence, FreesWhenDry,
       StartsOnGrant, AsksBeforeStart, StaysWatering, SoaksAfterOff, StaysFaulty, Has,
       Sessions, ReasonOrNone, NoSession

(* An open session is a session. *)
LEMMA OpenIsOpen == \A s \in OpenSessions : s # NoSession
BY DEF OpenSessions, NoSession

(* _start_auto_pulse: only the owner of the slot starts, without blockers. *)
LEMMA StartPulseSound ==
  ASSUME NEW i \in Situations, NEW e \in Events, NEW s \in OpenSessions, NEW row,
         i.state \in {"IDLE", "SOAKING"}, i.slotGranted, i.blockersEmpty,
         e.kind \notin {"OffConfirmed", "OffNotConfirmed"}
  PROVE  LET d == StartPulse(i, row, s) IN Typed(d) /\ Justified(i, e, d)
<1> DEFINE fresh == i.obs.at + SensorMaxAge
           cycle == s.cycle + 1
           generation == s.generation + 1
           next == [s EXCEPT
                    !.cycle = cycle, !.intent = i.now,
                    !.commanded = NoTime, !.confirmed = NoTime, !.offAt = NoTime,
                    !.soakEnds = NoTime, !.freshUntil = fresh,
                    !.generation = generation]
           acts == <<Persist, ArmWatchdog(Token(next.generation, fresh)), TurnOn,
                     ArmTimer("ON_CONFIRM_TIMEOUT", i.now + ActuatorConfirmTimeout)>>
           d == StartPulse(i, row, s)
<1>1. /\ i.now \in Int /\ NoTime \in Int
      /\ fresh \in Int /\ cycle \in Int /\ generation \in Int
  BY Constants DEF Situations, Reports, OpenSessions
<1>2. next \in OpenSessions /\ next # NoSession
  <2> HIDE DEF fresh, cycle, generation
  <2>1. next \in OpenSessions
    BY <1>1 DEF OpenSessions
  <2> QED BY <2>1, OpenIsOpen
<1>3. acts \in Seq(Actions)
  BY <1>1, <1>2, Constants, PlainActions DEF Token, Tokens, TimerKinds, OpenSessions
<1>4. Made("WATERING", next, i.fault, NoSession, NoReason, acts, d)
  BY DEF Made, StartPulse, With, Go, NoOp
<1>5. Has(d, TurnOn) /\ ~Has(d, RemoveBlocker(Unconfirmed)) /\ ~Has(d, ReleaseSlot)
      /\ ~Has(d, RequestSlot)
  <2> HIDE DEF next, d
  <2>1. acts[3] = TurnOn /\ 3 \in DOMAIN acts
    BY DEF TurnOn
  <2> QED BY <1>4, <2>1
       DEF Made, Has, Persist, ArmWatchdog, TurnOn, ArmTimer, RemoveBlocker, ReleaseSlot,
           RequestSlot
<1> HIDE DEF d, next, acts
<1>6. Typed(d) /\ Justified(i, e, d)
  BY <1>2, <1>3, <1>4, <1>5
     DEF Made, Typed, Justified, Situations, EndsOnEvidence, LiftsOnEvidence,
         FreesWhenDry, StartsOnGrant, AsksBeforeStart, StaysWatering, SoaksAfterOff,
         StaysFaulty, Sessions, ReasonOrNone, States, Owning
<1> QED BY <1>6 DEF d

(* A new session is an open one. *)
LEMMA NewSessionOpen ==
  ASSUME NEW mode \in {"AUTO", "MANUAL"}, NEW at \in Int
  PROVE  NewSession(mode, at) \in OpenSessions
BY Constants DEF NewSession, OpenSessions, FaultOrNone, ReasonOrNone

(* A manual run lasts no longer than any of its caps. *)
LEMMA ClampManualTyped ==
  ASSUME NEW i \in Situations, NEW requested \in Int
  PROVE  ClampManual(i, requested) \in Int
<1> DEFINE caps == {requested, ManualMaxDuration, MaxSessionRuntime, DailyRemaining(i)}
<1>1. caps \subseteq Int
  BY Constants DEF DailyRemaining, Situations
<1>2. \E m \in caps : \A c \in caps : m <= c
  <2>1. \A a, b, c, d \in Int : \E m \in {a, b, c, d} : \A x \in {a, b, c, d} : m <= x
    OBVIOUS
  <2> QED BY <1>1, <2>1
<1> QED BY <1>1, <1>2 DEF ClampManual

(* _manual_start, from IDLE or over a fault. *)
LEMMA ManualStartSound ==
  ASSUME NEW i \in Situations, NEW e \in Events, Owning(i.state, i.session),
         i.state \in {"IDLE", "FAULT"}, e.kind = "ManualStartRequested", NEW row
  PROVE  LET d == ManualStart(i, e, row) IN Typed(d) /\ Justified(i, e, d)
<1> DEFINE d == ManualStart(i, e, row)
           effective == ClampManual(i, e.seconds)
           retained == IF row = "T40" THEN i.fault ELSE NoFault
           s == [NewSession("MANUAL", i.now) EXCEPT
                 !.effective = effective, !.retained = retained]
           acts == <<Persist, TurnOn,
                     ArmTimer("ON_CONFIRM_TIMEOUT", i.now + ActuatorConfirmTimeout)>>
           refused == Go(i, IF row = "T40" THEN "T41" ELSE "none", i.state, << >>)
<1>1. e.seconds \in Int
  BY DEF Events, PlainKinds
<1>2. CASE ~ManualGuards(i, e.seconds)
  <2>1. Made(i.state, i.session, i.fault, NoSession, NoReason, << >>, d)
    BY <1>2 DEF Made, ManualStart, Go, NoOp
  <2> HIDE DEF d
  <2> QED BY <2>1 DEF Made, Typed, Justified, Situations, EndsOnEvidence,
             LiftsOnEvidence, FreesWhenDry, StartsOnGrant, AsksBeforeStart,
             StaysWatering, SoaksAfterOff, StaysFaulty, Has, Sessions, ReasonOrNone, d
<1>3. CASE ManualGuards(i, e.seconds) /\ ~i.slotGranted
  <2>1. Made(i.state, i.session, i.fault, NoSession, NoReason, <<RequestSlot>>, d)
    BY <1>3 DEF Made, ManualStart, Do, Go, NoOp
  <2>2. i.session = NoSession
    BY <1>3 DEF ManualGuards
  <2> HIDE DEF d
  <2> QED BY <2>1, <2>2, PlainActions
          DEF Made, Typed, Justified, Situations, EndsOnEvidence,
             LiftsOnEvidence, FreesWhenDry, StartsOnGrant, AsksBeforeStart,
             StaysWatering, SoaksAfterOff, StaysFaulty, Has, Sessions, ReasonOrNone, d,
             RequestSlot, TurnOn, ReleaseSlot, RemoveBlocker
<1>4. CASE ManualGuards(i, e.seconds) /\ i.slotGranted
  <2>1. Made("WATERING", s, i.fault, NoSession, NoReason, acts, d)
    BY <1>4 DEF Made, ManualStart, With, Go, NoOp
  <2>2. i.session = NoSession /\ i.blockersEmpty
    BY <1>4 DEF ManualGuards
  <2>3. s \in OpenSessions /\ s # NoSession
    <3>1. effective \in Int /\ retained \in FaultOrNone /\ i.now \in Int
      BY <1>1, ClampManualTyped DEF FaultOrNone, Situations
    <3> DEFINE new == NewSession("MANUAL", i.now)
    <3>2. new \in OpenSessions
      BY <3>1, NewSessionOpen
    <3> HIDE DEF effective, retained, new
    <3>3. [new EXCEPT !.effective = effective, !.retained = retained] \in OpenSessions
      BY <3>1, <3>2 DEF OpenSessions
    <3> QED BY <3>3, OpenIsOpen DEF new
  <2>4. acts \in Seq(Actions)
    BY Constants, PlainActions DEF Situations, TimerKinds
  <2>5. Has(d, TurnOn) /\ ~Has(d, RemoveBlocker(Unconfirmed)) /\ ~Has(d, ReleaseSlot)
        /\ ~Has(d, RequestSlot)
    <3> HIDE DEF s, d
    <3>1. acts[2] = TurnOn /\ 2 \in DOMAIN acts
      BY DEF TurnOn
    <3> QED BY <2>1, <3>1 DEF Made, Has, Persist, TurnOn, ArmTimer, RemoveBlocker,
                              ReleaseSlot, RequestSlot
  <2> HIDE DEF d, s, acts
  <2>6. Typed(d) /\ Justified(i, e, d)
    BY <1>4, <2>1, <2>2, <2>3, <2>4, <2>5
       DEF Made, Typed, Justified, Situations, EndsOnEvidence, LiftsOnEvidence,
           FreesWhenDry, StartsOnGrant, AsksBeforeStart, StaysWatering, SoaksAfterOff,
           StaysFaulty, Sessions, ReasonOrNone, States, Owning
  <2> QED BY <2>6 DEF d
<1> QED BY <1>2, <1>3, <1>4

(* _evaluate_auto_start *)
LEMMA EvaluateAutoStartSound ==
  ASSUME NEW i \in Situations, NEW e \in Events, i.state = "IDLE",
         e.kind \notin {"OffConfirmed", "OffNotConfirmed"}
  PROVE  LET d == EvaluateAutoStart(i, e) IN Typed(d) /\ Justified(i, e, d)
<1> DEFINE d == EvaluateAutoStart(i, e)
<1>1. CASE ~AutoGuards(i)
  <2> DEFINE acts == IF e.kind = "SlotGranted" THEN <<ReleaseSlot>> ELSE << >>
  <2>1. Made("IDLE", i.session, i.fault, NoSession, NoReason, acts, d)
    BY <1>1 DEF Made, EvaluateAutoStart, Go, NoOp
  <2> HIDE DEF d
  <2>2. Typed(d) /\ Justified(i, e, d)
    BY <2>1, PlainActions
       DEF Made, Typed, Justified, Situations, EndsOnEvidence, LiftsOnEvidence,
           FreesWhenDry, StartsOnGrant, AsksBeforeStart, StaysWatering, SoaksAfterOff,
           StaysFaulty, Has, Sessions, ReasonOrNone, States, Owning,
           ReleaseSlot, TurnOn, RemoveBlocker, RequestSlot
  <2> QED BY <2>2 DEF d
<1>2. CASE AutoGuards(i) /\ ~(i.slotGranted /\ i.blockersEmpty)
  <2>1. Made("IDLE", i.session, i.fault, NoSession, NoReason, <<RequestSlot>>, d)
    BY <1>2 DEF Made, EvaluateAutoStart, Do, Go, NoOp
  <2> HIDE DEF d
  <2>2. Typed(d) /\ Justified(i, e, d)
    BY <2>1, PlainActions
       DEF Made, Typed, Justified, Situations, EndsOnEvidence, LiftsOnEvidence,
           FreesWhenDry, StartsOnGrant, AsksBeforeStart, StaysWatering, SoaksAfterOff,
           StaysFaulty, Has, Sessions, ReasonOrNone, States, Owning,
           ReleaseSlot, TurnOn, RemoveBlocker, RequestSlot
  <2> QED BY <2>2 DEF d
<1>3. CASE AutoGuards(i) /\ i.slotGranted /\ i.blockersEmpty
  <2>1. d = StartPulse(i, "T1", NewSession("AUTO", i.now))
    BY <1>3 DEF EvaluateAutoStart
  <2>2. NewSession("AUTO", i.now) \in OpenSessions
    BY NewSessionOpen DEF Situations
  <2> HIDE DEF d
  <2>3. Typed(d) /\ Justified(i, e, d)
    BY <1>3, <2>1, <2>2, StartPulseSound
  <2> QED BY <2>3 DEF d
<1> QED BY <1>1, <1>2, <1>3

-----------------------------------------------------------------------------
(* IDLE and DISABLED. *)

(* A decision that moves without touching the session; none of these       *)
(* states starts water, and only IDLE gives the slot back.                 *)
LEMMA GoSound ==
  ASSUME NEW i \in Situations, NEW e \in Events, Owning(i.state, i.session),
         NEW d, NEW st \in {"DISABLED", "IDLE", "FAULT"}, NEW f \in FaultOrNone,
         NEW acts \in Seq(Actions), i.state \in {"IDLE", "DISABLED", "FAULT"},
         Made(st, i.session, f, NoSession, NoReason, acts, d),
         \A n \in DOMAIN acts : acts[n] \notin {TurnOn, RequestSlot},
         (\E n \in DOMAIN acts : acts[n] = RemoveBlocker(Unconfirmed)) => OffSeen(e),
         (\E n \in DOMAIN acts : acts[n] = ReleaseSlot) =>
           i.state = "IDLE" \/ (i.state = "FAULT" /\ e.kind = "DisableRequested"),
         i.state = "FAULT" /\ i.session # NoSession =>
           st = "FAULT" \/ e.kind \in {"DisableRequested", "ClearFaultRequested"}
  PROVE  Typed(d) /\ Justified(i, e, d)
BY DEF Made, Typed, Justified, Situations, EndsOnEvidence, LiftsOnEvidence,
       FreesWhenDry, StartsOnGrant, AsksBeforeStart, StaysWatering, SoaksAfterOff,
       StaysFaulty, Has, Sessions, ReasonOrNone, States, Owning

(* The mark and the blocker of water that somebody else turned on. *)
LEMMA ExternalFlowSound ==
  ASSUME NEW i \in Situations, NEW e \in Events, Owning(i.state, i.session),
         i.state \in {"IDLE", "DISABLED", "FAULT"}, NEW row, NEW on \in BOOLEAN
  PROVE  LET d == ExternalFlow(i, row, on) IN Typed(d) /\ Justified(i, e, d)
<1> DEFINE acts == <<SetExternalOn(on),
                     IF on THEN AddBlocker("external_flow")
                     ELSE RemoveBlocker("external_flow")>>
<1>1. Made(i.state, i.session, i.fault, NoSession, NoReason, acts, ExternalFlow(i, row, on))
  BY DEF ExternalFlow, Made, Latch, Go, NoOp
<1>2. acts \in Seq(Actions)
  BY PlainActions DEF KeyReasons
<1>3. \A n \in DOMAIN acts :
        acts[n] \notin {TurnOn, RequestSlot, ReleaseSlot, RemoveBlocker(Unconfirmed)}
  <2>1. CASE on
    BY <2>1 DEF TurnOn, RequestSlot, ReleaseSlot, RemoveBlocker, AddBlocker,
                SetExternalOn, Unconfirmed
  <2>2. CASE ~on
    BY <2>2 DEF TurnOn, RequestSlot, ReleaseSlot, RemoveBlocker, SetExternalOn,
                Unconfirmed
  <2> QED BY <2>1, <2>2
<1>4. i.fault \in FaultOrNone
  BY DEF Situations
<1> DEFINE d == ExternalFlow(i, row, on)
<1> HIDE DEF acts, d
<1>5. Typed(d) /\ Justified(i, e, d)
  BY <1>1, <1>2, <1>3, <1>4, GoSound DEF d
<1> QED BY <1>5 DEF d

(* Every event in IDLE. *)
LEMMA IdleSound ==
  ASSUME NEW i \in Situations, NEW e \in Events, i.state = "IDLE"
  PROVE  LET d == DecideIdle(i, e) IN Typed(d) /\ Justified(i, e, d)
<1> DEFINE d == DecideIdle(i, e)
<1>1. i.fault \in FaultOrNone /\ "CONFIGURATION_INVALID" \in FaultOrNone
      /\ Owning(i.state, i.session)
  BY DEF Situations, FaultOrNone, Faults, Owning
<1>2. CASE e.kind \in {"AutoEvaluate", "MoistureReport", "SlotGranted"}
  <2>1. d = EvaluateAutoStart(i, e)
    BY <1>2 DEF DecideIdle
  <2> HIDE DEF d
  <2>2. Typed(d) /\ Justified(i, e, d)
    BY <1>2, <2>1, EvaluateAutoStartSound
  <2> QED BY <2>2 DEF d
<1>3. CASE e.kind = "ManualStartRequested"
  <2>1. d = ManualStart(i, e, "T3")
    BY <1>3 DEF DecideIdle
  <2> HIDE DEF d
  <2>2. Typed(d) /\ Justified(i, e, d)
    BY <1>1, <1>3, <2>1, ManualStartSound
  <2> QED BY <2>2 DEF d
<1>4. CASE e.kind = "DisableRequested"
  <2> DEFINE acts == <<Persist, ReleaseSlot>>
  <2>1. Made("DISABLED", i.session, i.fault, NoSession, NoReason, acts, d)
    BY <1>4 DEF DecideIdle, Made, Latch, Go, NoOp
  <2>2. /\ acts \in Seq(Actions)
        /\ \A n \in DOMAIN acts : acts[n] \notin {TurnOn, RequestSlot, RemoveBlocker(Unconfirmed)}
    BY PlainActions DEF Persist, ReleaseSlot, TurnOn, RequestSlot, RemoveBlocker
  <2> HIDE DEF d, acts
  <2>3. Typed(d) /\ Justified(i, e, d)
    BY <1>1, <2>1, <2>2, GoSound
  <2> QED BY <2>3 DEF d
<1>5. CASE e.kind = "ConfigurationInvalid"
  <2> DEFINE acts == <<Persist>>
  <2>1. Made("FAULT", i.session, "CONFIGURATION_INVALID", NoSession, NoReason, acts, d)
    BY <1>5 DEF DecideIdle, DecideConfigurationInvalid, Made, Latch, Go, NoOp
  <2>2. /\ acts \in Seq(Actions)
        /\ \A n \in DOMAIN acts : acts[n] \notin {TurnOn, RequestSlot, RemoveBlocker(Unconfirmed)}
    BY PlainActions DEF Persist, TurnOn, RequestSlot, RemoveBlocker
  <2> HIDE DEF d, acts
  <2>3. Typed(d) /\ Justified(i, e, d)
    BY <1>1, <2>1, <2>2, GoSound
  <2> QED BY <2>3 DEF d
<1>6. CASE e.kind = "ExternalActuatorOn" /\ ~i.externalOn
  <2>1. d = ExternalFlow(i, "T54", TRUE)
    BY <1>6 DEF DecideIdle
  <2> HIDE DEF d
  <2>2. Typed(d) /\ Justified(i, e, d)
    BY <1>1, <2>1, ExternalFlowSound
  <2> QED BY <2>2 DEF d
<1>7. CASE e.kind = "ExternalActuatorOff" /\ i.externalOn
  <2>1. d = ExternalFlow(i, "T58", FALSE)
    BY <1>7 DEF DecideIdle
  <2> HIDE DEF d
  <2>2. Typed(d) /\ Justified(i, e, d)
    BY <1>1, <2>1, ExternalFlowSound
  <2> QED BY <2>2 DEF d
<1>8. CASE d = NoOp(i)
  <2> HIDE DEF d
  <2>1. Typed(d) /\ Justified(i, e, d)
    BY <1>1, <1>8, NoOpSound
  <2> QED BY <2>1 DEF d
<1>9. \/ e.kind \in {"AutoEvaluate", "MoistureReport", "SlotGranted", "ManualStartRequested",
                     "DisableRequested", "ConfigurationInvalid"}
      \/ e.kind = "ExternalActuatorOn" /\ ~i.externalOn
      \/ e.kind = "ExternalActuatorOff" /\ i.externalOn
      \/ d = NoOp(i)
  BY DEF DecideIdle
<1> HIDE DEF d
<1> QED BY <1>2, <1>3, <1>4, <1>5, <1>6, <1>7, <1>8, <1>9

(* What the interval from the command to the OFF evidence leaves of a session. *)
LEMMA CloseRuntimeOpen ==
  ASSUME NEW s \in OpenSessions, NEW offAt \in Int, NEW reason
  PROVE  CloseRuntime(s, offAt, reason) \in OpenSessions
<1> DEFINE anchor == IF reason = "RESTART_RECOVERY" THEN s.intent ELSE s.commanded
           delta == IF anchor = NoTime \/ offAt < anchor THEN 0 ELSE offAt - anchor
           runtime == s.runtime + delta
<1>1. runtime \in Int
  BY DEF OpenSessions
<1>2. CloseRuntime(s, offAt, reason) = [s EXCEPT !.offAt = offAt, !.runtime = runtime]
  BY DEF CloseRuntime
<1> HIDE DEF runtime
<1> QED BY <1>1, <1>2 DEF OpenSessions

(* A decision that ends the session. *)
LEMMA CloseSound ==
  ASSUME NEW i \in Situations, NEW e \in Events, NEW d, NEW st \in States, NEW f \in FaultOrNone,
         NEW closed \in OpenSessions, NEW reason \in ReasonOrNone, NEW acts \in Seq(Actions),
         Made(st, NoSession, f, closed, reason, acts, d),
         st \notin {"WATERING", "SOAKING"},
         OffSeen(e) \/ i.state = "SOAKING",
         \A n \in DOMAIN acts : acts[n] \notin {TurnOn, RequestSlot},
         (\E n \in DOMAIN acts : acts[n] = RemoveBlocker(Unconfirmed)) => OffSeen(e)
  PROVE  Typed(d) /\ Justified(i, e, d)
BY DEF Made, Typed, Justified, Situations, EndsOnEvidence, LiftsOnEvidence,
       FreesWhenDry, StartsOnGrant, AsksBeforeStart, StaysWatering, SoaksAfterOff,
       StaysFaulty, Has, Sessions, States, Owning, OffSeen

(* _close_open_accounting: OFF evidence closes what was left open. *)
LEMMA CloseOpenAccountingSound ==
  ASSUME NEW i \in Situations, NEW e \in Events, i.session # NoSession, OffSeen(e),
         i.state \in {"DISABLED", "FAULT"}
  PROVE  LET d == CloseOpenAccounting(i, e.at) IN Typed(d) /\ Justified(i, e, d)
<1> DEFINE acts == <<Persist, RemoveBlocker("integration_off_unconfirmed"), ReleaseSlot>>
           reason == i.session.pending
           closed == CloseRuntime(i.session, e.at, reason)
           d == CloseOpenAccounting(i, e.at)
<1>1. Made(i.state, NoSession, i.fault, closed, reason, acts, d)
  BY DEF Made, CloseOpenAccounting, Close, Do, Go, NoOp
<1>2. /\ i.session \in OpenSessions /\ reason \in ReasonOrNone
      /\ i.state \in States /\ i.fault \in FaultOrNone
  BY DEF Situations, Sessions, OpenSessions
<1>3. e.at \in Int
  BY DEF OffSeen, Events, PlainKinds
<1>4. closed \in OpenSessions
  BY <1>2, <1>3, CloseRuntimeOpen
<1>5. /\ acts \in Seq(Actions)
      /\ \A n \in DOMAIN acts : acts[n] \notin {TurnOn, RequestSlot}
  BY PlainActions DEF KeyReasons, Unconfirmed, Persist, RemoveBlocker, ReleaseSlot, TurnOn,
                      RequestSlot
<1> HIDE DEF d, acts, closed, reason
<1>6. Typed(d) /\ Justified(i, e, d)
  BY <1>1, <1>2, <1>4, <1>5, CloseSound
<1> QED BY <1>6 DEF d

(* Every event in DISABLED. *)
LEMMA DisabledSound ==
  ASSUME NEW i \in Situations, NEW e \in Events, i.state = "DISABLED"
  PROVE  LET d == DecideDisabled(i, e) IN Typed(d) /\ Justified(i, e, d)
<1> DEFINE d == DecideDisabled(i, e)
           opened == i.session # NoSession
                     /\ (e.kind = "OffConfirmed"
                         \/ (e.kind = "ExternalActuatorOff" /\ ~i.externalOn))
<1>1. i.fault \in FaultOrNone /\ Owning(i.state, i.session)
  BY DEF Situations, Owning
<1>2. CASE e.kind = "EnableRequested"
  <2> DEFINE acts == IF i.fault # NoFault THEN <<Persist>> ELSE <<Persist, ScheduleEvaluation>>
             row == IF i.fault # NoFault THEN "T46" ELSE "T47"
             st == IF i.fault # NoFault THEN "FAULT" ELSE "IDLE"
  <2>1. Made(st, i.session, i.fault, NoSession, NoReason, acts, d)
    BY <1>2 DEF DecideDisabled, Made, Latch, Go, NoOp
  <2>2. /\ acts \in Seq(Actions)
        /\ \A n \in DOMAIN acts :
             acts[n] \notin {TurnOn, RequestSlot, ReleaseSlot, RemoveBlocker(Unconfirmed)}
    <3>1. CASE i.fault # NoFault
      BY <3>1, PlainActions DEF Persist, TurnOn, RequestSlot, ReleaseSlot, RemoveBlocker
    <3>2. CASE i.fault = NoFault
      BY <3>2, PlainActions DEF Persist, ScheduleEvaluation, TurnOn, RequestSlot,
                                ReleaseSlot, RemoveBlocker
    <3> QED BY <3>1, <3>2
  <2>3. st \in {"DISABLED", "IDLE", "FAULT"}
    OBVIOUS
  <2> HIDE DEF d, acts, st, row
  <2>4. Typed(d) /\ Justified(i, e, d)
    BY <1>1, <2>1, <2>2, <2>3, GoSound
  <2> QED BY <2>4 DEF d
<1>3. CASE e.kind = "ExternalActuatorOn" /\ ~i.externalOn
  <2>1. d = ExternalFlow(i, "T55", TRUE)
    BY <1>3 DEF DecideDisabled
  <2> HIDE DEF d
  <2>2. Typed(d) /\ Justified(i, e, d)
    BY <1>1, <2>1, ExternalFlowSound
  <2> QED BY <2>2 DEF d
<1>4. CASE e.kind = "ExternalActuatorOff" /\ i.externalOn
  <2>1. d = ExternalFlow(i, "T59", FALSE)
    BY <1>4 DEF DecideDisabled
  <2> HIDE DEF d
  <2>2. Typed(d) /\ Justified(i, e, d)
    BY <1>1, <2>1, ExternalFlowSound
  <2> QED BY <2>2 DEF d
<1>5. CASE opened
  <2>1. d = CloseOpenAccounting(i, e.at) /\ OffSeen(e) /\ i.session # NoSession
    BY <1>5 DEF DecideDisabled, OffSeen
  <2> HIDE DEF d
  <2>2. Typed(d) /\ Justified(i, e, d)
    BY <1>1, <2>1, CloseOpenAccountingSound
  <2> QED BY <2>2 DEF d
<1>6. CASE d = NoOp(i)
  <2> HIDE DEF d
  <2>1. Typed(d) /\ Justified(i, e, d)
    BY <1>1, <1>6, NoOpSound
  <2> QED BY <2>1 DEF d
<1>7. \/ e.kind = "EnableRequested" \/ opened \/ d = NoOp(i)
      \/ (e.kind = "ExternalActuatorOn" /\ ~i.externalOn)
      \/ (e.kind = "ExternalActuatorOff" /\ i.externalOn)
  BY DEF DecideDisabled
<1> HIDE DEF d, opened
<1> QED BY <1>2, <1>3, <1>4, <1>5, <1>6, <1>7

-----------------------------------------------------------------------------
(* WATERING. *)

(* What only keeps water running: no slot, fence or start is touched.      *)
Idling(acts) ==
    /\ acts \in Seq(Actions)
    /\ \A n \in DOMAIN acts :
         acts[n] \notin {TurnOn, RequestSlot, ReleaseSlot, RemoveBlocker(Unconfirmed)}

(* The action lists of a zone that goes on WATERING. *)
LEMMA IdlingTuples ==
  /\ Idling(<< >>) /\ Idling(<<Persist>>) /\ Idling(<<ExecuteOff>>)
  /\ Idling(<<Persist, ExecuteOff>>)
  /\ \A k \in TimerKinds, at \in Int :
       Idling(<<Persist, ArmTimer(k, at)>>) /\ Idling(<<ArmTimer(k, at)>>)
  /\ \A t \in Tokens : Idling(<<ArmWatchdog(t)>>)
<1>1. Idling(<< >>) /\ Idling(<<Persist>>) /\ Idling(<<ExecuteOff>>)
  BY PlainActions
     DEF Idling, Persist, ExecuteOff, TurnOn, RequestSlot, ReleaseSlot, RemoveBlocker
<1>2. Idling(<<Persist, ExecuteOff>>)
  BY PlainActions
     DEF Idling, Persist, ExecuteOff, TurnOn, RequestSlot, ReleaseSlot, RemoveBlocker
<1>3. ASSUME NEW k \in TimerKinds, NEW at \in Int
      PROVE  Idling(<<Persist, ArmTimer(k, at)>>) /\ Idling(<<ArmTimer(k, at)>>)
  BY PlainActions
     DEF Idling, Persist, ArmTimer, TurnOn, RequestSlot, ReleaseSlot, RemoveBlocker
<1>4. ASSUME NEW t \in Tokens
      PROVE  Idling(<<ArmWatchdog(t)>>)
  BY PlainActions DEF Idling, ArmWatchdog, TurnOn, RequestSlot, ReleaseSlot, RemoveBlocker
<1> QED BY <1>1, <1>2, <1>3, <1>4

(* A decision that goes on WATERING. *)
LEMMA KeepSound ==
  ASSUME NEW i \in Situations, NEW e \in Events, i.state = "WATERING",
         NEW d, NEW s \in OpenSessions, NEW f \in FaultOrNone, NEW acts, Idling(acts),
         Made("WATERING", s, f, NoSession, NoReason, acts, d),
         e.kind \notin {"OffConfirmed", "OffNotConfirmed"}
  PROVE  Typed(d) /\ Justified(i, e, d)
BY OpenIsOpen
   DEF Idling, Made, Typed, Justified, Situations, EndsOnEvidence, LiftsOnEvidence,
       FreesWhenDry, StartsOnGrant, AsksBeforeStart, StaysWatering, SoaksAfterOff,
       StaysFaulty, Has, Sessions, ReasonOrNone, States, Owning

(* _commit_termination: WATERING goes on until OFF is seen. *)
LEMMA CommitTerminationSound ==
  ASSUME NEW i \in Situations, NEW e \in Events, i.state = "WATERING",
         i.session \in OpenSessions, NEW reason \in Reasons, NEW fault \in FaultOrNone,
         e.kind \notin {"OffConfirmed", "OffNotConfirmed"}
  PROVE  LET d == CommitTermination(i, reason, fault) IN Typed(d) /\ Justified(i, e, d)
<1> DEFINE d == CommitTermination(i, reason, fault)
           s == [i.session EXCEPT !.pending = reason]
           f == IF fault = NoFault THEN i.fault ELSE fault
<1>1. Made("WATERING", s, f, NoSession, NoReason, <<Persist, ExecuteOff>>, d)
  BY DEF CommitTermination, With, Latch, Do, Go, NoOp, Made
<1>2. s \in OpenSessions
  BY DEF OpenSessions, ReasonOrNone
<1>3. f \in FaultOrNone
  BY DEF Situations
<1> HIDE DEF d, s, f
<1>4. Typed(d) /\ Justified(i, e, d)
  BY <1>1, <1>2, <1>3, IdlingTuples, KeepSound
<1> QED BY <1>4 DEF d

(* _on_confirmed *)
LEMMA OnConfirmedSound ==
  ASSUME NEW i \in Situations, NEW e \in Events, i.state = "WATERING",
         i.session \in OpenSessions, NEW at \in Int,
         e.kind \notin {"OffConfirmed", "OffNotConfirmed"}
  PROVE  LET d == DecideOnConfirmed(i, at) IN Typed(d) /\ Justified(i, e, d)
<1> DEFINE d == DecideOnConfirmed(i, at)
           s == [i.session EXCEPT !.confirmed = at]
           kind == IF i.session.mode = "AUTO" THEN "PULSE_END" ELSE "MANUAL_END"
           end == IF i.session.mode = "AUTO" THEN at + PulseDuration
                  ELSE at + i.session.effective
           acts == IF i.session.pending = NoReason THEN <<Persist, ArmTimer(kind, end)>>
                   ELSE <<Persist>>
<1>1. Made("WATERING", s, i.fault, NoSession, NoReason, acts, d)
  BY DEF DecideOnConfirmed, With, Do, Go, NoOp, Made
<1>2. s \in OpenSessions /\ i.fault \in FaultOrNone
  BY DEF OpenSessions, Situations
<1>3. Idling(acts)
  <2>1. kind \in TimerKinds /\ end \in Int
    BY Constants DEF TimerKinds, OpenSessions
  <2> HIDE DEF kind, end
  <2> QED BY <2>1, IdlingTuples
<1> HIDE DEF d, s, acts
<1>4. Typed(d) /\ Justified(i, e, d)
  BY <1>1, <1>2, <1>3, KeepSound
<1> QED BY <1>4 DEF d

(* A decision that changes neither session nor fault. *)
LEMMA KeepAll ==
  ASSUME NEW i \in Situations, NEW e \in Events, i.state = "WATERING",
         i.session \in OpenSessions, NEW d, NEW acts, Idling(acts),
         Made("WATERING", i.session, i.fault, NoSession, NoReason, acts, d),
         e.kind \notin {"OffConfirmed", "OffNotConfirmed"}
  PROVE  Typed(d) /\ Justified(i, e, d)
<1>1. i.fault \in FaultOrNone
  BY DEF Situations
<1> QED BY <1>1, KeepSound

(* _watering_moisture *)
LEMMA WateringMoistureSound ==
  ASSUME NEW i \in Situations, NEW e \in Events, i.state = "WATERING",
         i.session \in OpenSessions, NEW obs \in Reports, e.kind = "MoistureReport"
  PROVE  LET d == WateringMoisture(i, obs) IN Typed(d) /\ Justified(i, e, d)
<1> DEFINE d == WateringMoisture(i, obs)
           fresh == obs.at + SensorMaxAge
           generation == i.session.generation + 1
           token == Token(generation, fresh)
           s == [i.session EXCEPT !.freshUntil = fresh, !.generation = generation]
<1>1. /\ fresh \in Int /\ generation \in Int /\ i.fault \in FaultOrNone
      /\ "SENSOR_FAULT" \in Reasons
      /\ "SENSOR_INVALID" \in FaultOrNone /\ "SENSOR_UNAVAILABLE" \in FaultOrNone
  BY Constants DEF Reports, OpenSessions, Situations, Reasons, FaultOrNone, Faults,
                   AutoClearingFaults, SensorFaults
<1>2. \/ Made("WATERING", i.session, i.fault, NoSession, NoReason, << >>, d)
      \/ Made("WATERING", s, i.fault, NoSession, NoReason, <<ArmWatchdog(token)>>, d)
      \/ d = CommitTermination(i, "SENSOR_FAULT", "SENSOR_INVALID")
      \/ d = CommitTermination(i, "SENSOR_FAULT", "SENSOR_UNAVAILABLE")
  BY DEF WateringMoisture, With, Go, NoOp, Made, Token
<1>3. s \in OpenSessions /\ Idling(<<ArmWatchdog(token)>>)
  <2>1. token \in Tokens
    BY <1>1 DEF Token, Tokens
  <2> HIDE DEF fresh, generation
  <2>2. s \in OpenSessions
    BY <1>1 DEF OpenSessions
  <2> HIDE DEF token
  <2> QED BY <2>1, <2>2, IdlingTuples
<1> HIDE DEF d, s, token
<1>4. CASE Made("WATERING", i.session, i.fault, NoSession, NoReason, << >>, d)
  <2>1. Typed(d) /\ Justified(i, e, d)
    BY <1>4, IdlingTuples, KeepAll
  <2> QED BY <2>1 DEF d
<1>5. CASE Made("WATERING", s, i.fault, NoSession, NoReason, <<ArmWatchdog(token)>>, d)
  <2>1. Typed(d) /\ Justified(i, e, d)
    BY <1>1, <1>3, <1>5, KeepSound
  <2> QED BY <2>1 DEF d
<1>6. CASE \/ d = CommitTermination(i, "SENSOR_FAULT", "SENSOR_INVALID")
           \/ d = CommitTermination(i, "SENSOR_FAULT", "SENSOR_UNAVAILABLE")
  <2>1. Typed(d) /\ Justified(i, e, d)
    BY <1>1, <1>6, CommitTerminationSound
  <2> QED BY <2>1 DEF d
<1> QED BY <1>2, <1>4, <1>5, <1>6

(* _watchdog_fired *)
LEMMA WatchdogFiredSound ==
  ASSUME NEW i \in Situations, NEW e \in Events, i.state = "WATERING",
         i.session \in OpenSessions, NEW token, e.kind = "WatchdogFired"
  PROVE  LET d == DecideWatchdogFired(i, token) IN Typed(d) /\ Justified(i, e, d)
<1> DEFINE d == DecideWatchdogFired(i, token)
           again == Token(i.session.generation, i.session.freshUntil)
<1>1. \/ Made("WATERING", i.session, i.fault, NoSession, NoReason, << >>, d)
      \/ Made("WATERING", i.session, i.fault, NoSession, NoReason, <<ArmWatchdog(again)>>, d)
      \/ d = CommitTermination(i, "SENSOR_FAULT", "SENSOR_STALE")
  BY DEF DecideWatchdogFired, Do, Go, NoOp, Made
<1>2. /\ Idling(<<ArmWatchdog(again)>>) /\ Idling(<< >>)
      /\ "SENSOR_FAULT" \in Reasons /\ "SENSOR_STALE" \in FaultOrNone
  <2>1. again \in Tokens
    BY DEF Token, Tokens, OpenSessions
  <2> HIDE DEF again
  <2> QED BY <2>1, IdlingTuples DEF Reasons, FaultOrNone, Faults, AutoClearingFaults,
                                    SensorFaults
<1> HIDE DEF d, again
<1>3. Typed(d) /\ Justified(i, e, d)
  BY <1>1, <1>2, KeepAll, CommitTerminationSound
<1> QED BY <1>3 DEF d

(* Where a finished session may leave the zone. *)
LEMMA DestinationTyped ==
  ASSUME NEW i \in Situations, NEW s \in OpenSessions, NEW reason
  PROVE  /\ PostDestination(i, s, reason)[1] \in {"DISABLED", "IDLE", "FAULT"}
         /\ PostDestination(i, s, reason)[2] \in FaultOrNone
         /\ ManualDestination(i, s)[1] \in {"DISABLED", "IDLE", "FAULT"}
         /\ ManualDestination(i, s)[2] \in FaultOrNone
<1>1. i.fault \in FaultOrNone /\ s.retained \in FaultOrNone /\ NoFault \in FaultOrNone
  BY DEF Situations, OpenSessions, FaultOrNone
<1>2. /\ ManualDestination(i, s)[1] \in {"DISABLED", "IDLE", "FAULT"}
      /\ ManualDestination(i, s)[2] \in FaultOrNone
  BY <1>1 DEF ManualDestination
<1>3. CASE reason = "ZONE_DISABLED"
  <2>1. PostDestination(i, s, reason) = <<"DISABLED", i.fault>>
    BY <1>3 DEF PostDestination
  <2> QED BY <1>1, <1>2, <2>1
<1>4. CASE reason \in {"SENSOR_FAULT", "ACTUATOR_FAULT"}
  <2>1. PostDestination(i, s, reason) = <<IF i.enabled THEN "FAULT" ELSE "DISABLED", i.fault>>
    BY <1>4 DEF PostDestination
  <2> QED BY <1>1, <1>2, <2>1
<1>5. CASE reason \notin {"ZONE_DISABLED", "SENSOR_FAULT", "ACTUATOR_FAULT"}
  <2>1. \/ PostDestination(i, s, reason) = <<"DISABLED", i.fault>>
        \/ PostDestination(i, s, reason) = <<"FAULT", i.fault>>
        \/ PostDestination(i, s, reason) = <<"IDLE", i.fault>>
        \/ PostDestination(i, s, reason) = <<"IDLE", NoFault>>
        \/ PostDestination(i, s, reason) = <<"FAULT", s.retained>>
    BY <1>5 DEF PostDestination
  <2> QED BY <1>1, <1>2, <2>1
<1> QED BY <1>3, <1>4, <1>5

(* _finalize_watering: the session ends on OFF evidence. *)
LEMMA FinalizeWateringSound ==
  ASSUME NEW i \in Situations, NEW e \in Events, i.session \in OpenSessions, OffSeen(e),
         NEW reason \in ReasonOrNone, NEW extra \in {<< >>, <<ExecuteOff>>}
  PROVE  LET d == FinalizeWatering(i, reason, e.at, extra) IN Typed(d) /\ Justified(i, e, d)
<1> DEFINE d == FinalizeWatering(i, reason, e.at, extra)
           closed == CloseRuntime(i.session, e.at, reason)
           dest == IF reason = "MANUAL_COMPLETE" THEN ManualDestination(i, closed)
                   ELSE PostDestination(i, closed, reason)
           st == dest[1]
           f == dest[2]
           end == <<Persist, RemoveBlocker("integration_off_unconfirmed"), ReleaseSlot>>
           acts == extra \o end
<1>1. Made(st, NoSession, f, closed, reason, acts, d)
  BY DEF Made, FinalizeWatering, Close, Latch, Go, NoOp
<1>2. closed \in OpenSessions
  BY CloseRuntimeOpen DEF OffSeen, Events, PlainKinds
<1>3. st \in {"DISABLED", "IDLE", "FAULT"} /\ f \in FaultOrNone
  <2> HIDE DEF closed
  <2> QED BY <1>2, DestinationTyped
<1>4. /\ extra \in Seq(Actions) /\ end \in Seq(Actions)
      /\ \A n \in DOMAIN extra : extra[n] \notin {TurnOn, RequestSlot}
      /\ \A n \in DOMAIN end : end[n] \notin {TurnOn, RequestSlot}
  <2>1. /\ << >> \in Seq(Actions) /\ <<ExecuteOff>> \in Seq(Actions)
        /\ end \in Seq(Actions)
    BY PlainActions DEF KeyReasons, Unconfirmed
  <2>2. /\ \A n \in DOMAIN <<ExecuteOff>> : <<ExecuteOff>>[n] \notin {TurnOn, RequestSlot}
        /\ \A n \in DOMAIN end : end[n] \notin {TurnOn, RequestSlot}
    BY DEF Persist, RemoveBlocker, ReleaseSlot, TurnOn, RequestSlot, ExecuteOff
  <2> HIDE DEF end
  <2>3. CASE extra = << >>
    BY <2>1, <2>2, <2>3
  <2>4. CASE extra = <<ExecuteOff>>
    BY <2>1, <2>2, <2>4
  <2> QED BY <2>3, <2>4
<1>5. acts \in Seq(Actions) /\ \A n \in DOMAIN acts : acts[n] \notin {TurnOn, RequestSlot}
  <2> HIDE DEF end
  <2>1. /\ acts \in Seq(Actions)
        /\ \A a : (\E n \in DOMAIN acts : acts[n] = a) =>
             (\E n \in DOMAIN extra : extra[n] = a) \/ (\E n \in DOMAIN end : end[n] = a)
    BY <1>4, HasInConcat
  <2> HIDE DEF acts
  <2> QED BY <1>4, <2>1
<1>6. st \in States
  BY <1>3 DEF States
<1> HIDE DEF d, acts, closed, st, f
<1>7. Typed(d) /\ Justified(i, e, d)
  BY <1>1, <1>2, <1>3, <1>5, <1>6, CloseSound
<1> QED BY <1>7 DEF d

(* _pulse_off_to_soaking *)
LEMMA PulseOffToSoakingSound ==
  ASSUME NEW i \in Situations, NEW e \in Events, i.session \in OpenSessions,
         e.kind = "OffConfirmed"
  PROVE  LET d == PulseOffToSoaking(i, e.at) IN Typed(d) /\ Justified(i, e, d)
<1> DEFINE d == PulseOffToSoaking(i, e.at)
           soakEnds == e.at + SoakDuration
           closed == CloseRuntime(i.session, e.at, "TARGET_REACHED")
           s == [closed EXCEPT !.soakEnds = soakEnds]
           acts == <<Persist, ArmTimer("SOAK_END", soakEnds), ReleaseSlot>>
<1>1. Made("SOAKING", s, i.fault, NoSession, NoReason, acts, d)
  BY DEF Made, PulseOffToSoaking, With, Go, NoOp
<1>2. e.at \in Int /\ soakEnds \in Int /\ i.fault \in FaultOrNone
  <2>1. e.at \in Int
    BY DEF Events, PlainKinds
  <2> QED BY <2>1, Constants DEF Situations
<1>3. s \in OpenSessions /\ s # NoSession
  <2>1. closed \in OpenSessions
    BY <1>2, CloseRuntimeOpen
  <2> HIDE DEF closed, soakEnds
  <2>2. s \in OpenSessions
    BY <1>2, <2>1 DEF OpenSessions
  <2> HIDE DEF s
  <2> QED BY <2>2, OpenIsOpen
<1>4. acts \in Seq(Actions)
  <2> HIDE DEF soakEnds
  <2> QED BY <1>2, PlainActions DEF TimerKinds
<1>5. \A n \in DOMAIN acts : acts[n] \notin {TurnOn, RequestSlot, RemoveBlocker(Unconfirmed)}
  <2> HIDE DEF soakEnds
  <2> QED BY DEF Persist, ArmTimer, ReleaseSlot, TurnOn, RequestSlot, RemoveBlocker
<1> HIDE DEF d, s, acts
<1>6. Typed(d) /\ Justified(i, e, d)
  BY <1>1, <1>2, <1>3, <1>4, <1>5
     DEF Made, Typed, Justified, Situations, EndsOnEvidence, LiftsOnEvidence,
         FreesWhenDry, StartsOnGrant, AsksBeforeStart, StaysWatering, SoaksAfterOff,
         StaysFaulty, Has, Sessions, ReasonOrNone, States, Owning, OffSeen
<1> QED BY <1>6 DEF d

(* OFF could not be confirmed: FAULT, behind the fence. *)
LEMMA OffNotConfirmedSound ==
  ASSUME NEW i \in Situations, NEW e \in Events, i.session \in OpenSessions,
         i.state = "WATERING", e.kind = "OffNotConfirmed"
  PROVE  LET d == OffNotConfirmedWhileWatering(i) IN Typed(d) /\ Justified(i, e, d)
<1> DEFINE d == OffNotConfirmedWhileWatering(i)
           reason == IF i.session.pending = "RESTART_RECOVERY" THEN "RESTART_RECOVERY"
                     ELSE "ACTUATOR_FAULT"
           s == [i.session EXCEPT !.pending = reason]
           acts == <<Persist, AddBlocker("integration_off_unconfirmed")>>
<1>1. Made("FAULT", s, "ACTUATOR_OFF_TIMEOUT", NoSession, NoReason, acts, d)
  BY DEF Made, OffNotConfirmedWhileWatering, With, Latch, Go, NoOp
<1>2. s \in OpenSessions /\ s # NoSession
  <2>1. reason \in ReasonOrNone
    BY DEF ReasonOrNone, Reasons
  <2> HIDE DEF reason
  <2>2. s \in OpenSessions
    BY <2>1 DEF OpenSessions
  <2> HIDE DEF s
  <2> QED BY <2>2, OpenIsOpen
<1>3. acts \in Seq(Actions)
  BY PlainActions DEF KeyReasons, Unconfirmed
<1>4. /\ acts[2] = AddBlocker(Unconfirmed) /\ 2 \in DOMAIN acts
      /\ \A n \in DOMAIN acts :
           acts[n] \notin {TurnOn, RequestSlot, ReleaseSlot, RemoveBlocker(Unconfirmed)}
  BY DEF Persist, AddBlocker, Unconfirmed, ReleaseSlot, TurnOn, RequestSlot, RemoveBlocker
<1>5. "ACTUATOR_OFF_TIMEOUT" \in FaultOrNone
  BY DEF FaultOrNone, Faults
<1> HIDE DEF d, s, acts
<1>6. Typed(d) /\ Justified(i, e, d)
  BY <1>1, <1>2, <1>3, <1>4, <1>5
     DEF Made, Typed, Justified, Situations, EndsOnEvidence, LiftsOnEvidence,
         FreesWhenDry, StartsOnGrant, AsksBeforeStart, StaysWatering, SoaksAfterOff,
         StaysFaulty, Has, Sessions, ReasonOrNone, States, Owning, OffSeen
<1> QED BY <1>6 DEF d

(* The requests that end a session commit a reason. *)
LEMMA TerminalReasons ==
  ASSUME NEW k \in DOMAIN TerminalRequests
  PROVE  TerminalRequests[k] \in Reasons
BY DEF TerminalRequests, Reasons, CancelReasons

(* What an event brings along. *)
LEMMA EventTyped ==
  ASSUME NEW e \in Events
  PROVE  /\ e.kind \in {"OnConfirmed", "OffConfirmed", "ExternalActuatorOff"} => e.at \in Int
         /\ e.kind = "ManualStartRequested" => e.seconds \in Int
         /\ e.kind = "MoistureReport" => e.obs \in Reports
         /\ e.kind = "WatchdogFired" => e.token \in Tokens
         /\ e.kind = "ConfigurationInvalid" => ~e.atSetup
         /\ e.kind \notin {"StoreIntegrityLost", "StartupPersistedWatering",
                           "StartupPersistedSoaking"}
BY DEF Events, PlainKinds

(* Every event in WATERING. *)
LEMMA WateringSound ==
  ASSUME NEW i \in Situations, NEW e \in Events, i.state = "WATERING",
         i.session \in OpenSessions
  PROVE  LET d == DecideWatering(i, e) IN Typed(d) /\ Justified(i, e, d)
<1> DEFINE d == DecideWatering(i, e)
           open == i.session.pending = NoReason
           keeps == e.kind \notin {"OffConfirmed", "OffNotConfirmed"}
           commits == keeps /\ \E reason \in Reasons, fault \in FaultOrNone :
                                  d = CommitTermination(i, reason, fault)
           ends == OffSeen(e) /\ \E reason \in ReasonOrNone, extra \in {<< >>, <<ExecuteOff>>} :
                                  d = FinalizeWatering(i, reason, e.at, extra)
<1>1. /\ i.session.pending \in ReasonOrNone
      /\ "ACTUATOR_FAULT" \in Reasons /\ "MANUAL_COMPLETE" \in Reasons
      /\ "MANUAL_COMPLETE" \in ReasonOrNone
      /\ "EXTERNAL_ACTUATOR_STATE_CHANGE" \in ReasonOrNone
      /\ NoFault \in FaultOrNone /\ "ACTUATOR_ON_TIMEOUT" \in FaultOrNone
      /\ "ACTUATOR_UNAVAILABLE" \in FaultOrNone
  BY DEF OpenSessions, ReasonOrNone, Reasons, CancelReasons, FaultOrNone, Faults,
         AutoClearingFaults
<1>2. CASE commits
  <2> HIDE DEF d
  <2>1. Typed(d) /\ Justified(i, e, d)
    BY <1>2, CommitTerminationSound
  <2> QED BY <2>1 DEF d
<1>3. CASE ends
  <2> HIDE DEF d
  <2>1. Typed(d) /\ Justified(i, e, d)
    BY <1>3, FinalizeWateringSound
  <2> QED BY <2>1 DEF d
<1>4. CASE e.kind = "OnConfirmed"
  <2>1. d = DecideOnConfirmed(i, e.at)
    BY <1>4 DEF DecideWatering, TerminalRequests
  <2> HIDE DEF d
  <2>2. Typed(d) /\ Justified(i, e, d)
    BY <1>4, <2>1, EventTyped, OnConfirmedSound
  <2> QED BY <2>2 DEF d
<1>5. CASE e.kind = "MoistureReport"
  <2>1. d = WateringMoisture(i, e.obs)
    BY <1>5 DEF DecideWatering, TerminalRequests
  <2> HIDE DEF d
  <2>2. Typed(d) /\ Justified(i, e, d)
    BY <1>5, <2>1, EventTyped, WateringMoistureSound
  <2> QED BY <2>2 DEF d
<1>6. CASE e.kind = "WatchdogFired"
  <2>1. d = DecideWatchdogFired(i, e.token)
    BY <1>6 DEF DecideWatering, TerminalRequests
  <2> HIDE DEF d
  <2>2. Typed(d) /\ Justified(i, e, d)
    BY <1>6, <2>1, WatchdogFiredSound
  <2> QED BY <2>2 DEF d
<1>7. CASE e.kind = "PulseDeadlineReached" /\ d = Do(i, <<ExecuteOff>>)
  <2>1. Made("WATERING", i.session, i.fault, NoSession, NoReason, <<ExecuteOff>>, d)
    BY <1>7 DEF Do, Go, NoOp, Made
  <2> HIDE DEF d
  <2>2. Typed(d) /\ Justified(i, e, d)
    BY <1>7, <2>1, IdlingTuples, KeepAll
  <2> QED BY <2>2 DEF d
<1>8. CASE e.kind = "OffConfirmed" /\ d = PulseOffToSoaking(i, e.at)
  <2> HIDE DEF d
  <2>1. Typed(d) /\ Justified(i, e, d)
    BY <1>8, PulseOffToSoakingSound
  <2> QED BY <2>1 DEF d
<1>9. CASE e.kind = "OffNotConfirmed"
  <2>1. d = OffNotConfirmedWhileWatering(i)
    BY <1>9 DEF DecideWatering, TerminalRequests
  <2> HIDE DEF d
  <2>2. Typed(d) /\ Justified(i, e, d)
    BY <1>9, <2>1, OffNotConfirmedSound
  <2> QED BY <2>2 DEF d
<1>10. CASE keeps /\ d = NoOp(i)
  <2>1. Made("WATERING", i.session, i.fault, NoSession, NoReason, << >>, d)
    BY <1>10 DEF NoOp, Made
  <2> HIDE DEF d
  <2>2. Typed(d) /\ Justified(i, e, d)
    BY <1>10, <2>1, IdlingTuples, KeepAll
  <2> QED BY <2>2 DEF d
<1>11. \/ commits \/ ends
       \/ e.kind \in {"OnConfirmed", "MoistureReport", "WatchdogFired", "OffNotConfirmed"}
       \/ (e.kind = "PulseDeadlineReached" /\ d = Do(i, <<ExecuteOff>>))
       \/ (e.kind = "OffConfirmed" /\ d = PulseOffToSoaking(i, e.at))
       \/ (keeps /\ d = NoOp(i))
  <2>1. CASE e.kind = "OnConfirmTimeout" /\ open /\ i.session.confirmed = NoTime
    <3>1. d = CommitTermination(i, "ACTUATOR_FAULT", "ACTUATOR_ON_TIMEOUT")
      BY <2>1 DEF DecideWatering, TerminalRequests
    <3> HIDE DEF d
    <3> QED BY <1>1, <2>1, <3>1
  <2>2. CASE e.kind = "PulseDeadlineReached" /\ open /\ i.session.mode = "AUTO"
    <3>1. d = Do(i, <<ExecuteOff>>)
      BY <2>2 DEF DecideWatering, TerminalRequests
    <3> HIDE DEF d
    <3> QED BY <2>2, <3>1
  <2>3. CASE e.kind = "ManualDeadlineReached" /\ open /\ i.session.mode = "MANUAL"
    <3>1. d = CommitTermination(i, "MANUAL_COMPLETE", NoFault)
      BY <2>3 DEF DecideWatering, TerminalRequests
    <3> HIDE DEF d
    <3> QED BY <1>1, <2>3, <3>1
  <2>4. CASE e.kind \in DOMAIN TerminalRequests /\ open
    <3>1. d = CommitTermination(i, TerminalRequests[e.kind], NoFault) /\ keeps
      BY <2>4 DEF DecideWatering, TerminalRequests
    <3>2. TerminalRequests[e.kind] \in Reasons
      BY <2>4, TerminalReasons
    <3> HIDE DEF d, keeps
    <3> QED BY <1>1, <3>1, <3>2
  <2>5. CASE e.kind = "ActuatorBecameUnavailable" /\ open
    <3>1. d = CommitTermination(i, "ACTUATOR_FAULT", "ACTUATOR_UNAVAILABLE")
      BY <2>5 DEF DecideWatering, TerminalRequests
    <3> HIDE DEF d
    <3> QED BY <1>1, <2>5, <3>1
  <2>6. CASE e.kind = "ExternalActuatorOff"
    <3>1. \/ d = FinalizeWatering(i, "EXTERNAL_ACTUATOR_STATE_CHANGE", e.at, <<ExecuteOff>>)
          \/ d = FinalizeWatering(i, i.session.pending, e.at, << >>)
      BY <2>6 DEF DecideWatering, TerminalRequests
    <3>2. OffSeen(e)
      BY <2>6 DEF OffSeen
    <3> HIDE DEF d
    <3> QED BY <1>1, <3>1, <3>2
  <2>7. CASE e.kind = "OffConfirmed"
    <3>1. \/ d = FinalizeWatering(i, i.session.pending, e.at, << >>)
          \/ d = PulseOffToSoaking(i, e.at)
          \/ d = FinalizeWatering(i, "MANUAL_COMPLETE", e.at, << >>)
      BY <2>7 DEF DecideWatering, TerminalRequests
    <3>2. OffSeen(e)
      BY <2>7 DEF OffSeen
    <3> HIDE DEF d
    <3> QED BY <1>1, <2>7, <3>1, <3>2
  <2>8. CASE /\ ~(e.kind = "OnConfirmTimeout" /\ open /\ i.session.confirmed = NoTime)
             /\ ~(e.kind = "PulseDeadlineReached" /\ open /\ i.session.mode = "AUTO")
             /\ ~(e.kind = "ManualDeadlineReached" /\ open /\ i.session.mode = "MANUAL")
             /\ ~(e.kind \in DOMAIN TerminalRequests /\ open)
             /\ ~(e.kind = "ActuatorBecameUnavailable" /\ open)
             /\ e.kind \notin {"ExternalActuatorOff", "OffConfirmed", "OnConfirmed",
                               "MoistureReport", "WatchdogFired", "OffNotConfirmed"}
    <3>1. e.kind # "StartupPersistedWatering"
      BY EventTyped
    <3>2. d = NoOp(i)
      BY <2>8, <3>1 DEF DecideWatering, TerminalRequests
    <3> HIDE DEF d
    <3> QED BY <2>8, <3>2
  <2> HIDE DEF d, commits, ends, open
  <2> QED BY <2>1, <2>2, <2>3, <2>4, <2>5, <2>6, <2>7, <2>8
<1> HIDE DEF d, commits, ends, keeps
<1> QED BY <1>2, <1>3, <1>4, <1>5, <1>6, <1>7, <1>8, <1>9, <1>10, <1>11

-----------------------------------------------------------------------------
(* SOAKING. *)

(* The action lists of SOAKING. *)
Soaking(acts) ==
    /\ acts \in Seq(Actions)
    /\ \A n \in DOMAIN acts : acts[n] \notin {TurnOn, RemoveBlocker(Unconfirmed)}

(* A decision that stays in SOAKING with a session and asks for nothing    *)
(* but the slot.                                                           *)
LEMMA SoakOnSound ==
  ASSUME NEW i \in Situations, NEW e \in Events, i.state = "SOAKING",
         NEW d, NEW s \in OpenSessions, NEW acts, Soaking(acts),
         Made("SOAKING", s, i.fault, NoSession, NoReason, acts, d)
  PROVE  Typed(d) /\ Justified(i, e, d)
BY OpenIsOpen
   DEF Soaking, Made, Typed, Justified, Situations, EndsOnEvidence, LiftsOnEvidence,
       FreesWhenDry, StartsOnGrant, AsksBeforeStart, StaysWatering, SoaksAfterOff,
       StaysFaulty, Has, Sessions, ReasonOrNone, States, Owning

(* The action lists of a zone in SOAKING. *)
LEMMA SoakTuples ==
  /\ Soaking(<< >>) /\ Soaking(<<Persist>>) /\ Soaking(<<RequestSlot>>)
  /\ Soaking(<<ReleaseSlot>>) /\ Soaking(<<Persist, ReleaseSlot>>)
  /\ Soaking(<<Persist, ExecuteOff, ReleaseSlot>>)
<1>1. Soaking(<< >>) /\ Soaking(<<Persist>>) /\ Soaking(<<RequestSlot>>)
      /\ Soaking(<<ReleaseSlot>>)
  BY PlainActions DEF Soaking, Persist, RequestSlot, ReleaseSlot, TurnOn, RemoveBlocker
<1>2. Soaking(<<Persist, ReleaseSlot>>)
  BY PlainActions DEF Soaking, Persist, ReleaseSlot, TurnOn, RemoveBlocker
<1>3. Soaking(<<Persist, ExecuteOff, ReleaseSlot>>)
  BY PlainActions DEF Soaking, Persist, ExecuteOff, ReleaseSlot, TurnOn, RemoveBlocker
<1> QED BY <1>1, <1>2, <1>3

(* The end of a soak, for any of its reasons. *)
LEMMA FinalizeSoakingSound ==
  ASSUME NEW i \in Situations, NEW e \in Events, i.state = "SOAKING",
         i.session \in OpenSessions, NEW st \in {"IDLE", "DISABLED", "FAULT"},
         NEW reason \in ReasonOrNone, NEW f \in FaultOrNone, NEW d,
         NEW acts \in {<<Persist, ReleaseSlot>>, <<Persist, ExecuteOff, ReleaseSlot>>},
         Made(st, NoSession, f, i.session, reason, acts, d)
  PROVE  Typed(d) /\ Justified(i, e, d)
<1>1. Soaking(acts) /\ \A n \in DOMAIN acts : acts[n] # RequestSlot
  <2>1. CASE acts = <<Persist, ReleaseSlot>>
    BY <2>1, SoakTuples DEF Persist, ReleaseSlot, RequestSlot
  <2>2. CASE acts = <<Persist, ExecuteOff, ReleaseSlot>>
    BY <2>2, SoakTuples DEF Persist, ExecuteOff, ReleaseSlot, RequestSlot
  <2> QED BY <2>1, <2>2
<1>2. /\ acts \in Seq(Actions) /\ st \in States
      /\ \A n \in DOMAIN acts : acts[n] \notin {TurnOn, RequestSlot}
      /\ \A n \in DOMAIN acts : acts[n] # RemoveBlocker(Unconfirmed)
  BY <1>1 DEF States, Soaking
<1> QED BY <1>2, CloseSound

(* _finalize_soaking_fault *)
LEMMA SoakingFaultSound ==
  ASSUME NEW i \in Situations, NEW e \in Events, i.state = "SOAKING",
         i.session \in OpenSessions, NEW row, NEW reason \in ReasonOrNone,
         NEW fault \in FaultOrNone
  PROVE  LET d == FinalizeSoakingFault(i, row, reason, fault)
         IN  Typed(d) /\ Justified(i, e, d)
<1> DEFINE d == FinalizeSoakingFault(i, row, reason, fault)
<1>1. Made("FAULT", NoSession, fault, i.session, reason, <<Persist, ReleaseSlot>>, d)
  BY DEF Made, FinalizeSoakingFault, FinalizeSoaking, Latch, Close, Go, NoOp
<1> HIDE DEF d
<1>2. Typed(d) /\ Justified(i, e, d)
  BY <1>1, FinalizeSoakingSound
<1> QED BY <1>2 DEF d

(* _finalize_soaking_cancel *)
LEMMA SoakingCancelSound ==
  ASSUME NEW i \in Situations, NEW e \in Events, i.state = "SOAKING",
         i.session \in OpenSessions, NEW row, NEW reason \in ReasonOrNone,
         NEW st \in {"IDLE", "DISABLED"}
  PROVE  LET d == FinalizeSoakingCancel(i, row, reason, st)
         IN  Typed(d) /\ Justified(i, e, d)
<1> DEFINE d == FinalizeSoakingCancel(i, row, reason, st)
<1>1. Made(st, NoSession, i.fault, i.session, reason, <<Persist, ExecuteOff, ReleaseSlot>>, d)
  BY DEF Made, FinalizeSoakingCancel, FinalizeSoaking, Close, Go, NoOp
<1>2. i.fault \in FaultOrNone
  BY DEF Situations
<1> HIDE DEF d
<1>3. Typed(d) /\ Justified(i, e, d)
  BY <1>1, <1>2, FinalizeSoakingSound
<1> QED BY <1>3 DEF d

(* _finalize_soaking_completion *)
LEMMA SoakingCompletionSound ==
  ASSUME NEW i \in Situations, NEW e \in Events, i.state = "SOAKING",
         i.session \in OpenSessions, NEW row, NEW reason \in ReasonOrNone
  PROVE  LET d == FinalizeSoakingCompletion(i, row, reason)
         IN  Typed(d) /\ Justified(i, e, d)
<1> DEFINE d == FinalizeSoakingCompletion(i, row, reason)
           st == IF i.enabled THEN "IDLE" ELSE "DISABLED"
<1>1. Made(st, NoSession, i.fault, i.session, reason, <<Persist, ReleaseSlot>>, d)
  BY DEF Made, FinalizeSoakingCompletion, FinalizeSoaking, Close, Go, NoOp
<1>2. i.fault \in FaultOrNone /\ st \in {"IDLE", "DISABLED", "FAULT"}
  BY DEF Situations
<1> HIDE DEF d, st
<1>3. Typed(d) /\ Justified(i, e, d)
  BY <1>1, <1>2, FinalizeSoakingSound
<1> QED BY <1>3 DEF d

(* The reasons and faults that end a session in SOAKING. *)
LEMMA SoakReasons ==
  /\ {"TARGET_REACHED", "MAX_CYCLES", "MAX_SESSION_RUNTIME", "DAILY_RUNTIME_LIMIT",
      "ACTUATOR_FAULT", "SENSOR_FAULT", "USER_STOP", "ZONE_DISABLED", "CONFIG_RELOAD",
      "CONFIG_CHANGED", "EXTERNAL_ACTUATOR_STATE_CHANGE"} \subseteq ReasonOrNone
  /\ {"ACTUATOR_UNAVAILABLE", "SENSOR_INVALID", "SENSOR_UNAVAILABLE", "SENSOR_STALE",
      "ACTUATOR_OFF_TIMEOUT"} \subseteq FaultOrNone
BY DEF ReasonOrNone, Reasons, CancelReasons, FaultOrNone, Faults, AutoClearingFaults,
       SensorFaults

(* _soaking_recheck *)
LEMMA SoakingRecheckSound ==
  ASSUME NEW i \in Situations, NEW e \in Events, i.state = "SOAKING",
         i.session \in OpenSessions, e.kind \notin {"OffConfirmed", "OffNotConfirmed"}
  PROVE  LET d == SoakingRecheck(i) IN Typed(d) /\ Justified(i, e, d)
<1> DEFINE d == SoakingRecheck(i)
           completes == \E row \in {"T24", "T26", "T27", "T28"}, reason \in ReasonOrNone :
                          d = FinalizeSoakingCompletion(i, row, reason)
<1>1. CASE completes
  <2> HIDE DEF d
  <2>1. Typed(d) /\ Justified(i, e, d)
    BY <1>1, SoakingCompletionSound
  <2> QED BY <2>1 DEF d
<1>2. CASE d = FinalizeSoakingFault(i, "T32", "ACTUATOR_FAULT", "ACTUATOR_UNAVAILABLE")
  <2> HIDE DEF d
  <2>1. Typed(d) /\ Justified(i, e, d)
    BY <1>2, SoakReasons, SoakingFaultSound
  <2> QED BY <2>1 DEF d
<1>3. CASE d = Do(i, <<RequestSlot>>)
  <2>1. Made("SOAKING", i.session, i.fault, NoSession, NoReason, <<RequestSlot>>, d)
    BY <1>3 DEF Do, Go, NoOp, Made
  <2> HIDE DEF d
  <2>2. Typed(d) /\ Justified(i, e, d)
    BY <2>1, SoakTuples, SoakOnSound
  <2> QED BY <2>2 DEF d
<1>4. CASE d = StartPulse(i, "T25", i.session) /\ i.slotGranted /\ i.blockersEmpty
  <2> HIDE DEF d
  <2>1. Typed(d) /\ Justified(i, e, d)
    BY <1>4, StartPulseSound
  <2> QED BY <2>1 DEF d
<1>5. \/ d = FinalizeSoakingCompletion(i, "T24", "TARGET_REACHED")
      \/ d = FinalizeSoakingCompletion(i, "T26", "MAX_CYCLES")
      \/ d = FinalizeSoakingCompletion(i, "T27", "MAX_SESSION_RUNTIME")
      \/ d = FinalizeSoakingCompletion(i, "T28", "DAILY_RUNTIME_LIMIT")
      \/ d = FinalizeSoakingFault(i, "T32", "ACTUATOR_FAULT", "ACTUATOR_UNAVAILABLE")
      \/ d = Do(i, <<RequestSlot>>)
      \/ (d = StartPulse(i, "T25", i.session) /\ i.slotGranted /\ i.blockersEmpty)
  BY DEF SoakingRecheck
<1>6. \/ completes
      \/ d = FinalizeSoakingFault(i, "T32", "ACTUATOR_FAULT", "ACTUATOR_UNAVAILABLE")
      \/ d = Do(i, <<RequestSlot>>)
      \/ (d = StartPulse(i, "T25", i.session) /\ i.slotGranted /\ i.blockersEmpty)
  <2> HIDE DEF d
  <2> QED BY <1>5, SoakReasons
<1> HIDE DEF d, completes
<1> QED BY <1>1, <1>2, <1>3, <1>4, <1>6

(* _soaking_moisture *)
LEMMA SoakingMoistureSound ==
  ASSUME NEW i \in Situations, NEW e \in Events, i.state = "SOAKING",
         i.session \in OpenSessions, e.kind = "MoistureReport", NEW obs
  PROVE  LET d == SoakingMoisture(i, obs) IN Typed(d) /\ Justified(i, e, d)
<1> DEFINE d == SoakingMoisture(i, obs)
<1>1. \/ d = Go(i, "T22", "SOAKING", << >>)
      \/ d = FinalizeSoakingFault(i, "T29", "SENSOR_FAULT", "SENSOR_INVALID")
      \/ d = FinalizeSoakingFault(i, "T30", "SENSOR_FAULT", "SENSOR_UNAVAILABLE")
      \/ d = SoakingRecheck(i) \/ d = NoOp(i)
  BY DEF SoakingMoisture
<1>2. CASE d = Go(i, "T22", "SOAKING", << >>) \/ d = NoOp(i)
  <2> HIDE DEF d
  <2>1. Made("SOAKING", i.session, i.fault, NoSession, NoReason, << >>, d)
    BY <1>2, PlainMade
  <2>2. Typed(d) /\ Justified(i, e, d)
    BY <2>1, SoakTuples, SoakOnSound
  <2> QED BY <2>2 DEF d
<1> HIDE DEF d
<1>3. Typed(d) /\ Justified(i, e, d)
  BY <1>1, <1>2, SoakReasons, SoakingFaultSound, SoakingRecheckSound DEF d
<1> QED BY <1>3 DEF d

(* The soak is over, or an evaluation or a grant comes. *)
LEMMA SoakingDeadlineSound ==
  ASSUME NEW i \in Situations, NEW e \in Events, i.state = "SOAKING",
         i.session \in OpenSessions,
         e.kind \in {"SoakDeadlineReached", "AutoEvaluate", "SlotGranted"}
  PROVE  LET d == SoakingDeadlineOrEvaluate(i, e) IN Typed(d) /\ Justified(i, e, d)
<1> DEFINE d == SoakingDeadlineOrEvaluate(i, e)
           grace == Grace(i.session)
           timer == <<ArmTimer("GRACE", grace)>>
<1>1. \/ Made("SOAKING", i.session, i.fault, NoSession, NoReason, << >>, d)
      \/ Made("SOAKING", i.session, i.fault, NoSession, NoReason, <<ReleaseSlot>>, d)
      \/ Made("SOAKING", i.session, i.fault, NoSession, NoReason, timer, d)
      \/ d = SoakingRecheck(i)
  BY DEF SoakingDeadlineOrEvaluate, Do, Go, NoOp, Made
<1>2. Soaking(timer)
  <2>1. grace \in Int
    BY Constants DEF Grace, OpenSessions
  <2> HIDE DEF grace
  <2> QED BY <2>1, PlainActions
          DEF Soaking, TimerKinds, ArmTimer, TurnOn, RemoveBlocker
<1> HIDE DEF d, timer
<1>3. Typed(d) /\ Justified(i, e, d)
  BY <1>1, <1>2, SoakTuples, SoakOnSound, SoakingRecheckSound
<1> QED BY <1>3 DEF d

(* _soaking_grace *)
LEMMA SoakingGraceSound ==
  ASSUME NEW i \in Situations, NEW e \in Events, i.state = "SOAKING",
         i.session \in OpenSessions, e.kind = "GraceDeadlineReached"
  PROVE  LET d == SoakingGrace(i) IN Typed(d) /\ Justified(i, e, d)
<1> DEFINE d == SoakingGrace(i)
<1>1. \/ d = SoakingRecheck(i)
      \/ d = FinalizeSoakingFault(i, "T29", "SENSOR_FAULT", "SENSOR_INVALID")
      \/ d = FinalizeSoakingFault(i, "T30", "SENSOR_FAULT", "SENSOR_UNAVAILABLE")
      \/ d = FinalizeSoakingFault(i, "T31", "SENSOR_FAULT", "SENSOR_STALE")
  BY DEF SoakingGrace
<1> HIDE DEF d
<1>2. Typed(d) /\ Justified(i, e, d)
  BY <1>1, SoakReasons, SoakingFaultSound, SoakingRecheckSound
<1> QED BY <1>2 DEF d

(* Interference while soaking: the session waits for OFF evidence. *)
LEMMA InterferenceSound ==
  ASSUME NEW i \in Situations, NEW e \in Events, i.state = "SOAKING",
         i.session \in OpenSessions
  PROVE  LET d == With(Do(i, <<Persist, AddBlocker("integration_off_unconfirmed"), ExecuteOff>>),
                       [i.session EXCEPT !.pending = "EXTERNAL_ACTUATOR_STATE_CHANGE"])
         IN  Typed(d) /\ Justified(i, e, d)
<1> DEFINE acts == <<Persist, AddBlocker("integration_off_unconfirmed"), ExecuteOff>>
           s == [i.session EXCEPT !.pending = "EXTERNAL_ACTUATOR_STATE_CHANGE"]
           d == With(Do(i, acts), s)
<1>1. Made("SOAKING", s, i.fault, NoSession, NoReason, acts, d)
  BY DEF With, Do, Go, NoOp, Made
<1>2. s \in OpenSessions
  BY SoakReasons DEF OpenSessions
<1>3. Soaking(acts)
  BY PlainActions
     DEF Soaking, KeyReasons, Unconfirmed, Persist, AddBlocker, ExecuteOff, TurnOn, RemoveBlocker
<1> HIDE DEF d, s, acts
<1>4. Typed(d) /\ Justified(i, e, d)
  BY <1>1, <1>2, <1>3, SoakOnSound
<1> QED BY <1>4 DEF d, acts, s

(* Every event in SOAKING while no end is pending. *)
LEMMA SoakingOpenSound ==
  ASSUME NEW i \in Situations, NEW e \in Events, i.state = "SOAKING",
         i.session \in OpenSessions
  PROVE  LET d == DecideSoakingOpen(i, e) IN Typed(d) /\ Justified(i, e, d)
<1> DEFINE d == DecideSoakingOpen(i, e)
           noted == With(Do(i, <<Persist, AddBlocker("integration_off_unconfirmed"), ExecuteOff>>),
                         [i.session EXCEPT !.pending = "EXTERNAL_ACTUATOR_STATE_CHANGE"])
<1>1. \/ (e.kind = "MoistureReport" /\ d = SoakingMoisture(i, e.obs))
      \/ (/\ e.kind \in {"SoakDeadlineReached", "AutoEvaluate", "SlotGranted"}
          /\ d = SoakingDeadlineOrEvaluate(i, e))
      \/ (e.kind = "GraceDeadlineReached" /\ d = SoakingGrace(i))
      \/ d = FinalizeSoakingFault(i, "T32", "ACTUATOR_FAULT", "ACTUATOR_UNAVAILABLE")
      \/ d = noted
      \/ d = FinalizeSoakingCancel(i, "T35", "USER_STOP", "IDLE")
      \/ d = FinalizeSoakingCancel(i, "T36", "ZONE_DISABLED", "DISABLED")
      \/ d = Go(i, "T37", "SOAKING", <<Persist>>)
      \/ d = FinalizeSoakingCancel(i, "T38", "CONFIG_RELOAD", "IDLE")
      \/ d = FinalizeSoakingCancel(i, "T39", "CONFIG_CHANGED", "IDLE")
      \/ d = NoOp(i)
  <2>1. e.kind # "StartupPersistedSoaking"
    BY EventTyped
  <2> QED BY <2>1 DEF DecideSoakingOpen
<1>2. CASE d = NoOp(i) \/ d = Go(i, "T37", "SOAKING", <<Persist>>)
  <2> HIDE DEF d
  <2>1. \/ Made("SOAKING", i.session, i.fault, NoSession, NoReason, << >>, d)
        \/ Made("SOAKING", i.session, i.fault, NoSession, NoReason, <<Persist>>, d)
    BY <1>2, PlainMade
  <2>2. Typed(d) /\ Justified(i, e, d)
    BY <2>1, SoakTuples, SoakOnSound
  <2> QED BY <2>2 DEF d
<1>3. Typed(noted) /\ Justified(i, e, noted)
  BY InterferenceSound
<1> HIDE DEF d, noted
<1>4. CASE d = FinalizeSoakingFault(i, "T32", "ACTUATOR_FAULT", "ACTUATOR_UNAVAILABLE")
  BY <1>4, SoakReasons, SoakingFaultSound DEF d
<1>5. CASE \/ d = FinalizeSoakingCancel(i, "T35", "USER_STOP", "IDLE")
           \/ d = FinalizeSoakingCancel(i, "T36", "ZONE_DISABLED", "DISABLED")
           \/ d = FinalizeSoakingCancel(i, "T38", "CONFIG_RELOAD", "IDLE")
           \/ d = FinalizeSoakingCancel(i, "T39", "CONFIG_CHANGED", "IDLE")
  <2>1. Typed(d) /\ Justified(i, e, d)
    BY <1>5, SoakReasons, SoakingCancelSound
  <2> QED BY <2>1 DEF d
<1>6. CASE e.kind = "MoistureReport" /\ d = SoakingMoisture(i, e.obs)
  <2>1. Typed(d) /\ Justified(i, e, d)
    BY <1>6, SoakingMoistureSound
  <2> QED BY <2>1 DEF d
<1>7. CASE /\ e.kind \in {"SoakDeadlineReached", "AutoEvaluate", "SlotGranted"}
           /\ d = SoakingDeadlineOrEvaluate(i, e)
  <2>1. Typed(d) /\ Justified(i, e, d)
    BY <1>7, SoakingDeadlineSound
  <2> QED BY <2>1 DEF d
<1>8. CASE e.kind = "GraceDeadlineReached" /\ d = SoakingGrace(i)
  <2>1. Typed(d) /\ Justified(i, e, d)
    BY <1>8, SoakingGraceSound
  <2> QED BY <2>1 DEF d
<1>9. CASE d = noted
  <2>1. Typed(d) /\ Justified(i, e, d)
    BY <1>3, <1>9
  <2> QED BY <2>1 DEF d
<1> QED BY <1>1, <1>2, <1>4, <1>5, <1>6, <1>7, <1>8, <1>9

(* Every event in SOAKING while an end is pending. *)
LEMMA SoakingPendingSound ==
  ASSUME NEW i \in Situations, NEW e \in Events, i.state = "SOAKING",
         i.session \in OpenSessions
  PROVE  LET d == DecideSoakingPending(i, e) IN Typed(d) /\ Justified(i, e, d)
<1> DEFINE d == DecideSoakingPending(i, e)
<1>1. CASE OffSeen(e)
  <2> DEFINE reason == "EXTERNAL_ACTUATOR_STATE_CHANGE"
             closed == CloseRuntime(i.session, e.at, reason)
             st == IF i.enabled THEN "IDLE" ELSE "DISABLED"
             acts == <<Persist, RemoveBlocker("integration_off_unconfirmed"), ReleaseSlot>>
  <2>1. Made(st, NoSession, i.fault, closed, reason, acts, d)
    BY <1>1 DEF DecideSoakingPending, FinalizeSoakingExternal, FinalizeSoaking, Close, Go,
                NoOp, Made, OffSeen
  <2>2. closed \in OpenSessions
    BY <1>1, EventTyped, CloseRuntimeOpen DEF OffSeen
  <2>3. /\ acts \in Seq(Actions)
        /\ \A n \in DOMAIN acts : acts[n] \notin {TurnOn, RequestSlot}
    BY PlainActions DEF KeyReasons, Unconfirmed, Persist, RemoveBlocker, ReleaseSlot, TurnOn,
                        RequestSlot
  <2>4. st \in States /\ st \notin {"WATERING", "SOAKING"} /\ i.fault \in FaultOrNone
        /\ reason \in ReasonOrNone
    BY SoakReasons DEF States, Situations
  <2> HIDE DEF d, acts, closed, st, reason
  <2>5. Typed(d) /\ Justified(i, e, d)
    BY <1>1, <2>1, <2>2, <2>3, <2>4, CloseSound
  <2> QED BY <2>5 DEF d
<1>2. CASE e.kind = "OffNotConfirmed"
  <2> DEFINE s == [i.session EXCEPT !.pending = "ACTUATOR_FAULT"]
             acts == <<Persist>>
  <2>1. Made("FAULT", s, "ACTUATOR_OFF_TIMEOUT", NoSession, NoReason, acts, d)
    BY <1>2 DEF DecideSoakingPending, SoakingOffNotConfirmed, With, Latch, Go, NoOp, Made
  <2>2. s \in OpenSessions /\ s # NoSession
    <3>1. s \in OpenSessions
      BY SoakReasons DEF OpenSessions
    <3> HIDE DEF s
    <3> QED BY <3>1, OpenIsOpen
  <2>3. /\ acts \in Seq(Actions)
        /\ \A n \in DOMAIN acts :
             acts[n] \notin {TurnOn, RequestSlot, ReleaseSlot, RemoveBlocker(Unconfirmed)}
    BY PlainActions DEF Persist, RemoveBlocker, ReleaseSlot, TurnOn, RequestSlot
  <2>4. "ACTUATOR_OFF_TIMEOUT" \in FaultOrNone
    BY SoakReasons
  <2> HIDE DEF d, s, acts
  <2>5. Typed(d) /\ Justified(i, e, d)
    BY <1>2, <2>1, <2>2, <2>3, <2>4
       DEF Made, Typed, Justified, Situations, EndsOnEvidence, LiftsOnEvidence,
           FreesWhenDry, StartsOnGrant, AsksBeforeStart, StaysWatering, SoaksAfterOff,
           StaysFaulty, Has, Sessions, ReasonOrNone, States, Owning, OffSeen
  <2> QED BY <2>5 DEF d
<1>3. CASE ~OffSeen(e) /\ e.kind # "OffNotConfirmed"
  <2>1. Made("SOAKING", i.session, i.fault, NoSession, NoReason, << >>, d)
    BY <1>3 DEF DecideSoakingPending, NoOp, Made, OffSeen
  <2> HIDE DEF d
  <2>2. Typed(d) /\ Justified(i, e, d)
    BY <2>1, SoakTuples, SoakOnSound
  <2> QED BY <2>2 DEF d
<1> QED BY <1>1, <1>2, <1>3

-----------------------------------------------------------------------------
(* FAULT. *)

(* A fault that clears itself. *)
LEMMA FaultAutoClearSound ==
  ASSUME NEW i \in Situations, NEW e \in Events, i.state = "FAULT"
  PROVE  LET d == FaultAutoClear(i) IN Typed(d) /\ Justified(i, e, d)
<1> DEFINE d == FaultAutoClear(i)
<1>1. \/ (i.session = NoSession
          /\ Made("IDLE", i.session, NoFault, NoSession, NoReason, <<Persist>>, d))
      \/ Made("FAULT", i.session, i.fault, NoSession, NoReason, << >>, d)
  BY DEF FaultAutoClear, Latch, Go, NoOp, Made
<1>2. i.fault \in FaultOrNone /\ NoFault \in FaultOrNone /\ Owning(i.state, i.session)
  BY DEF Situations, FaultOrNone, Owning
<1>3. /\ Idling(<<Persist>>) /\ Idling(<< >>)
      /\ \A acts : Idling(acts) =>
           /\ acts \in Seq(Actions)
           /\ \A n \in DOMAIN acts : acts[n] \notin {TurnOn, RequestSlot}
           /\ \A n \in DOMAIN acts : acts[n] \notin {ReleaseSlot, RemoveBlocker(Unconfirmed)}
  BY IdlingTuples DEF Idling
<1> HIDE DEF d
<1>4. Typed(d) /\ Justified(i, e, d)
  BY <1>1, <1>2, <1>3, GoSound
<1> QED BY <1>4 DEF d

(* _clear_fault_request *)
LEMMA ClearFaultSound ==
  ASSUME NEW i \in Situations, NEW e \in Events, i.state = "FAULT",
         e.kind = "ClearFaultRequested"
  PROVE  LET d == ClearFaultRequest(i) IN Typed(d) /\ Justified(i, e, d)
<1> DEFINE d == ClearFaultRequest(i)
<1>1. \/ Made("IDLE", i.session, NoFault, NoSession, NoReason, <<Persist>>, d)
      \/ Made("FAULT", i.session, i.fault, NoSession, NoReason, << >>, d)
  BY DEF ClearFaultRequest, Latch, Go, NoOp, Made
<1>2. i.fault \in FaultOrNone /\ NoFault \in FaultOrNone /\ Owning(i.state, i.session)
  BY DEF Situations, FaultOrNone, Owning
<1>3. /\ Idling(<<Persist>>) /\ Idling(<< >>)
      /\ \A acts : Idling(acts) =>
           /\ acts \in Seq(Actions)
           /\ \A n \in DOMAIN acts : acts[n] \notin {TurnOn, RequestSlot}
           /\ \A n \in DOMAIN acts : acts[n] \notin {ReleaseSlot, RemoveBlocker(Unconfirmed)}
  BY IdlingTuples DEF Idling
<1> HIDE DEF d
<1>4. Typed(d) /\ Justified(i, e, d)
  BY <1>1, <1>2, <1>3, GoSound
<1> QED BY <1>4 DEF d

(* Every event in FAULT. *)
LEMMA FaultSound ==
  ASSUME NEW i \in Situations, NEW e \in Events, i.state = "FAULT"
  PROVE  LET d == DecideFault(i, e) IN Typed(d) /\ Justified(i, e, d)
<1> DEFINE d == DecideFault(i, e)
<1>1. i.fault \in FaultOrNone /\ "CONFIGURATION_INVALID" \in FaultOrNone
      /\ Owning(i.state, i.session)
  BY DEF Situations, FaultOrNone, Faults, Owning
<1>2. \/ (e.kind = "ManualStartRequested" /\ d = ManualStart(i, e, "T40"))
      \/ d = FaultAutoClear(i)
      \/ (OffSeen(e) /\ i.session # NoSession /\ d = CloseOpenAccounting(i, e.at))
      \/ d = ExternalFlow(i, "none", FALSE) \/ d = ExternalFlow(i, "none", TRUE)
      \/ (e.kind = "ClearFaultRequested" /\ d = ClearFaultRequest(i))
      \/ (e.kind = "DisableRequested" /\ d = Go(i, "T45", "DISABLED", <<Persist, ReleaseSlot>>))
      \/ d = DecideConfigurationInvalid(i, "T5")
      \/ d = NoOp(i)
  BY DEF DecideFault, OffSeen
<1>3. CASE e.kind = "DisableRequested" /\ d = Go(i, "T45", "DISABLED", <<Persist, ReleaseSlot>>)
  <2> DEFINE acts == <<Persist, ReleaseSlot>>
  <2>1. /\ acts \in Seq(Actions)
        /\ \A n \in DOMAIN acts : acts[n] \notin {TurnOn, RequestSlot}
        /\ \A n \in DOMAIN acts : acts[n] # RemoveBlocker(Unconfirmed)
    BY PlainActions DEF Persist, ReleaseSlot, TurnOn, RequestSlot, RemoveBlocker
  <2> HIDE DEF d, acts
  <2>2. Made("DISABLED", i.session, i.fault, NoSession, NoReason, acts, d)
    BY <1>3, PlainMade DEF acts
  <2>3. Typed(d) /\ Justified(i, e, d)
    BY <1>1, <1>3, <2>1, <2>2, GoSound
  <2> QED BY <2>3 DEF d
<1>4. CASE d = DecideConfigurationInvalid(i, "T5")
  <2> DEFINE acts == <<Persist>>
  <2>1. Made("FAULT", i.session, "CONFIGURATION_INVALID", NoSession, NoReason, acts, d)
    BY <1>4 DEF DecideConfigurationInvalid, Made, Latch, Go, NoOp
  <2>2. /\ acts \in Seq(Actions)
        /\ \A n \in DOMAIN acts :
             acts[n] \notin {TurnOn, RequestSlot, ReleaseSlot, RemoveBlocker(Unconfirmed)}
    BY PlainActions DEF Persist, TurnOn, RequestSlot, ReleaseSlot, RemoveBlocker
  <2> HIDE DEF d, acts
  <2>3. Typed(d) /\ Justified(i, e, d)
    BY <1>1, <2>1, <2>2, GoSound
  <2> QED BY <2>3 DEF d
<1> HIDE DEF d
<1>5. CASE e.kind = "ManualStartRequested" /\ d = ManualStart(i, e, "T40")
  <2>1. Typed(d) /\ Justified(i, e, d)
    BY <1>1, <1>5, ManualStartSound
  <2> QED BY <2>1 DEF d
<1>6. CASE d = ExternalFlow(i, "none", FALSE) \/ d = ExternalFlow(i, "none", TRUE)
  <2>1. Typed(d) /\ Justified(i, e, d)
    BY <1>1, <1>6, ExternalFlowSound
  <2> QED BY <2>1 DEF d
<1>7. CASE \/ d = FaultAutoClear(i)
           \/ (e.kind = "ClearFaultRequested" /\ d = ClearFaultRequest(i))
  <2>1. Typed(d) /\ Justified(i, e, d)
    BY <1>7, FaultAutoClearSound, ClearFaultSound
  <2> QED BY <2>1 DEF d
<1>8. CASE OffSeen(e) /\ i.session # NoSession /\ d = CloseOpenAccounting(i, e.at)
  <2>1. Typed(d) /\ Justified(i, e, d)
    BY <1>8, CloseOpenAccountingSound
  <2> QED BY <2>1 DEF d
<1>9. CASE d = NoOp(i)
  <2>1. Typed(d) /\ Justified(i, e, d)
    BY <1>1, <1>9, NoOpSound
  <2> QED BY <2>1 DEF d
<1> QED BY <1>2, <1>3, <1>4, <1>5, <1>6, <1>7, <1>8, <1>9 DEF d

-----------------------------------------------------------------------------

(* The controller core, for every configuration, every situation of a zone *)
(* and every event: the decision has its types, and it ends a session,     *)
(* frees the slot, lifts the off-unconfirmed fence, starts water or leaves *)
(* WATERING only in the cases Justified allows (decide(), with all its     *)
(* handlers).                                                              *)
THEOREM DecisionsJustified ==
  ASSUME NEW i \in Situations, NEW e \in Events, Owning(i.state, i.session)
  PROVE  Typed(Decide(i, e)) /\ Justified(i, e, Decide(i, e))
<1> DEFINE d == Decide(i, e)
<1>1. i.state \in States /\ i.session \in Sessions
  BY DEF Situations
<1>2. i.state \in {"WATERING", "SOAKING"} => i.session \in OpenSessions
  BY <1>1 DEF Owning, Sessions
<1>3. d = CASE i.state = "IDLE" -> DecideIdle(i, e)
            [] i.state = "DISABLED" -> DecideDisabled(i, e)
            [] i.state = "WATERING" -> DecideWatering(i, e)
            [] i.state = "SOAKING" -> DecideSoaking(i, e)
            [] i.state = "FAULT" -> DecideFault(i, e)
  BY EventTyped DEF Decide
<1> HIDE DEF d
<1>4. CASE i.state = "IDLE"
  <2>1. d = DecideIdle(i, e)
    BY <1>3, <1>4
  <2>2. Typed(d) /\ Justified(i, e, d)
    BY <1>4, <2>1, IdleSound
  <2> QED BY <2>2 DEF d
<1>5. CASE i.state = "DISABLED"
  <2>1. d = DecideDisabled(i, e)
    BY <1>3, <1>5
  <2>2. Typed(d) /\ Justified(i, e, d)
    BY <1>5, <2>1, DisabledSound
  <2> QED BY <2>2 DEF d
<1>6. CASE i.state = "WATERING"
  <2>1. d = DecideWatering(i, e)
    BY <1>3, <1>6
  <2>2. Typed(d) /\ Justified(i, e, d)
    BY <1>2, <1>6, <2>1, WateringSound
  <2> QED BY <2>2 DEF d
<1>7. CASE i.state = "SOAKING"
  <2>1. d = DecideSoakingPending(i, e) \/ d = DecideSoakingOpen(i, e)
    BY <1>3, <1>7 DEF DecideSoaking
  <2>2. Typed(d) /\ Justified(i, e, d)
    BY <1>2, <1>7, <2>1, SoakingPendingSound, SoakingOpenSound
  <2> QED BY <2>2 DEF d
<1>8. CASE i.state = "FAULT"
  <2>1. d = DecideFault(i, e)
    BY <1>3, <1>8
  <2>2. Typed(d) /\ Justified(i, e, d)
    BY <1>8, <2>1, FaultSound
  <2> QED BY <2>2 DEF d
<1> QED BY <1>1, <1>4, <1>5, <1>6, <1>7, <1>8 DEF States

(* The compensation of an ON command: the event it decides commits the     *)
(* termination or finds it committed, and asks for nothing but OFF.        *)
LEMMA OnlyOff ==
  ASSUME NEW i \in Situations, i.state \in {"WATERING", "FAULT"}, i.session # NoSession,
         NEW e \in Events,
         \/ e.kind \in {"ConfigChangedPrepare", "OnConfirmTimeout"}
         \/ (e.kind = "WatchdogFired" /\ i.session.freshUntil <= i.now)
         \/ (e.kind = "MoistureReport" /\ e.obs.class # "VALID")
  PROVE  LET d == Decide(i, e)
         IN  \A n \in DOMAIN d.actions : d.actions[n] \in {Persist, ExecuteOff}
<1> DEFINE d == Decide(i, e)
<1>1. i.session \in OpenSessions
  BY DEF Situations, Sessions
<1>2. CASE i.state = "FAULT"
  <2>1. d = NoOp(i)
    BY <1>2 DEF Decide, DecideFault, FaultAutoClear
  <2>2. d.actions = << >>
    BY <2>1 DEF NoOp
  <2> QED BY <2>2
<1>3. CASE i.state = "WATERING"
  <2>1. d = DecideWatering(i, e)
    BY <1>3, EventTyped DEF Decide
  <2>2. \/ d = NoOp(i) \/ d = Go(i, "T12", "WATERING", << >>)
        \/ \E reason, fault : d = CommitTermination(i, reason, fault)
    <3>1. CASE e.kind = "ConfigChangedPrepare"
      <4>1. d = NoOp(i) \/ d = CommitTermination(i, "CONFIG_CHANGED", NoFault)
        BY <2>1, <3>1 DEF DecideWatering, TerminalRequests
      <4> HIDE DEF d
      <4> QED BY <4>1
    <3>2. CASE e.kind = "OnConfirmTimeout"
      <4>1. d = NoOp(i) \/ d = CommitTermination(i, "ACTUATOR_FAULT", "ACTUATOR_ON_TIMEOUT")
        BY <2>1, <3>2 DEF DecideWatering, TerminalRequests
      <4> HIDE DEF d
      <4> QED BY <4>1
    <3>3. CASE e.kind = "WatchdogFired" /\ i.session.freshUntil <= i.now
      <4>1. d = DecideWatchdogFired(i, e.token)
        BY <2>1, <3>3 DEF DecideWatering, TerminalRequests
      <4>2. ~(i.session.freshUntil > i.now)
        BY <1>1, <3>3 DEF OpenSessions, Situations
      <4>3. d = NoOp(i) \/ d = CommitTermination(i, "SENSOR_FAULT", "SENSOR_STALE")
        BY <4>1, <4>2 DEF DecideWatchdogFired
      <4> HIDE DEF d
      <4> QED BY <4>3
    <3>4. CASE e.kind = "MoistureReport" /\ e.obs.class # "VALID"
      <4>1. d = WateringMoisture(i, e.obs)
        BY <2>1, <3>4 DEF DecideWatering, TerminalRequests
      <4>2. \/ d = NoOp(i) \/ d = Go(i, "T12", "WATERING", << >>)
            \/ d = CommitTermination(i, "SENSOR_FAULT", "SENSOR_INVALID")
            \/ d = CommitTermination(i, "SENSOR_FAULT", "SENSOR_UNAVAILABLE")
        BY <3>4, <4>1 DEF WateringMoisture
      <4> HIDE DEF d
      <4> QED BY <4>2
    <3> QED BY <3>1, <3>2, <3>3, <3>4
  <2> HIDE DEF d
  <2>3. CASE d = NoOp(i) \/ d = Go(i, "T12", "WATERING", << >>)
    <3>1. d.actions = << >>
      BY <2>3, PlainMade DEF Made
    <3> QED BY <3>1 DEF d
  <2>4. ASSUME NEW reason, NEW fault, d = CommitTermination(i, reason, fault)
        PROVE  d.actions = <<Persist, ExecuteOff>>
    BY <2>4 DEF CommitTermination, With, Latch, Do, Go, NoOp
  <2>5. d.actions = <<Persist, ExecuteOff>> =>
         \A n \in DOMAIN d.actions : d.actions[n] \in {Persist, ExecuteOff}
    OBVIOUS
  <2> QED BY <2>2, <2>3, <2>4, <2>5 DEF d
<1> QED BY <1>2, <1>3
-----------------------------------------------------------------------------
(* The committed reason. *)

(* A session that is open although its zone is neither watering nor in an  *)
(* undisturbed soak: its OFF could not be proven.                          *)
LeftOpen(state, session) ==
    /\ session # NoSession /\ state # "WATERING"
    /\ ~(state = "SOAKING" /\ session.pending = NoReason)

(* In SOAKING only interference can be committed. *)
SoakReason(state, session) ==
    state = "SOAKING" => session.pending \in {NoReason, "EXTERNAL_ACTUATOR_STATE_CHANGE"}

(* A session left open has its blocker, so an idle zone cannot start over  *)
(* it.                                                                     *)
Upright(i) ==
    /\ i.state = "IDLE" /\ i.session # NoSession => ~i.blockersEmpty
    /\ SoakReason(i.state, i.session)

(* A committed reason ends its session, or an actuator fault replaces it;  *)
(* who leaves a session open fences it, or found it open.                  *)
Follow(i, d) ==
    i.session # NoSession /\ i.session.pending # NoReason =>
      IF d.session = NoSession THEN d.closed # NoSession /\ d.reason = i.session.pending
      ELSE d.session.pending \in {i.session.pending, "ACTUATOR_FAULT"}
Fence(i, e, d) ==
    LeftOpen(d.state, d.session) =>
      /\ ~Has(d, RemoveBlocker(Unconfirmed))
      /\ \/ Has(d, AddBlocker(Unconfirmed))
         \/ /\ LeftOpen(i.state, i.session)
            /\ i.state = "FAULT" =>
                 d.state = "FAULT" \/ e.kind \in {"DisableRequested", "ClearFaultRequested"}
Committed(i, e, d) == Follow(i, d) /\ Fence(i, e, d) /\ SoakReason(d.state, d.session)

(* A decision that keeps the session, and the state or one without water.  *)
LEMMA KeptCommitted ==
  ASSUME NEW i \in Situations, NEW e \in Events, Upright(i), NEW st, NEW f, NEW acts, NEW d,
         Made(st, i.session, f, NoSession, NoReason, acts, d),
         st = i.state \/ {st, i.state} \subseteq {"IDLE", "DISABLED", "FAULT"},
         i.state = "FAULT" /\ i.session # NoSession =>
           st = "FAULT" \/ e.kind \in {"DisableRequested", "ClearFaultRequested"},
         \A n \in DOMAIN acts : acts[n] # RemoveBlocker(Unconfirmed)
  PROVE  Committed(i, e, d)
BY DEF Made, Upright, Committed, Follow, Fence, SoakReason, LeftOpen, Has

(* A decision that ends the session, with its reason. *)
LEMMA ClosedCommitted ==
  ASSUME NEW i \in Situations, NEW e \in Events, NEW st \in {"IDLE", "DISABLED", "FAULT"},
         NEW f, NEW closed \in OpenSessions, NEW reason, NEW acts, NEW d,
         Made(st, NoSession, f, closed, reason, acts, d),
         i.session.pending \in {NoReason, reason}
  PROVE  Committed(i, e, d)
BY OpenIsOpen DEF Made, Committed, Follow, Fence, SoakReason, LeftOpen

(* A decision for WATERING. *)
LEMMA WateringCommitted ==
  ASSUME NEW i \in Situations, NEW e \in Events, NEW s \in OpenSessions, NEW f, NEW acts, NEW d,
         Made("WATERING", s, f, NoSession, NoReason, acts, d),
         \/ i.session = NoSession \/ i.session.pending = NoReason
         \/ s.pending \in {i.session.pending, "ACTUATOR_FAULT"}
  PROVE  Committed(i, e, d)
BY OpenIsOpen DEF Made, Committed, Follow, Fence, SoakReason, LeftOpen

(* No list of plain actions lifts the fence. *)
LEMMA FenceKept ==
  /\ \A acts : Idling(acts) \/ Soaking(acts) =>
       \A n \in DOMAIN acts : acts[n] # RemoveBlocker(Unconfirmed)
  /\ \A n \in DOMAIN <<Persist, ReleaseSlot>> :
       <<Persist, ReleaseSlot>>[n] # RemoveBlocker(Unconfirmed)
  /\ \A n \in DOMAIN <<Persist, ScheduleEvaluation>> :
       <<Persist, ScheduleEvaluation>>[n] # RemoveBlocker(Unconfirmed)
  /\ \A on \in BOOLEAN, r \in {"external_flow"} :
       /\ \A n \in DOMAIN <<SetExternalOn(on), AddBlocker(r)>> :
            <<SetExternalOn(on), AddBlocker(r)>>[n] # RemoveBlocker(Unconfirmed)
       /\ \A n \in DOMAIN <<SetExternalOn(on), RemoveBlocker(r)>> :
            <<SetExternalOn(on), RemoveBlocker(r)>>[n] # RemoveBlocker(Unconfirmed)
<1>1. \A acts : Idling(acts) \/ Soaking(acts) =>
        \A n \in DOMAIN acts : acts[n] # RemoveBlocker(Unconfirmed)
  BY DEF Idling, Soaking
<1>2. \A n \in DOMAIN <<Persist, ReleaseSlot>> :
        <<Persist, ReleaseSlot>>[n] # RemoveBlocker(Unconfirmed)
  BY DEF Persist, ReleaseSlot, RemoveBlocker
<1>3. \A n \in DOMAIN <<Persist, ScheduleEvaluation>> :
        <<Persist, ScheduleEvaluation>>[n] # RemoveBlocker(Unconfirmed)
  BY DEF Persist, ScheduleEvaluation, RemoveBlocker
<1>4. ASSUME NEW on \in BOOLEAN
      PROVE  \A n \in DOMAIN <<SetExternalOn(on), AddBlocker("external_flow")>> :
               <<SetExternalOn(on), AddBlocker("external_flow")>>[n] # RemoveBlocker(Unconfirmed)
  BY DEF SetExternalOn, AddBlocker, RemoveBlocker
<1>5. ASSUME NEW on \in BOOLEAN
      PROVE  \A n \in DOMAIN <<SetExternalOn(on), RemoveBlocker("external_flow")>> :
               <<SetExternalOn(on), RemoveBlocker("external_flow")>>[n] # RemoveBlocker(Unconfirmed)
  BY DEF SetExternalOn, RemoveBlocker, Unconfirmed
<1> QED BY <1>1, <1>2, <1>3, <1>4, <1>5

(* Nothing happens. *)
LEMMA NoOpCommitted ==
  ASSUME NEW i \in Situations, NEW e \in Events, Upright(i)
  PROVE  Committed(i, e, NoOp(i))
<1> DEFINE d == NoOp(i)
<1>1. Made(i.state, i.session, i.fault, NoSession, NoReason, << >>, d)
  BY PlainMade
<1>2. \A n \in DOMAIN << >> : << >>[n] # RemoveBlocker(Unconfirmed)
  OBVIOUS
<1> HIDE DEF d
<1>3. Committed(i, e, d)
  BY <1>1, <1>2, KeptCommitted
<1> QED BY <1>3 DEF d

(* Foreign flow is noted. *)
LEMMA ExternalFlowCommitted ==
  ASSUME NEW i \in Situations, NEW e \in Events, Upright(i), NEW row, NEW on \in BOOLEAN
  PROVE  Committed(i, e, ExternalFlow(i, row, on))
<1> DEFINE d == ExternalFlow(i, row, on)
           acts == <<SetExternalOn(on),
                     IF on THEN AddBlocker("external_flow") ELSE RemoveBlocker("external_flow")>>
<1>1. Made(i.state, i.session, i.fault, NoSession, NoReason, acts, d)
  BY PlainMade DEF ExternalFlow
<1>2. \A n \in DOMAIN acts : acts[n] # RemoveBlocker(Unconfirmed)
  BY FenceKept
<1> HIDE DEF d, acts
<1>3. Committed(i, e, d)
  BY <1>1, <1>2, KeptCommitted
<1> QED BY <1>3 DEF d

(* The configuration is found invalid: the zone faults. *)
LEMMA ConfigurationInvalidCommitted ==
  ASSUME NEW i \in Situations, NEW e \in Events, Upright(i), i.state \in {"IDLE", "FAULT"}
  PROVE  Committed(i, e, DecideConfigurationInvalid(i, "T5"))
<1> DEFINE d == DecideConfigurationInvalid(i, "T5")
           acts == <<Persist>>
<1>1. Made("FAULT", i.session, "CONFIGURATION_INVALID", NoSession, NoReason, acts, d)
  BY DEF DecideConfigurationInvalid, Made, Latch, Go, NoOp
<1>2. \A n \in DOMAIN acts : acts[n] # RemoveBlocker(Unconfirmed)
  BY FenceKept, IdlingTuples
<1> HIDE DEF d, acts
<1>3. Committed(i, e, d)
  BY <1>1, <1>2, KeptCommitted
<1> QED BY <1>3 DEF d

(* The zone is disabled. *)
LEMMA DisableCommitted ==
  ASSUME NEW i \in Situations, NEW e \in Events, Upright(i), i.state \in {"IDLE", "FAULT"},
         e.kind = "DisableRequested", NEW row
  PROVE  Committed(i, e, Go(i, row, "DISABLED", <<Persist, ReleaseSlot>>))
<1> DEFINE acts == <<Persist, ReleaseSlot>>
           d == Go(i, row, "DISABLED", acts)
<1>1. Made("DISABLED", i.session, i.fault, NoSession, NoReason, acts, d)
  BY PlainMade
<1>2. \A n \in DOMAIN acts : acts[n] # RemoveBlocker(Unconfirmed)
  BY FenceKept
<1> HIDE DEF d, acts
<1>3. Committed(i, e, d)
  BY <1>1, <1>2, KeptCommitted
<1> QED BY <1>3 DEF d, acts

(* A pulse starts only over a session without a committed reason. *)
LEMMA StartPulseCommitted ==
  ASSUME NEW i \in Situations, NEW e \in Events, NEW s \in OpenSessions, NEW row,
         i.session = NoSession \/ i.session.pending = NoReason
  PROVE  Committed(i, e, StartPulse(i, row, s))
<1> DEFINE fresh == i.obs.at + SensorMaxAge
           cycle == s.cycle + 1
           generation == s.generation + 1
           next == [s EXCEPT
                    !.cycle = cycle, !.intent = i.now,
                    !.commanded = NoTime, !.confirmed = NoTime, !.offAt = NoTime,
                    !.soakEnds = NoTime, !.freshUntil = fresh,
                    !.generation = generation]
           acts == <<Persist, ArmWatchdog(Token(next.generation, fresh)), TurnOn,
                     ArmTimer("ON_CONFIRM_TIMEOUT", i.now + ActuatorConfirmTimeout)>>
           d == StartPulse(i, row, s)
<1>1. /\ i.now \in Int /\ NoTime \in Int
      /\ fresh \in Int /\ cycle \in Int /\ generation \in Int
  BY Constants DEF Situations, Reports, OpenSessions
<1>2. next \in OpenSessions
  <2> HIDE DEF fresh, cycle, generation
  <2> QED BY <1>1 DEF OpenSessions
<1>3. Made("WATERING", next, i.fault, NoSession, NoReason, acts, d)
  BY DEF Made, StartPulse, With, Go, NoOp
<1> HIDE DEF d, next, acts
<1>4. Committed(i, e, d)
  BY <1>2, <1>3, WateringCommitted
<1> QED BY <1>4 DEF d

(* _manual_start: never over an open session. *)
LEMMA ManualStartCommitted ==
  ASSUME NEW i \in Situations, NEW e \in Events, Upright(i), e.kind = "ManualStartRequested",
         NEW row
  PROVE  Committed(i, e, ManualStart(i, e, row))
<1> DEFINE d == ManualStart(i, e, row)
           effective == ClampManual(i, e.seconds)
           retained == IF row = "T40" THEN i.fault ELSE NoFault
           new == NewSession("MANUAL", i.now)
           s == [new EXCEPT !.effective = effective, !.retained = retained]
           acts == <<Persist, TurnOn,
                     ArmTimer("ON_CONFIRM_TIMEOUT", i.now + ActuatorConfirmTimeout)>>
<1>1. CASE ~(ManualGuards(i, e.seconds) /\ i.slotGranted)
  <2> DEFINE none == << >>
             asks == <<RequestSlot>>
  <2>1. \/ Made(i.state, i.session, i.fault, NoSession, NoReason, none, d)
        \/ Made(i.state, i.session, i.fault, NoSession, NoReason, asks, d)
    BY <1>1 DEF Made, ManualStart, Do, Go, NoOp
  <2>2. /\ \A n \in DOMAIN none : none[n] # RemoveBlocker(Unconfirmed)
        /\ \A n \in DOMAIN asks : asks[n] # RemoveBlocker(Unconfirmed)
    BY FenceKept, SoakTuples
  <2> HIDE DEF d, none, asks
  <2>3. Committed(i, e, d)
    BY <2>1, <2>2, KeptCommitted
  <2> QED BY <2>3 DEF d
<1>2. CASE ManualGuards(i, e.seconds) /\ i.slotGranted
  <2>1. Made("WATERING", s, i.fault, NoSession, NoReason, acts, d)
    BY <1>2 DEF Made, ManualStart, With, Go, NoOp
  <2>2. i.session = NoSession
    BY <1>2 DEF ManualGuards
  <2>3. s \in OpenSessions
    <3>1. effective \in Int /\ retained \in FaultOrNone /\ new \in OpenSessions
      BY EventTyped, ClampManualTyped, NewSessionOpen DEF FaultOrNone, Situations
    <3> HIDE DEF effective, retained, new
    <3> QED BY <3>1 DEF OpenSessions
  <2> HIDE DEF d, s, acts
  <2>4. Committed(i, e, d)
    BY <2>1, <2>2, <2>3, WateringCommitted
  <2> QED BY <2>4 DEF d
<1> QED BY <1>1, <1>2

(* OFF proof ends a session that was left open. *)
LEMMA CloseOpenCommitted ==
  ASSUME NEW i \in Situations, NEW e \in Events, i.session # NoSession, OffSeen(e),
         i.state \in {"DISABLED", "FAULT"}
  PROVE  Committed(i, e, CloseOpenAccounting(i, e.at))
<1> DEFINE d == CloseOpenAccounting(i, e.at)
           reason == i.session.pending
           closed == CloseRuntime(i.session, e.at, reason)
           acts == <<Persist, RemoveBlocker("integration_off_unconfirmed"), ReleaseSlot>>
<1>1. Made(i.state, NoSession, i.fault, closed, reason, acts, d)
  BY DEF CloseOpenAccounting, Close, Do, Go, NoOp, Made
<1>2. closed \in OpenSessions
  <2>1. i.session \in OpenSessions /\ e.at \in Int
    BY EventTyped DEF Situations, Sessions, OffSeen
  <2> QED BY <2>1, CloseRuntimeOpen
<1> HIDE DEF d, closed, acts
<1>3. Committed(i, e, d)
  BY <1>1, <1>2, ClosedCommitted
<1> QED BY <1>3 DEF d

(* IDLE *)
LEMMA IdleCommitted ==
  ASSUME NEW i \in Situations, NEW e \in Events, Upright(i), i.state = "IDLE"
  PROVE  Committed(i, e, DecideIdle(i, e))
<1> DEFINE d == DecideIdle(i, e)
           new == NewSession("AUTO", i.now)
<1>1. \/ d = NoOp(i)
      \/ \E acts : Soaking(acts) /\ Made("IDLE", i.session, i.fault, NoSession, NoReason, acts, d)
      \/ i.blockersEmpty /\ d = StartPulse(i, "T1", new)
      \/ e.kind = "ManualStartRequested" /\ d = ManualStart(i, e, "T3")
      \/ e.kind = "DisableRequested" /\ d = Go(i, "T4", "DISABLED", <<Persist, ReleaseSlot>>)
      \/ d = DecideConfigurationInvalid(i, "T5")
      \/ d = ExternalFlow(i, "T54", TRUE) \/ d = ExternalFlow(i, "T58", FALSE)
  <2>1. CASE e.kind \in {"AutoEvaluate", "MoistureReport", "SlotGranted"}
    <3>1. \/ d = Go(i, "T2", "IDLE", <<ReleaseSlot>>) \/ d = Go(i, "T2", "IDLE", << >>)
          \/ d = Go(i, "none", "IDLE", <<RequestSlot>>)
          \/ i.blockersEmpty /\ d = StartPulse(i, "T1", new)
      BY <2>1 DEF DecideIdle, EvaluateAutoStart, Do
    <3> HIDE DEF d
    <3> QED BY <3>1, PlainMade, SoakTuples
  <2>2. CASE e.kind \notin {"AutoEvaluate", "MoistureReport", "SlotGranted"}
    BY <2>2 DEF DecideIdle
  <2> QED BY <2>1, <2>2
<1>2. new \in OpenSessions
  BY NewSessionOpen DEF Situations
<1> HIDE DEF d, new
<1>3. ASSUME NEW acts, Soaking(acts),
             Made("IDLE", i.session, i.fault, NoSession, NoReason, acts, d)
      PROVE  Committed(i, e, d)
  BY <1>3, FenceKept, KeptCommitted
<1>4. ASSUME i.blockersEmpty, d = StartPulse(i, "T1", new)
      PROVE  Committed(i, e, d)
  BY <1>2, <1>4, StartPulseCommitted DEF Upright
<1>5. /\ Committed(i, e, NoOp(i))
      /\ e.kind = "ManualStartRequested" => Committed(i, e, ManualStart(i, e, "T3"))
      /\ e.kind = "DisableRequested" =>
           Committed(i, e, Go(i, "T4", "DISABLED", <<Persist, ReleaseSlot>>))
      /\ Committed(i, e, DecideConfigurationInvalid(i, "T5"))
      /\ Committed(i, e, ExternalFlow(i, "T54", TRUE))
      /\ Committed(i, e, ExternalFlow(i, "T58", FALSE))
  BY NoOpCommitted, ManualStartCommitted, DisableCommitted, ConfigurationInvalidCommitted,
     ExternalFlowCommitted
<1>6. Committed(i, e, d)
  BY <1>1, <1>3, <1>4, <1>5
<1> QED BY <1>6 DEF d

(* DISABLED *)
LEMMA DisabledCommitted ==
  ASSUME NEW i \in Situations, NEW e \in Events, Upright(i), i.state = "DISABLED"
  PROVE  Committed(i, e, DecideDisabled(i, e))
<1> DEFINE d == DecideDisabled(i, e)
           saves == <<Persist>>
           starts == <<Persist, ScheduleEvaluation>>
<1>1. \/ d = NoOp(i)
      \/ d = Go(i, "T46", "FAULT", saves) \/ d = Go(i, "T47", "IDLE", starts)
      \/ d = ExternalFlow(i, "T55", TRUE) \/ d = ExternalFlow(i, "T59", FALSE)
      \/ i.session # NoSession /\ OffSeen(e) /\ d = CloseOpenAccounting(i, e.at)
  BY DEF DecideDisabled, OffSeen
<1>2. /\ \A n \in DOMAIN saves : saves[n] # RemoveBlocker(Unconfirmed)
      /\ \A n \in DOMAIN starts : starts[n] # RemoveBlocker(Unconfirmed)
  BY FenceKept, IdlingTuples
<1> HIDE DEF d, saves, starts
<1>3. ASSUME d = Go(i, "T46", "FAULT", saves)
      PROVE  Committed(i, e, d)
  <2>1. Made("FAULT", i.session, i.fault, NoSession, NoReason, saves, d)
    BY <1>3, PlainMade
  <2> QED BY <1>2, <2>1, KeptCommitted
<1>4. ASSUME d = Go(i, "T47", "IDLE", starts)
      PROVE  Committed(i, e, d)
  <2>1. Made("IDLE", i.session, i.fault, NoSession, NoReason, starts, d)
    BY <1>4, PlainMade
  <2> QED BY <1>2, <2>1, KeptCommitted
<1>5. /\ Committed(i, e, NoOp(i))
      /\ Committed(i, e, ExternalFlow(i, "T55", TRUE))
      /\ Committed(i, e, ExternalFlow(i, "T59", FALSE))
      /\ i.session # NoSession /\ OffSeen(e) => Committed(i, e, CloseOpenAccounting(i, e.at))
  BY NoOpCommitted, ExternalFlowCommitted, CloseOpenCommitted
<1>6. Committed(i, e, d)
  BY <1>1, <1>3, <1>4, <1>5
<1> QED BY <1>6 DEF d

(* FAULT *)
LEMMA FaultCommitted ==
  ASSUME NEW i \in Situations, NEW e \in Events, Upright(i), i.state = "FAULT"
  PROVE  Committed(i, e, DecideFault(i, e))
<1> DEFINE d == DecideFault(i, e)
           saves == <<Persist>>
           none == << >>
<1>1. \/ d = NoOp(i)
      \/ e.kind = "ManualStartRequested" /\ d = ManualStart(i, e, "T40")
      \/ d = FaultAutoClear(i)
      \/ OffSeen(e) /\ i.session # NoSession /\ d = CloseOpenAccounting(i, e.at)
      \/ d = ExternalFlow(i, "none", FALSE) \/ d = ExternalFlow(i, "none", TRUE)
      \/ e.kind = "ClearFaultRequested" /\ d = ClearFaultRequest(i)
      \/ e.kind = "DisableRequested" /\ d = Go(i, "T45", "DISABLED", <<Persist, ReleaseSlot>>)
      \/ d = DecideConfigurationInvalid(i, "T5")
  BY DEF DecideFault, OffSeen
<1>2. /\ \A n \in DOMAIN saves : saves[n] # RemoveBlocker(Unconfirmed)
      /\ \A n \in DOMAIN none : none[n] # RemoveBlocker(Unconfirmed)
  BY FenceKept, IdlingTuples
<1> HIDE DEF d, saves, none
<1>3. ASSUME d = FaultAutoClear(i) \/ (e.kind = "ClearFaultRequested" /\ d = ClearFaultRequest(i))
      PROVE  Committed(i, e, d)
  <2>1. \/ (i.session = NoSession
            /\ Made("IDLE", i.session, NoFault, NoSession, NoReason, saves, d))
        \/ (e.kind = "ClearFaultRequested"
            /\ Made("IDLE", i.session, NoFault, NoSession, NoReason, saves, d))
        \/ Made("FAULT", i.session, i.fault, NoSession, NoReason, none, d)
    <3>1. ASSUME d = FaultAutoClear(i)
          PROVE  \/ (i.session = NoSession
                     /\ Made("IDLE", i.session, NoFault, NoSession, NoReason, saves, d))
                 \/ Made("FAULT", i.session, i.fault, NoSession, NoReason, none, d)
      BY <3>1 DEF FaultAutoClear, Latch, Go, NoOp, Made, saves, none
    <3>2. ASSUME d = ClearFaultRequest(i)
          PROVE  \/ Made("IDLE", i.session, NoFault, NoSession, NoReason, saves, d)
                 \/ Made("FAULT", i.session, i.fault, NoSession, NoReason, none, d)
      BY <3>2 DEF ClearFaultRequest, Latch, Go, NoOp, Made, saves, none
    <3> QED BY <1>3, <3>1, <3>2
  <2>2. CASE i.session = NoSession
             /\ Made("IDLE", i.session, NoFault, NoSession, NoReason, saves, d)
    BY <2>2 DEF Made, Committed, Follow, Fence, SoakReason, LeftOpen
  <2>3. CASE e.kind = "ClearFaultRequested"
             /\ Made("IDLE", i.session, NoFault, NoSession, NoReason, saves, d)
    BY <1>2, <2>3, KeptCommitted
  <2>4. CASE Made("FAULT", i.session, i.fault, NoSession, NoReason, none, d)
    BY <1>2, <2>4, KeptCommitted
  <2> QED BY <2>1, <2>2, <2>3, <2>4
<1>4. /\ Committed(i, e, NoOp(i))
      /\ e.kind = "ManualStartRequested" => Committed(i, e, ManualStart(i, e, "T40"))
      /\ OffSeen(e) /\ i.session # NoSession => Committed(i, e, CloseOpenAccounting(i, e.at))
      /\ Committed(i, e, ExternalFlow(i, "none", FALSE))
      /\ Committed(i, e, ExternalFlow(i, "none", TRUE))
      /\ e.kind = "DisableRequested" =>
           Committed(i, e, Go(i, "T45", "DISABLED", <<Persist, ReleaseSlot>>))
      /\ Committed(i, e, DecideConfigurationInvalid(i, "T5"))
  BY NoOpCommitted, ManualStartCommitted, CloseOpenCommitted, ExternalFlowCommitted,
     DisableCommitted, ConfigurationInvalidCommitted
<1>5. Committed(i, e, d)
  BY <1>1, <1>3, <1>4
<1> QED BY <1>5 DEF d

(* The first terminal request owns the reason. *)
LEMMA CommitTerminationCommitted ==
  ASSUME NEW i \in Situations, NEW e \in Events, i.session \in OpenSessions,
         i.state = "WATERING", i.session.pending = NoReason, NEW reason \in Reasons, NEW fault
  PROVE  Committed(i, e, CommitTermination(i, reason, fault))
<1> DEFINE d == CommitTermination(i, reason, fault)
           s == [i.session EXCEPT !.pending = reason]
           f == IF fault = NoFault THEN i.fault ELSE fault
<1>1. Made("WATERING", s, f, NoSession, NoReason, <<Persist, ExecuteOff>>, d)
  BY DEF Made, CommitTermination, With, Latch, Do, Go, NoOp
<1>2. s \in OpenSessions
  BY DEF OpenSessions, ReasonOrNone
<1> HIDE DEF d, s, f
<1>3. Committed(i, e, d)
  BY <1>1, <1>2, WateringCommitted
<1> QED BY <1>3 DEF d

(* Proof of OFF ends a run. *)
LEMMA FinalizeWateringCommitted ==
  ASSUME NEW i \in Situations, NEW e \in Events, i.session \in OpenSessions, OffSeen(e),
         NEW reason \in ReasonOrNone, i.session.pending \in {NoReason, reason}, NEW extra
  PROVE  Committed(i, e, FinalizeWatering(i, reason, e.at, extra))
<1> DEFINE d == FinalizeWatering(i, reason, e.at, extra)
           closed == CloseRuntime(i.session, e.at, reason)
           dest == IF reason = "MANUAL_COMPLETE" THEN ManualDestination(i, closed)
                   ELSE PostDestination(i, closed, reason)
           acts == extra \o <<Persist, RemoveBlocker("integration_off_unconfirmed"), ReleaseSlot>>
<1>1. closed \in OpenSessions
  BY EventTyped, CloseRuntimeOpen DEF OffSeen
<1>2. Made(dest[1], NoSession, dest[2], closed, reason, acts, d)
  BY DEF FinalizeWatering, Close, Latch, Go, NoOp, Made
<1>3. dest[1] \in {"IDLE", "DISABLED", "FAULT"}
  <2> HIDE DEF closed
  <2> QED BY <1>1, DestinationTyped
<1> HIDE DEF d, closed, dest, acts
<1>4. Committed(i, e, d)
  BY <1>1, <1>2, <1>3, ClosedCommitted
<1> QED BY <1>4 DEF d

(* A proven OFF without a reason leads into the soak. *)
LEMMA PulseOffCommitted ==
  ASSUME NEW i \in Situations, NEW e \in Events, i.session \in OpenSessions,
         i.session.pending = NoReason, OffSeen(e)
  PROVE  Committed(i, e, PulseOffToSoaking(i, e.at))
<1> DEFINE d == PulseOffToSoaking(i, e.at)
           soakEnds == e.at + SoakDuration
           closed == CloseRuntime(i.session, e.at, "TARGET_REACHED")
           s == [closed EXCEPT !.soakEnds = soakEnds]
<1>1. d.state = "SOAKING" /\ d.session = s
  BY DEF PulseOffToSoaking, With, Go, NoOp
<1>2. closed \in OpenSessions
  BY EventTyped, CloseRuntimeOpen DEF OffSeen
<1>3. closed.pending = NoReason
  BY DEF CloseRuntime, OpenSessions
<1> HIDE DEF closed, soakEnds
<1>4. s.pending = NoReason
  BY <1>2, <1>3 DEF OpenSessions
<1> HIDE DEF d, s
<1>5. Committed(i, e, d)
  BY <1>1, <1>4 DEF Committed, Follow, Fence, SoakReason, LeftOpen
<1> QED BY <1>5 DEF d

(* OFF that cannot be proven: a fault takes the reason, and fences.  The   *)
(* reason of a restart stays.                                              *)
LEMMA OffNotConfirmedCommitted ==
  ASSUME NEW i \in Situations, NEW e \in Events, i.session \in OpenSessions
  PROVE  Committed(i, e, OffNotConfirmedWhileWatering(i))
<1> DEFINE d == OffNotConfirmedWhileWatering(i)
           reason == IF i.session.pending = "RESTART_RECOVERY" THEN "RESTART_RECOVERY"
                     ELSE "ACTUATOR_FAULT"
           s == [i.session EXCEPT !.pending = reason]
           acts == <<Persist, AddBlocker(Unconfirmed)>>
<1>1. d.state = "FAULT" /\ d.session = s /\ d.actions = acts
  BY DEF OffNotConfirmedWhileWatering, With, Latch, Go, NoOp, Unconfirmed
<1>2. s \in OpenSessions /\ s.pending = reason
  BY DEF OpenSessions, ReasonOrNone, Reasons
<1>3. /\ \A n \in DOMAIN acts : acts[n] # RemoveBlocker(Unconfirmed)
      /\ acts[2] = AddBlocker(Unconfirmed) /\ 2 \in DOMAIN acts
  BY DEF Persist, AddBlocker, RemoveBlocker
<1> HIDE DEF s, acts, d
<1>4. Follow(i, d)
  BY <1>1, <1>2, OpenIsOpen DEF Follow
<1>5. Fence(i, e, d) /\ SoakReason(d.state, d.session)
  BY <1>1, <1>3 DEF Fence, SoakReason, Has
<1> QED BY <1>4, <1>5 DEF Committed, d

(* WATERING, while nothing is committed or whatever is. *)
LEMMA WateringCommits ==
  ASSUME NEW i \in Situations, NEW e \in Events, Upright(i), i.state = "WATERING",
         i.session \in OpenSessions
  PROVE  Committed(i, e, DecideWatering(i, e))
<1> DEFINE d == DecideWatering(i, e)
           open == i.session.pending = NoReason
           commits == open /\ \E reason \in Reasons, fault \in FaultOrNone :
                                d = CommitTermination(i, reason, fault)
           ends == OffSeen(e) /\ \E reason \in ReasonOrNone, extra \in {<< >>, <<ExecuteOff>>} :
                     /\ i.session.pending \in {NoReason, reason}
                     /\ d = FinalizeWatering(i, reason, e.at, extra)
           keeps == \E s \in OpenSessions : \E acts :
                      /\ s.pending = i.session.pending
                      /\ Made("WATERING", s, i.fault, NoSession, NoReason, acts, d)
<1>1. /\ i.session.pending \in ReasonOrNone
      /\ {"ACTUATOR_FAULT", "MANUAL_COMPLETE", "SENSOR_FAULT"} \subseteq Reasons
      /\ "MANUAL_COMPLETE" \in ReasonOrNone
      /\ "EXTERNAL_ACTUATOR_STATE_CHANGE" \in ReasonOrNone
      /\ {NoFault, "ACTUATOR_ON_TIMEOUT", "ACTUATOR_UNAVAILABLE", "SENSOR_INVALID",
          "SENSOR_UNAVAILABLE", "SENSOR_STALE"} \subseteq FaultOrNone
  BY DEF OpenSessions, ReasonOrNone, Reasons, CancelReasons, FaultOrNone, Faults,
         AutoClearingFaults, SensorFaults
<1>2. ASSUME commits PROVE Committed(i, e, d)
  <2> HIDE DEF d
  <2> QED BY <1>2, CommitTerminationCommitted
<1>3. ASSUME ends PROVE Committed(i, e, d)
  <2> HIDE DEF d
  <2> QED BY <1>3, FinalizeWateringCommitted
<1>4. ASSUME keeps PROVE Committed(i, e, d)
  <2> HIDE DEF d
  <2> QED BY <1>4, WateringCommitted
<1>5. ASSUME open, OffSeen(e), d = PulseOffToSoaking(i, e.at) PROVE Committed(i, e, d)
  <2> HIDE DEF d
  <2> QED BY <1>5, PulseOffCommitted
<1>6. ASSUME d = OffNotConfirmedWhileWatering(i) PROVE Committed(i, e, d)
  <2> HIDE DEF d
  <2> QED BY <1>6, OffNotConfirmedCommitted
<1>7. \/ commits \/ ends \/ keeps
      \/ (open /\ OffSeen(e) /\ d = PulseOffToSoaking(i, e.at))
      \/ d = OffNotConfirmedWhileWatering(i)
  <2>1. CASE e.kind = "OnConfirmTimeout" /\ open /\ i.session.confirmed = NoTime
    <3>1. d = CommitTermination(i, "ACTUATOR_FAULT", "ACTUATOR_ON_TIMEOUT")
      BY <2>1 DEF DecideWatering, TerminalRequests
    <3> HIDE DEF d
    <3> QED BY <1>1, <2>1, <3>1
  <2>2. CASE e.kind = "PulseDeadlineReached" /\ open /\ i.session.mode = "AUTO"
    <3>1. d = Do(i, <<ExecuteOff>>)
      BY <2>2 DEF DecideWatering, TerminalRequests
    <3>2. Made("WATERING", i.session, i.fault, NoSession, NoReason, <<ExecuteOff>>, d)
      BY <2>2, <3>1 DEF Do, Go, NoOp, Made
    <3> HIDE DEF d
    <3> QED BY <3>2
  <2>3. CASE e.kind = "ManualDeadlineReached" /\ open /\ i.session.mode = "MANUAL"
    <3>1. d = CommitTermination(i, "MANUAL_COMPLETE", NoFault)
      BY <2>3 DEF DecideWatering, TerminalRequests
    <3> HIDE DEF d
    <3> QED BY <1>1, <2>3, <3>1
  <2>4. CASE e.kind \in DOMAIN TerminalRequests /\ open
    <3>1. d = CommitTermination(i, TerminalRequests[e.kind], NoFault)
      BY <2>4 DEF DecideWatering, TerminalRequests
    <3>2. TerminalRequests[e.kind] \in Reasons
      BY <2>4, TerminalReasons
    <3> HIDE DEF d
    <3> QED BY <1>1, <2>4, <3>1, <3>2
  <2>5. CASE e.kind = "ActuatorBecameUnavailable" /\ open
    <3>1. d = CommitTermination(i, "ACTUATOR_FAULT", "ACTUATOR_UNAVAILABLE")
      BY <2>5 DEF DecideWatering, TerminalRequests
    <3> HIDE DEF d
    <3> QED BY <1>1, <2>5, <3>1
  <2>6. CASE OffSeen(e)
    <3>1. \/ (open /\ d = FinalizeWatering(i, "EXTERNAL_ACTUATOR_STATE_CHANGE", e.at,
                                           <<ExecuteOff>>))
          \/ d = FinalizeWatering(i, i.session.pending, e.at, << >>)
          \/ (open /\ d = PulseOffToSoaking(i, e.at))
          \/ (open /\ d = FinalizeWatering(i, "MANUAL_COMPLETE", e.at, << >>))
      BY <2>6 DEF DecideWatering, TerminalRequests, OffSeen
    <3> HIDE DEF d
    <3> QED BY <1>1, <2>6, <3>1
  <2>7. CASE e.kind = "OnConfirmed"
    <3> DEFINE s == [i.session EXCEPT !.confirmed = e.at]
    <3>1. d = DecideOnConfirmed(i, e.at) /\ e.at \in Int
      BY <2>7, EventTyped DEF DecideWatering, TerminalRequests
    <3> HIDE DEF d
    <3>2. d.state = "WATERING" /\ d.session = s /\ d.fault = i.fault
          /\ d.closed = NoSession /\ d.reason = NoReason
      BY <2>7, <3>1 DEF DecideOnConfirmed, With, Do, Go, NoOp
    <3>3. s \in OpenSessions /\ s.pending = i.session.pending
      BY <3>1 DEF OpenSessions
    <3> HIDE DEF s
    <3>4. Made("WATERING", s, i.fault, NoSession, NoReason, d.actions, d)
      BY <3>2 DEF Made
    <3> QED BY <3>3, <3>4
  <2>8. CASE e.kind = "MoistureReport"
    <3> DEFINE fresh == e.obs.at + SensorMaxAge
               generation == i.session.generation + 1
               s == [i.session EXCEPT !.freshUntil = fresh, !.generation = generation]
    <3>1. d = WateringMoisture(i, e.obs) /\ e.obs \in Reports
      BY <2>8, EventTyped DEF DecideWatering, TerminalRequests
    <3> HIDE DEF d
    <3>2. \/ Made("WATERING", i.session, i.fault, NoSession, NoReason, d.actions, d)
          \/ Made("WATERING", s, i.fault, NoSession, NoReason, d.actions, d)
          \/ (open /\ d = CommitTermination(i, "SENSOR_FAULT", "SENSOR_INVALID"))
          \/ (open /\ d = CommitTermination(i, "SENSOR_FAULT", "SENSOR_UNAVAILABLE"))
      BY <2>8, <3>1 DEF WateringMoisture, With, Go, NoOp, Made, Token
    <3>3. s \in OpenSessions /\ s.pending = i.session.pending
      <4>1. fresh \in Int /\ generation \in Int
        BY <3>1, Constants DEF Reports, OpenSessions
      <4> HIDE DEF fresh, generation
      <4> QED BY <4>1 DEF OpenSessions
    <3> HIDE DEF s
    <3> QED BY <1>1, <3>2, <3>3
  <2>9. CASE e.kind = "WatchdogFired"
    <3>1. d = DecideWatchdogFired(i, e.token)
      BY <2>9 DEF DecideWatering, TerminalRequests
    <3> HIDE DEF d
    <3>2. \/ Made("WATERING", i.session, i.fault, NoSession, NoReason, d.actions, d)
          \/ (open /\ d = CommitTermination(i, "SENSOR_FAULT", "SENSOR_STALE"))
      BY <2>9, <3>1 DEF DecideWatchdogFired, Do, Go, NoOp, Made
    <3> QED BY <1>1, <3>2
  <2>10. CASE e.kind = "OffNotConfirmed"
    <3>1. d = OffNotConfirmedWhileWatering(i)
      BY <2>10 DEF DecideWatering, TerminalRequests
    <3> HIDE DEF d
    <3> QED BY <3>1
  <2>11. CASE /\ ~(e.kind = "OnConfirmTimeout" /\ open /\ i.session.confirmed = NoTime)
              /\ ~(e.kind = "PulseDeadlineReached" /\ open /\ i.session.mode = "AUTO")
              /\ ~(e.kind = "ManualDeadlineReached" /\ open /\ i.session.mode = "MANUAL")
              /\ ~(e.kind \in DOMAIN TerminalRequests /\ open)
              /\ ~(e.kind = "ActuatorBecameUnavailable" /\ open)
              /\ e.kind \notin {"ExternalActuatorOff", "OffConfirmed", "OnConfirmed",
                                "MoistureReport", "WatchdogFired", "OffNotConfirmed"}
    <3>1. e.kind # "StartupPersistedWatering"
      BY EventTyped
    <3>2. d = NoOp(i)
      BY <2>11, <3>1 DEF DecideWatering, TerminalRequests
    <3>3. Made("WATERING", i.session, i.fault, NoSession, NoReason, << >>, d)
      BY <3>2 DEF NoOp, Made
    <3> HIDE DEF d
    <3> QED BY <3>3
  <2> HIDE DEF d, commits, ends, keeps, open
  <2> QED BY <2>1, <2>2, <2>3, <2>4, <2>5, <2>6, <2>7, <2>8, <2>9, <2>10, <2>11 DEF OffSeen
<1> HIDE DEF d, commits, ends, keeps, open
<1>8. Committed(i, e, d)
  BY <1>2, <1>3, <1>4, <1>5, <1>6, <1>7
<1> QED BY <1>8 DEF d

(* SOAKING, while nothing is committed: an end, another pulse, or nothing. *)
Decides(i, d) ==
    \/ \E st \in {"IDLE", "DISABLED", "FAULT"} : \E f, reason, acts :
         Made(st, NoSession, f, i.session, reason, acts, d)
    \/ d = StartPulse(i, "T25", i.session)
    \/ d.state = "SOAKING" /\ d.session = i.session

LEMMA RecheckDecides ==
  ASSUME NEW i \in Situations, i.state = "SOAKING"
  PROVE  Decides(i, SoakingRecheck(i))
<1> DEFINE d == SoakingRecheck(i)
<1>1. \/ \E row, reason : d = FinalizeSoakingCompletion(i, row, reason)
      \/ \E row, reason, fault : d = FinalizeSoakingFault(i, row, reason, fault)
      \/ d = Do(i, <<RequestSlot>>)
      \/ d = StartPulse(i, "T25", i.session)
  BY DEF SoakingRecheck
<1>2. ASSUME NEW row, NEW reason, d = FinalizeSoakingCompletion(i, row, reason)
      PROVE  \E st \in {"IDLE", "DISABLED", "FAULT"} :
               Made(st, NoSession, i.fault, i.session, reason, d.actions, d)
  <2> HIDE DEF d
  <2> QED BY <1>2 DEF FinalizeSoakingCompletion, FinalizeSoaking, Close, Go, NoOp, Made
<1>3. ASSUME NEW row, NEW reason, NEW fault, d = FinalizeSoakingFault(i, row, reason, fault)
      PROVE  Made("FAULT", NoSession, fault, i.session, reason, d.actions, d)
  <2> HIDE DEF d
  <2> QED BY <1>3 DEF FinalizeSoakingFault, FinalizeSoaking, Latch, Close, Go, NoOp, Made
<1>4. ASSUME d = Do(i, <<RequestSlot>>)
      PROVE  d.state = "SOAKING" /\ d.session = i.session
  <2> HIDE DEF d
  <2> QED BY <1>4 DEF Do, Go, NoOp
<1> HIDE DEF d
<1>5. Decides(i, d)
  BY <1>1, <1>2, <1>3, <1>4 DEF Decides
<1> QED BY <1>5 DEF d

LEMMA SoakingDecides ==
  ASSUME NEW i \in Situations, NEW e \in Events, i.state = "SOAKING",
         e.kind # "ExternalActuatorOn"
  PROVE  Decides(i, DecideSoakingOpen(i, e))
<1> DEFINE d == DecideSoakingOpen(i, e)
<1>1. \/ \E row, reason, fault : d = FinalizeSoakingFault(i, row, reason, fault)
      \/ \E row, reason : \E st \in {"IDLE", "DISABLED"} :
           d = FinalizeSoakingCancel(i, row, reason, st)
      \/ \E row, acts : d = Go(i, row, "SOAKING", acts)
      \/ d = NoOp(i) \/ d = SoakingRecheck(i)
  <2>1. e.kind # "StartupPersistedSoaking"
    BY EventTyped
  <2>2. \/ d = SoakingMoisture(i, e.obs) \/ d = SoakingDeadlineOrEvaluate(i, e)
        \/ d = SoakingGrace(i)
        \/ d = FinalizeSoakingFault(i, "T32", "ACTUATOR_FAULT", "ACTUATOR_UNAVAILABLE")
        \/ d = FinalizeSoakingCancel(i, "T35", "USER_STOP", "IDLE")
        \/ d = FinalizeSoakingCancel(i, "T36", "ZONE_DISABLED", "DISABLED")
        \/ d = Go(i, "T37", "SOAKING", <<Persist>>)
        \/ d = FinalizeSoakingCancel(i, "T38", "CONFIG_RELOAD", "IDLE")
        \/ d = FinalizeSoakingCancel(i, "T39", "CONFIG_CHANGED", "IDLE")
        \/ d = NoOp(i)
    BY <2>1 DEF DecideSoakingOpen
  <2> HIDE DEF d
  <2>3. ASSUME d = SoakingMoisture(i, e.obs)
        PROVE  \/ \E row, reason, fault : d = FinalizeSoakingFault(i, row, reason, fault)
               \/ \E row, acts : d = Go(i, row, "SOAKING", acts)
               \/ d = NoOp(i) \/ d = SoakingRecheck(i)
    BY <2>3 DEF SoakingMoisture
  <2>4. ASSUME d = SoakingDeadlineOrEvaluate(i, e)
        PROVE  \/ \E row, acts : d = Go(i, row, "SOAKING", acts)
               \/ d = NoOp(i) \/ d = SoakingRecheck(i)
    <3>1. \/ d = Go(i, "none", "SOAKING", <<ReleaseSlot>>)
          \/ d = Go(i, "T23", "SOAKING", <<ArmTimer("GRACE", Grace(i.session))>>)
          \/ d = NoOp(i) \/ d = SoakingRecheck(i)
      BY <2>4 DEF SoakingDeadlineOrEvaluate, Do
    <3> QED BY <3>1
  <2>5. ASSUME d = SoakingGrace(i)
        PROVE  \/ \E row, reason, fault : d = FinalizeSoakingFault(i, row, reason, fault)
               \/ d = SoakingRecheck(i)
    BY <2>5 DEF SoakingGrace
  <2> QED BY <2>2, <2>3, <2>4, <2>5
<1>2. ASSUME NEW row, NEW reason, NEW fault, d = FinalizeSoakingFault(i, row, reason, fault)
      PROVE  Made("FAULT", NoSession, fault, i.session, reason, d.actions, d)
  <2> HIDE DEF d
  <2> QED BY <1>2 DEF FinalizeSoakingFault, FinalizeSoaking, Latch, Close, Go, NoOp, Made
<1>3. ASSUME NEW row, NEW reason, NEW st \in {"IDLE", "DISABLED"},
             d = FinalizeSoakingCancel(i, row, reason, st)
      PROVE  Made(st, NoSession, i.fault, i.session, reason, d.actions, d)
  <2> HIDE DEF d
  <2> QED BY <1>3 DEF FinalizeSoakingCancel, FinalizeSoaking, Close, Go, NoOp, Made
<1>4. ASSUME \/ \E row, acts : d = Go(i, row, "SOAKING", acts)
             \/ d = NoOp(i)
      PROVE  d.state = "SOAKING" /\ d.session = i.session
  <2> HIDE DEF d
  <2>1. ASSUME NEW row, NEW acts, d = Go(i, row, "SOAKING", acts)
        PROVE  d.state = "SOAKING" /\ d.session = i.session
    BY <2>1, PlainMade DEF Made
  <2>2. ASSUME d = NoOp(i)
        PROVE  d.state = "SOAKING" /\ d.session = i.session
    BY <2>2 DEF NoOp
  <2> QED BY <1>4, <2>1, <2>2
<1> HIDE DEF d
<1>5. Decides(i, d)
  BY <1>1, <1>2, <1>3, <1>4, RecheckDecides DEF Decides
<1> QED BY <1>5 DEF d

LEMMA SoakingOpenCommitted ==
  ASSUME NEW i \in Situations, NEW e \in Events, i.state = "SOAKING",
         i.session \in OpenSessions, i.session.pending = NoReason
  PROVE  Committed(i, e, DecideSoakingOpen(i, e))
<1> DEFINE d == DecideSoakingOpen(i, e)
<1>1. CASE e.kind = "ExternalActuatorOn"
  <2> DEFINE acts == <<Persist, AddBlocker(Unconfirmed), ExecuteOff>>
             s == [i.session EXCEPT !.pending = "EXTERNAL_ACTUATOR_STATE_CHANGE"]
  <2>1. d.state = "SOAKING" /\ d.session = s /\ d.actions = acts
    BY <1>1 DEF DecideSoakingOpen, With, Do, Go, NoOp, Unconfirmed
  <2>2. /\ \A n \in DOMAIN acts : acts[n] # RemoveBlocker(Unconfirmed)
        /\ acts[2] = AddBlocker(Unconfirmed) /\ 2 \in DOMAIN acts
    BY DEF Persist, AddBlocker, RemoveBlocker, ExecuteOff
  <2>3. s.pending = "EXTERNAL_ACTUATOR_STATE_CHANGE"
    BY DEF OpenSessions
  <2> HIDE DEF d, s, acts
  <2>4. Committed(i, e, d)
    BY <2>1, <2>2, <2>3 DEF Committed, Follow, Fence, SoakReason, Has
  <2> QED BY <2>4 DEF d
<1>2. CASE e.kind # "ExternalActuatorOn"
  <2>1. Decides(i, d)
    BY <1>2, SoakingDecides
  <2> HIDE DEF d
  <2>2. ASSUME NEW st \in {"IDLE", "DISABLED", "FAULT"}, NEW f, NEW reason, NEW acts,
               Made(st, NoSession, f, i.session, reason, acts, d)
        PROVE  Committed(i, e, d)
    BY <2>2, ClosedCommitted
  <2>3. ASSUME d = StartPulse(i, "T25", i.session)
        PROVE  Committed(i, e, d)
    BY <2>3, StartPulseCommitted
  <2>4. ASSUME d.state = "SOAKING" /\ d.session = i.session
        PROVE  Committed(i, e, d)
    BY <2>4 DEF Committed, Follow, Fence, SoakReason, LeftOpen
  <2>5. Committed(i, e, d)
    BY <2>1, <2>2, <2>3, <2>4 DEF Decides
  <2> QED BY <2>5 DEF d
<1> QED BY <1>1, <1>2

(* SOAKING, while interference is committed. *)
LEMMA SoakingPendingCommitted ==
  ASSUME NEW i \in Situations, NEW e \in Events, Upright(i), i.state = "SOAKING",
         i.session \in OpenSessions, i.session.pending # NoReason
  PROVE  Committed(i, e, DecideSoakingPending(i, e))
<1> DEFINE d == DecideSoakingPending(i, e)
<1>1. i.session.pending = "EXTERNAL_ACTUATOR_STATE_CHANGE" /\ LeftOpen(i.state, i.session)
  BY OpenIsOpen DEF Upright, SoakReason, LeftOpen
<1>2. CASE OffSeen(e)
  <2> DEFINE reason == "EXTERNAL_ACTUATOR_STATE_CHANGE"
             closed == CloseRuntime(i.session, e.at, reason)
             st == IF i.enabled THEN "IDLE" ELSE "DISABLED"
             acts == <<Persist, RemoveBlocker("integration_off_unconfirmed"), ReleaseSlot>>
  <2>1. Made(st, NoSession, i.fault, closed, reason, acts, d)
    BY <1>2 DEF DecideSoakingPending, FinalizeSoakingExternal, FinalizeSoaking, Close, Go,
                NoOp, Made, OffSeen
  <2>2. closed \in OpenSessions
    BY <1>2, EventTyped, CloseRuntimeOpen DEF OffSeen
  <2>3. st \in {"IDLE", "DISABLED", "FAULT"} /\ i.session.pending \in {NoReason, reason}
    BY <1>1
  <2> HIDE DEF d, acts, closed, st, reason
  <2>4. Committed(i, e, d)
    BY <2>1, <2>2, <2>3, ClosedCommitted
  <2> QED BY <2>4 DEF d
<1>3. CASE e.kind = "OffNotConfirmed"
  <2> DEFINE s == [i.session EXCEPT !.pending = "ACTUATOR_FAULT"]
             acts == <<Persist>>
  <2>1. Made("FAULT", s, "ACTUATOR_OFF_TIMEOUT", NoSession, NoReason, acts, d)
    BY <1>3 DEF DecideSoakingPending, SoakingOffNotConfirmed, With, Latch, Go, NoOp, Made
  <2>2. s.pending = "ACTUATOR_FAULT" /\ s # NoSession
    <3>1. s \in OpenSessions /\ s.pending = "ACTUATOR_FAULT"
      BY SoakReasons DEF OpenSessions
    <3> HIDE DEF s
    <3> QED BY <3>1, OpenIsOpen
  <2>3. \A n \in DOMAIN acts : acts[n] # RemoveBlocker(Unconfirmed)
    BY DEF Persist, RemoveBlocker
  <2> HIDE DEF d, s, acts
  <2>4. Follow(i, d)
    BY <2>1, <2>2 DEF Made, Follow
  <2>5. Fence(i, e, d) /\ SoakReason(d.state, d.session)
    BY <1>1, <2>1, <2>3 DEF Made, Fence, SoakReason, Has
  <2> QED BY <2>4, <2>5 DEF Committed, d
<1>4. CASE ~OffSeen(e) /\ e.kind # "OffNotConfirmed"
  <2>1. d = NoOp(i)
    BY <1>4 DEF DecideSoakingPending, OffSeen
  <2> HIDE DEF d
  <2>2. Committed(i, e, d)
    BY <2>1, NoOpCommitted
  <2> QED BY <2>2 DEF d
<1> QED BY <1>2, <1>3, <1>4

(* The first terminal request owns the reason (I22): whatever the event,   *)
(* decide() keeps a committed reason, ends the session with it, or gives   *)
(* it up to the fault of an actuator that cannot be proven off; and a      *)
(* session it leaves open without water is fenced, or was open before.     *)
THEOREM ReasonsCommitted ==
  ASSUME NEW i \in Situations, NEW e \in Events, Owning(i.state, i.session), Upright(i)
  PROVE  Committed(i, e, Decide(i, e))
<1> DEFINE d == Decide(i, e)
<1>1. i.state \in States /\ i.session \in Sessions
  BY DEF Situations
<1>2. i.state \in {"WATERING", "SOAKING"} => i.session \in OpenSessions
  BY <1>1 DEF Owning, Sessions
<1>3. d = CASE i.state = "IDLE" -> DecideIdle(i, e)
            [] i.state = "DISABLED" -> DecideDisabled(i, e)
            [] i.state = "WATERING" -> DecideWatering(i, e)
            [] i.state = "SOAKING" -> DecideSoaking(i, e)
            [] i.state = "FAULT" -> DecideFault(i, e)
  BY EventTyped DEF Decide
<1> HIDE DEF d
<1>4. ASSUME i.state = "IDLE" PROVE Committed(i, e, d)
  BY <1>3, <1>4, IdleCommitted
<1>5. ASSUME i.state = "DISABLED" PROVE Committed(i, e, d)
  BY <1>3, <1>5, DisabledCommitted
<1>6. ASSUME i.state = "WATERING" PROVE Committed(i, e, d)
  BY <1>2, <1>3, <1>6, WateringCommits
<1>7. ASSUME i.state = "SOAKING" PROVE Committed(i, e, d)
  BY <1>2, <1>3, <1>7, SoakingOpenCommitted, SoakingPendingCommitted DEF DecideSoaking
<1>8. ASSUME i.state = "FAULT" PROVE Committed(i, e, d)
  BY <1>3, <1>8, FaultCommitted
<1>9. Committed(i, e, d)
  BY <1>1, <1>4, <1>5, <1>6, <1>7, <1>8 DEF States
<1> QED BY <1>9 DEF d
-----------------------------------------------------------------------------
(* Water with an end in sight. *)

(* The timer that ends what a WATERING session is in: the wait for the     *)
(* device's acknowledgement, a pulse, or a manual run; and its event.      *)
Phase(session) ==
    IF session.confirmed = NoTime THEN "ON_CONFIRM_TIMEOUT"
    ELSE IF session.mode = "AUTO" THEN "PULSE_END" ELSE "MANUAL_END"
EndOfPhase ==
    [PULSE_END |-> "PulseDeadlineReached", MANUAL_END |-> "ManualDeadlineReached",
     ON_CONFIRM_TIMEOUT |-> "OnConfirmTimeout"]

Arms(d, k) == \E n \in DOMAIN d.actions : d.actions[n].act = "ArmTimer" /\ d.actions[n].timer = k

(* A decision that leaves a zone WATERING asks for OFF, or arms the timer  *)
(* of the phase, or it changes neither reason nor phase of a zone that was *)
(* WATERING, at an event that does not end it.                             *)
Attends(i, e, d) ==
    d.state = "WATERING" =>
      \/ Has(d, ExecuteOff)
      \/ d.session.pending = NoReason /\ Arms(d, Phase(d.session))
      \/ /\ i.state = "WATERING" /\ d.session.pending = i.session.pending
         /\ d.session.pending = NoReason =>
              /\ Phase(d.session) = Phase(i.session)
              /\ e.kind \notin {EndOfPhase[Phase(i.session)], "ConfigChangedPrepare"}

(* The phases, and no two of them end with the same event. *)
LEMMA PhasesApart ==
  ASSUME NEW s \in OpenSessions
  PROVE  /\ Phase(s) = "ON_CONFIRM_TIMEOUT" <=> s.confirmed = NoTime
         /\ Phase(s) = "PULSE_END" => s.mode = "AUTO"
         /\ Phase(s) = "MANUAL_END" => s.mode = "MANUAL"
         /\ EndOfPhase[Phase(s)] \in {"PulseDeadlineReached", "ManualDeadlineReached",
                                      "OnConfirmTimeout"}
         /\ EndOfPhase[Phase(s)] = "OnConfirmTimeout" => s.confirmed = NoTime
         /\ EndOfPhase[Phase(s)] = "PulseDeadlineReached" => s.mode = "AUTO"
         /\ EndOfPhase[Phase(s)] = "ManualDeadlineReached" => s.mode = "MANUAL"
BY DEF Phase, EndOfPhase, OpenSessions

(* A pulse starts with the wait for the acknowledgement. *)
LEMMA StartPulseAttends ==
  ASSUME NEW i \in Situations, NEW e, NEW s \in OpenSessions, s.pending = NoReason, NEW row
  PROVE  Attends(i, e, StartPulse(i, row, s))
<1> DEFINE d == StartPulse(i, row, s)
           cycle == s.cycle + 1
           fresh == i.obs.at + SensorMaxAge
           generation == s.generation + 1
           next == [s EXCEPT
                    !.cycle = cycle, !.intent = i.now,
                    !.commanded = NoTime, !.confirmed = NoTime, !.offAt = NoTime,
                    !.soakEnds = NoTime, !.freshUntil = fresh,
                    !.generation = generation]
           acts == <<Persist, ArmWatchdog(Token(next.generation, fresh)), TurnOn,
                     ArmTimer("ON_CONFIRM_TIMEOUT", i.now + ActuatorConfirmTimeout)>>
<1>1. d.session = next /\ d.actions = acts
  BY DEF StartPulse, With, Go, NoOp
<1>2. next.confirmed = NoTime /\ next.pending = NoReason
  BY DEF OpenSessions
<1>3. 4 \in DOMAIN acts /\ acts[4].act = "ArmTimer" /\ acts[4].timer = "ON_CONFIRM_TIMEOUT"
  BY DEF ArmTimer
<1> HIDE DEF d, next, acts
<1>4. Attends(i, e, d)
  BY <1>1, <1>2, <1>3 DEF Attends, Arms, Phase
<1> QED BY <1>4 DEF d

(* So does a manual run. *)
LEMMA ManualStartAttends ==
  ASSUME NEW i \in Situations, i.state # "WATERING", NEW e, NEW row
  PROVE  Attends(i, e, ManualStart(i, e, row))
<1> DEFINE d == ManualStart(i, e, row)
           new == NewSession("MANUAL", i.now)
           effective == ClampManual(i, e.seconds)
           retained == IF row = "T40" THEN i.fault ELSE NoFault
           s == [new EXCEPT !.effective = effective, !.retained = retained]
           acts == <<Persist, TurnOn,
                     ArmTimer("ON_CONFIRM_TIMEOUT", i.now + ActuatorConfirmTimeout)>>
<1>1. d.state = i.state \/ (d.session = s /\ d.actions = acts)
  BY DEF ManualStart, With, Do, Go, NoOp
<1>2. s.confirmed = NoTime /\ s.pending = NoReason
  BY DEF NewSession
<1>3. 3 \in DOMAIN acts /\ acts[3].act = "ArmTimer" /\ acts[3].timer = "ON_CONFIRM_TIMEOUT"
  BY DEF ArmTimer
<1> HIDE DEF d, s, acts
<1>4. Attends(i, e, d)
  BY <1>1, <1>2, <1>3 DEF Attends, Arms, Phase
<1> QED BY <1>4 DEF d

(* A zone without water starts it in one of these ways, or not at all. *)
LEMMA DryAttends ==
  ASSUME NEW i \in Situations, NEW e \in Events, i.state \in {"IDLE", "DISABLED", "FAULT"}
  PROVE  /\ i.state = "IDLE" => Attends(i, e, DecideIdle(i, e))
         /\ i.state = "DISABLED" => Attends(i, e, DecideDisabled(i, e))
         /\ i.state = "FAULT" => Attends(i, e, DecideFault(i, e))
<1> DEFINE new == NewSession("AUTO", i.now)
<1>1. new \in OpenSessions /\ new.pending = NoReason
  BY NewSessionOpen DEF Situations, NewSession
<1>2. ASSUME NEW d, d.state # "WATERING"
      PROVE  Attends(i, e, d)
  BY <1>2 DEF Attends
<1>3. ASSUME i.state = "IDLE"
      PROVE  Attends(i, e, DecideIdle(i, e))
  <2> DEFINE d == DecideIdle(i, e)
  <2>1. \/ d.state # "WATERING" \/ d = StartPulse(i, "T1", new) \/ d = ManualStart(i, e, "T3")
    BY <1>3 DEF DecideIdle, EvaluateAutoStart, DecideConfigurationInvalid, ExternalFlow,
                Latch, Do, Go, NoOp
  <2> HIDE DEF d, new
  <2>2. Attends(i, e, d)
    BY <1>1, <1>2, <1>3, <2>1, StartPulseAttends, ManualStartAttends
  <2> QED BY <2>2 DEF d
<1>4. ASSUME i.state = "DISABLED"
      PROVE  Attends(i, e, DecideDisabled(i, e))
  <2> DEFINE d == DecideDisabled(i, e)
  <2>1. d.state # "WATERING"
    BY <1>4 DEF DecideDisabled, ExternalFlow, CloseOpenAccounting, Close, Do, Go, NoOp
  <2> HIDE DEF d
  <2>2. Attends(i, e, d)
    BY <1>2, <2>1
  <2> QED BY <2>2 DEF d
<1>5. ASSUME i.state = "FAULT"
      PROVE  Attends(i, e, DecideFault(i, e))
  <2> DEFINE d == DecideFault(i, e)
  <2>1. d.state # "WATERING" \/ d = ManualStart(i, e, "T40")
    BY <1>5 DEF DecideFault, FaultAutoClear, ClearFaultRequest, DecideConfigurationInvalid,
                ExternalFlow, CloseOpenAccounting, Latch, Close, Do, Go, NoOp
  <2> HIDE DEF d
  <2>2. Attends(i, e, d)
    BY <1>2, <1>5, <2>1, ManualStartAttends
  <2> QED BY <2>2 DEF d
<1> QED BY <1>3, <1>4, <1>5

(* Another pulse of the session follows the soak. *)
LEMMA SoakingAttends ==
  ASSUME NEW i \in Situations, NEW e \in Events, i.state = "SOAKING",
         i.session \in OpenSessions
  PROVE  Attends(i, e, DecideSoaking(i, e))
<1> DEFINE d == DecideSoaking(i, e)
<1>1. \/ d.state # "WATERING"
      \/ i.session.pending = NoReason /\ d = StartPulse(i, "T25", i.session)
  <2>1. CASE i.session.pending # NoReason
    BY <2>1 DEF DecideSoaking, DecideSoakingPending, FinalizeSoakingExternal, FinalizeSoaking,
                SoakingOffNotConfirmed, Latch, With, Close, Go, NoOp
  <2>2. CASE i.session.pending = NoReason /\ e.kind = "ExternalActuatorOn"
    BY <2>2 DEF DecideSoaking, DecideSoakingOpen, With, Do, Go, NoOp
  <2>3. CASE i.session.pending = NoReason /\ e.kind # "ExternalActuatorOn"
    <3>1. Decides(i, d)
      BY <2>3, SoakingDecides DEF DecideSoaking
    <3> HIDE DEF d
    <3> QED BY <2>3, <3>1 DEF Decides, Made
  <2> QED BY <2>1, <2>2, <2>3
<1> HIDE DEF d
<1>2. Attends(i, e, d)
  BY <1>1, StartPulseAttends DEF Attends
<1> QED BY <1>2 DEF d

(* A terminal request asks for OFF. *)
LEMMA CommitTerminationAttends ==
  ASSUME NEW i, NEW e, NEW reason, NEW fault
  PROVE  Attends(i, e, CommitTermination(i, reason, fault))
<1> DEFINE d == CommitTermination(i, reason, fault)
<1>1. d.actions = <<Persist, ExecuteOff>>
  BY DEF CommitTermination, With, Latch, Do, Go, NoOp
<1> HIDE DEF d
<1>2. Has(d, ExecuteOff)
  BY <1>1 DEF Has
<1> QED BY <1>2 DEF Attends, d

(* The acknowledgement starts the next phase. *)
LEMMA OnConfirmedAttends ==
  ASSUME NEW i \in Situations, NEW e \in Events, i.state = "WATERING",
         i.session \in OpenSessions, e.kind = "OnConfirmed",
         e.at # NoTime \/ i.session.confirmed = NoTime
  PROVE  Attends(i, e, DecideOnConfirmed(i, e.at))
<1> DEFINE d == DecideOnConfirmed(i, e.at)
           s == [i.session EXCEPT !.confirmed = e.at]
           k == IF s.mode = "AUTO" THEN "PULSE_END" ELSE "MANUAL_END"
<1>1. d.session = s /\ s.pending = i.session.pending /\ s.confirmed = e.at
      /\ s.mode = i.session.mode
  BY DEF DecideOnConfirmed, With, Do, Go, NoOp, OpenSessions
<1>2. i.session.pending = NoReason => Arms(d, k)
  <2> DEFINE timer == IF i.session.mode = "AUTO" THEN ArmTimer("PULSE_END", e.at + PulseDuration)
                      ELSE ArmTimer("MANUAL_END", e.at + i.session.effective)
             acts == <<Persist, timer>>
  <2>1. i.session.pending = NoReason => d.actions = acts
    BY DEF DecideOnConfirmed, With, Do, Go, NoOp
  <2>2. acts[2] = timer /\ 2 \in DOMAIN acts
    OBVIOUS
  <2>3. timer.act = "ArmTimer" /\ timer.timer = k
    BY <1>1 DEF ArmTimer
  <2> HIDE DEF d, acts, timer, s, k
  <2> QED BY <2>1, <2>2, <2>3 DEF Arms
<1> HIDE DEF d, s
<1>3. CASE e.at # NoTime
  <2>1. Phase(d.session) = k
    BY <1>1, <1>3 DEF Phase
  <2>2. Attends(i, e, d)
    BY <1>1, <1>2, <2>1 DEF Attends
  <2> QED BY <2>2 DEF d
<1>4. CASE e.at = NoTime
  <2>1. Phase(d.session) = Phase(i.session)
    BY <1>1, <1>4 DEF Phase
  <2>2. e.kind \notin {EndOfPhase[Phase(i.session)], "ConfigChangedPrepare"}
    BY PhasesApart
  <2>3. Attends(i, e, d)
    BY <1>1, <2>1, <2>2 DEF Attends
  <2> QED BY <2>3 DEF d
<1> QED BY <1>3, <1>4

(* WATERING. *)
LEMMA WateringAttends ==
  ASSUME NEW i \in Situations, NEW e \in Events, i.state = "WATERING",
         i.session \in OpenSessions,
         e.kind = "OnConfirmed" => e.at # NoTime \/ i.session.confirmed = NoTime
  PROVE  Attends(i, e, DecideWatering(i, e))
<1> DEFINE d == DecideWatering(i, e)
           open == i.session.pending = NoReason
           commits == \E reason, fault : d = CommitTermination(i, reason, fault)
           keeps == /\ d.session.pending = i.session.pending
                    /\ d.session.confirmed = i.session.confirmed
                    /\ d.session.mode = i.session.mode
                    /\ open => e.kind \notin {EndOfPhase[Phase(i.session)], "ConfigChangedPrepare"}
<1>1. ASSUME commits PROVE Attends(i, e, d)
  <2> HIDE DEF d
  <2> QED BY <1>1, CommitTerminationAttends
<1>2. ASSUME keeps PROVE Attends(i, e, d)
  <2> HIDE DEF d
  <2> QED BY <1>2 DEF Attends, Phase
<1>3. ASSUME d.state # "WATERING" PROVE Attends(i, e, d)
  BY <1>3 DEF Attends
<1>4. ASSUME Has(d, ExecuteOff) PROVE Attends(i, e, d)
  BY <1>4 DEF Attends
<1>5. CASE e.kind \in {"OnConfirmTimeout", "PulseDeadlineReached", "ManualDeadlineReached"}
           \cup DOMAIN TerminalRequests \cup {"ActuatorBecameUnavailable"}
  <2>1. commits \/ d = Do(i, <<ExecuteOff>>) \/ (d = NoOp(i) /\ keeps)
    <3>1. CASE e.kind = "OnConfirmTimeout"
      <4>1. \/ d = CommitTermination(i, "ACTUATOR_FAULT", "ACTUATOR_ON_TIMEOUT")
            \/ d = NoOp(i) /\ ~(open /\ i.session.confirmed = NoTime)
        BY <3>1 DEF DecideWatering, TerminalRequests
      <4>2. EndOfPhase[Phase(i.session)] = "OnConfirmTimeout" => i.session.confirmed = NoTime
        BY PhasesApart
      <4> HIDE DEF d
      <4> QED BY <3>1, <4>1, <4>2 DEF NoOp
    <3>2. CASE e.kind = "PulseDeadlineReached"
      <4>1. d = Do(i, <<ExecuteOff>>) \/ (d = NoOp(i) /\ ~(open /\ i.session.mode = "AUTO"))
        BY <3>2 DEF DecideWatering, TerminalRequests
      <4>2. EndOfPhase[Phase(i.session)] = "PulseDeadlineReached" => i.session.mode = "AUTO"
        BY PhasesApart
      <4> HIDE DEF d
      <4> QED BY <3>2, <4>1, <4>2 DEF NoOp
    <3>3. CASE e.kind = "ManualDeadlineReached"
      <4>1. \/ d = CommitTermination(i, "MANUAL_COMPLETE", NoFault)
            \/ d = NoOp(i) /\ ~(open /\ i.session.mode = "MANUAL")
        BY <3>3 DEF DecideWatering, TerminalRequests
      <4>2. EndOfPhase[Phase(i.session)] = "ManualDeadlineReached" => i.session.mode = "MANUAL"
        BY PhasesApart
      <4> HIDE DEF d
      <4> QED BY <3>3, <4>1, <4>2 DEF NoOp
    <3>4. CASE e.kind \in DOMAIN TerminalRequests
      <4>1. d = CommitTermination(i, TerminalRequests[e.kind], NoFault) \/ (d = NoOp(i) /\ ~open)
        BY <3>4 DEF DecideWatering, TerminalRequests
      <4> HIDE DEF d
      <4> QED BY <4>1 DEF NoOp
    <3>5. CASE e.kind = "ActuatorBecameUnavailable"
      <4>1. \/ d = CommitTermination(i, "ACTUATOR_FAULT", "ACTUATOR_UNAVAILABLE")
            \/ d = NoOp(i) /\ ~open
        BY <3>5 DEF DecideWatering, TerminalRequests
      <4> HIDE DEF d
      <4> QED BY <4>1 DEF NoOp
    <3> HIDE DEF d, commits, keeps
    <3> QED BY <1>5, <3>1, <3>2, <3>3, <3>4, <3>5
  <2>2. ASSUME d = Do(i, <<ExecuteOff>>) PROVE Has(d, ExecuteOff)
    <3> HIDE DEF d
    <3>1. d.actions = <<ExecuteOff>>
      BY <2>2 DEF Do, Go, NoOp
    <3> QED BY <3>1 DEF Has
  <2> HIDE DEF d, commits, keeps
  <2>3. Attends(i, e, d)
    BY <1>1, <1>2, <1>4, <2>1, <2>2
  <2> QED BY <2>3 DEF d
<1>6. CASE OffSeen(e)
  <2>1. \/ \E reason, extra : d = FinalizeWatering(i, reason, e.at, extra)
        \/ d = PulseOffToSoaking(i, e.at)
    <3>1. \/ d = FinalizeWatering(i, "EXTERNAL_ACTUATOR_STATE_CHANGE", e.at, <<ExecuteOff>>)
          \/ d = FinalizeWatering(i, i.session.pending, e.at, << >>)
          \/ d = PulseOffToSoaking(i, e.at)
          \/ d = FinalizeWatering(i, "MANUAL_COMPLETE", e.at, << >>)
      BY <1>6 DEF DecideWatering, TerminalRequests, OffSeen
    <3> HIDE DEF d
    <3> QED BY <3>1
  <2>2. ASSUME NEW reason, NEW extra, d = FinalizeWatering(i, reason, e.at, extra)
        PROVE  d.state # "WATERING"
    <3> DEFINE closed == CloseRuntime(i.session, e.at, reason)
               dest == IF reason = "MANUAL_COMPLETE" THEN ManualDestination(i, closed)
                       ELSE PostDestination(i, closed, reason)
    <3>1. d.state = dest[1]
      BY <2>2 DEF FinalizeWatering, Close, Latch, Go, NoOp
    <3>2. dest[1] # "WATERING"
      BY DEF ManualDestination, PostDestination
    <3> QED BY <3>1, <3>2
  <2>3. ASSUME d = PulseOffToSoaking(i, e.at) PROVE d.state # "WATERING"
    BY <2>3 DEF PulseOffToSoaking, With, Go, NoOp
  <2> HIDE DEF d
  <2>4. Attends(i, e, d)
    BY <1>3, <2>1, <2>2, <2>3
  <2> QED BY <2>4 DEF d
<1>7. CASE e.kind = "OnConfirmed"
  <2>1. d = DecideOnConfirmed(i, e.at)
    BY <1>7 DEF DecideWatering, TerminalRequests
  <2>2. Attends(i, e, d)
    BY <1>7, <2>1, OnConfirmedAttends
  <2> QED BY <2>2 DEF d
<1>8. CASE e.kind = "OffNotConfirmed"
  <2>1. d.state # "WATERING"
    BY <1>8 DEF DecideWatering, TerminalRequests, OffNotConfirmedWhileWatering, With, Latch, Go,
                NoOp
  <2> HIDE DEF d
  <2>2. Attends(i, e, d)
    BY <1>3, <2>1
  <2> QED BY <2>2 DEF d
<1>9. CASE e.kind \notin {"OnConfirmTimeout", "PulseDeadlineReached", "ManualDeadlineReached",
                          "ActuatorBecameUnavailable", "OnConfirmed", "OffNotConfirmed"}
                           \cup DOMAIN TerminalRequests
           /\ ~OffSeen(e)
  <2>1. e.kind # "StartupPersistedWatering"
    BY EventTyped
  <2>2. e.kind \notin {EndOfPhase[Phase(i.session)], "ConfigChangedPrepare"}
    BY <1>9, PhasesApart DEF TerminalRequests
  <2>3. commits \/ keeps
    <3>1. CASE e.kind = "MoistureReport"
      <4> DEFINE fresh == e.obs.at + SensorMaxAge
                 generation == i.session.generation + 1
                 s == [i.session EXCEPT !.freshUntil = fresh, !.generation = generation]
      <4>1. d = WateringMoisture(i, e.obs)
        BY <3>1 DEF DecideWatering, TerminalRequests
      <4> HIDE DEF d
      <4>2. \/ d.session = i.session \/ d.session = s
            \/ d = CommitTermination(i, "SENSOR_FAULT", "SENSOR_INVALID")
            \/ d = CommitTermination(i, "SENSOR_FAULT", "SENSOR_UNAVAILABLE")
        BY <4>1 DEF WateringMoisture, With, Go, NoOp, Token
      <4>3. s.pending = i.session.pending /\ s.confirmed = i.session.confirmed
            /\ s.mode = i.session.mode
        BY DEF OpenSessions
      <4> HIDE DEF s
      <4> QED BY <2>2, <4>2, <4>3
    <3>2. CASE e.kind = "WatchdogFired"
      <4>1. d = DecideWatchdogFired(i, e.token)
        BY <3>2 DEF DecideWatering, TerminalRequests
      <4> HIDE DEF d
      <4>2. d.session = i.session \/ d = CommitTermination(i, "SENSOR_FAULT", "SENSOR_STALE")
        BY <4>1 DEF DecideWatchdogFired, Do, Go, NoOp
      <4> QED BY <2>2, <4>2
    <3>3. CASE e.kind \notin {"MoistureReport", "WatchdogFired"}
      <4>1. d = NoOp(i)
        BY <1>9, <2>1, <3>3 DEF DecideWatering, TerminalRequests, OffSeen
      <4> HIDE DEF d
      <4> QED BY <2>2, <4>1 DEF NoOp
    <3> HIDE DEF commits, keeps
    <3> QED BY <3>1, <3>2, <3>3
  <2> HIDE DEF d, commits, keeps
  <2>4. Attends(i, e, d)
    BY <1>1, <1>2, <2>3
  <2> QED BY <2>4 DEF d
<1> QED BY <1>5, <1>6, <1>7, <1>8, <1>9

(* Whatever the event, a zone that is left WATERING has its end in sight:  *)
(* decide() asks for OFF, arms the timer of the phase, or leaves reason    *)
(* and phase as they were.  An acknowledgement has a time, or is the       *)
(* first one.                                                              *)
THEOREM DecisionsAttend ==
  ASSUME NEW i \in Situations, NEW e \in Events, Owning(i.state, i.session),
         e.kind = "OnConfirmed" => e.at # NoTime \/ i.session.confirmed = NoTime
  PROVE  Attends(i, e, Decide(i, e))
<1> DEFINE d == Decide(i, e)
<1>1. i.state \in States /\ i.session \in Sessions
  BY DEF Situations
<1>2. i.state \in {"WATERING", "SOAKING"} => i.session \in OpenSessions
  BY <1>1 DEF Owning, Sessions
<1>3. d = CASE i.state = "IDLE" -> DecideIdle(i, e)
            [] i.state = "DISABLED" -> DecideDisabled(i, e)
            [] i.state = "WATERING" -> DecideWatering(i, e)
            [] i.state = "SOAKING" -> DecideSoaking(i, e)
            [] i.state = "FAULT" -> DecideFault(i, e)
  BY EventTyped DEF Decide
<1> HIDE DEF d
<1>4. ASSUME i.state \in {"IDLE", "DISABLED", "FAULT"} PROVE Attends(i, e, d)
  BY <1>3, <1>4, DryAttends
<1>5. ASSUME i.state = "WATERING" PROVE Attends(i, e, d)
  BY <1>2, <1>3, <1>5, WateringAttends
<1>6. ASSUME i.state = "SOAKING" PROVE Attends(i, e, d)
  BY <1>2, <1>3, <1>6, SoakingAttends
<1>7. Attends(i, e, d)
  BY <1>1, <1>4, <1>5, <1>6 DEF States
<1> QED BY <1>7 DEF d
=============================================================================
